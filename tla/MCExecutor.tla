----------------------------- MODULE MCExecutor -----------------------------
(* Small repositories for Executor: see the .cfg files.                    *)
EXTENDS Executor

CONSTANTS lib, gen, app, test, alias, pa, pb, pc1, pd

\* gen reads lib, app reads both: app's rerun of gen may rerun lib
ChainTargets == {lib, gen, app}
ChainDeps == (lib :> {}) @@ (gen :> {lib}) @@ (app :> {lib, gen})
ChainPaths == (lib :> pa) @@ (gen :> pb) @@ (app :> pc1)

\* two targets that always run, over a library and what is generated from it:
\* their reruns of gen and lib overlap, and those of gen may rerun lib
DiamondTargets == {lib, gen, app, test}
DiamondDeps ==
  (lib :> {}) @@ (gen :> {lib}) @@ (app :> {lib, gen}) @@ (test :> {lib, gen})
DiamondPaths == ChainPaths @@ (test :> pd)

NoAlias == [a \in {} |-> lib]

\* app lists an alias of lib
AliasDeps == (lib :> {}) @@ (gen :> {}) @@ (app :> {alias})
AliasReads == (lib :> {}) @@ (gen :> {}) @@ (app :> {lib})
AliasActual == (alias :> lib)

Limit(builds, edits, drops, taints, failures, loads) ==
  [builds |-> builds, edits |-> edits, drops |-> drops, taints |-> taints,
   failures |-> failures, loads |-> loads]

BoundAll == Limit(3, 1, 1, 1, 1, 1)
BoundDiamond == Limit(3, 0, 3, 0, 1, 0)
BoundEdits == Limit(2, 3, 0, 0, 0, 0)
=============================================================================
