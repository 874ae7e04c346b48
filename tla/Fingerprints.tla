---------------------------- MODULE Fingerprints ----------------------------
(***************************************************************************)
(* The hashes that decide whether a target is rebuilt (internal/hashing,   *)
(* output/get_output_hash.go, output/registry.go).                         *)
(*                                                                         *)
(* A digest is modelled by the value that is hashed: hash functions are    *)
(* taken to be free of collisions, and what matters is what each hash      *)
(* covers and, above all, what it does not.  A target is abstracted to one *)
(* input file and at most one output file.                                 *)
(***************************************************************************)
EXTENDS Naturals, FiniteSets

CONSTANTS
  Targets,
  Aliases,
  Deps,       \* Deps[t]: the targets and aliases t lists as dependencies
  Actual,     \* Actual[a]: the target an alias stands for
  Reads,      \* Reads[t]: the targets whose outputs t's command reads
  Path,       \* Path[t]: the output's path, relative to t's package
  NoOutputs,  \* targets that declare no output
  NoCache,    \* targets tagged no-cache
  Unset       \* no file, or a digest that was not computed

ASSUME GraphAssumption ==
  /\ Deps \in [Targets -> SUBSET (Targets \cup Aliases)]
  /\ Actual \in [Aliases -> Targets]
  /\ Reads \in [Targets -> SUBSET Targets]
  /\ NoOutputs \subseteq Targets
  /\ NoCache \subseteq Targets

\* GetTargetDependencies: aliases among the dependencies are left out.
TargetDeps(t) == Deps[t] \cap Targets

\* Every command refuses a graph with a cycle (BuildGraph): of any targets, one
\* depends on none of the others.
ASSUME AcyclicAssumption ==
  \A T \in SUBSET Targets : T # {} => \E t \in T : TargetDeps(t) \cap T = {}

\* What the walk waits for: an alias is done when its target is.
WalkDeps(t) == TargetDeps(t) \cup {Actual[a] : a \in Deps[t] \cap Aliases}

\* sorted(...) of a list of hashes: the multiset of the hashes
Multiset(S, hash) ==
  [h \in {hash[d] : d \in S} |-> Cardinality({d \in S : hash[d] = h})]

\* Mutant: dependencies are left out of the change hash.
ChangeHashOfInputs(t, source, outputHash) ==
  [label |-> t, input |-> source[t], deps |-> Multiset({}, outputHash)]

\* GetTargetChangeHash: the label, the inputs and the output hashes of the
\* dependencies that are targets, without saying which hash is whose.
ChangeHash(t, source, outputHash) ==
  [label |-> t,
   input |-> source[t],
   deps  |-> Multiset(TargetDeps(t), outputHash)]

\* getOutputHash: the output message with its path and digest
OutputHash(t, content) == [path |-> Path[t], digest |-> content]

\* GetNoCacheOutputHash: the digests alone; without outputs, a constant
RawHash(t, content) ==
  [digests |-> IF t \in NoOutputs THEN {} ELSE {content}]

\* What a command sees of a dependency: its output or, of a target without
\* outputs (a group of files), the inputs
Seen(d, source, outputs) == IF d \in NoOutputs THEN source[d] ELSE outputs[d]

\* What the command of t makes of its input and of the dependencies it reads
Produce(t, source, outputs) ==
  IF t \in NoOutputs THEN Unset
  ELSE [input |-> source[t],
        read  |-> [d \in Reads[t] |-> Seen(d, source, outputs)]]

\* The outputs of a build from scratch
Clean(source) ==
  LET outputs[t \in Targets] == Produce(t, source, outputs) IN outputs
=============================================================================
