------------------------------- MODULE DagRun -------------------------------
(***************************************************************************)
(* What a run of a build graph promises, without saying how goroutines do  *)
(* it (internal/dag).  Every selected node is pending, then running, then  *)
(* settled for good.  A node starts once, and only over dependencies that  *)
(* have all succeeded.  A node may be given up, running or not, only when  *)
(* the run was aborted, or when something it transitively depends on has   *)
(* failed.  The verdict is reported once every node is settled, or after   *)
(* an abort.                                                               *)
(***************************************************************************)
EXTENDS Naturals

CONSTANTS
  Nodes,       \* nodes of the build graph
  Selected,    \* the nodes selected for this run
  Deps,        \* Deps[n]: the direct dependencies of n
  Descendants  \* Descendants[n]: everything that transitively depends on n

VARIABLES
  status,      \* the state of every selected node
  aborted,     \* the run was cancelled: by the user, or by fail-fast
  verdict      \* "none", "nil" or "canceled": what the caller was told

dagVars == <<status, aborted, verdict>>

Settled == {"succeeded", "failed", "skipped"}

DagTypeOK ==
  /\ status \in [Selected -> {"pending", "running"} \cup Settled]
  /\ aborted \in BOOLEAN
  /\ verdict \in {"none", "nil", "canceled"}

DagInit ==
  /\ status = [n \in Selected |-> "pending"]
  /\ aborted = FALSE
  /\ verdict = "none"

Start(n) ==
  /\ status[n] = "pending"
  /\ \A d \in Deps[n] : d \in Selected /\ status[d] = "succeeded"
  /\ status' = [status EXCEPT ![n] = "running"]
  /\ UNCHANGED <<aborted, verdict>>

Succeed(n) ==
  /\ status[n] = "running"
  /\ status' = [status EXCEPT ![n] = "succeeded"]
  /\ UNCHANGED <<aborted, verdict>>

\* A failure aborts the whole run (fail-fast) or leaves it going.
Fail(n) ==
  /\ status[n] = "running"
  /\ status' = [status EXCEPT ![n] = "failed"]
  /\ aborted' \in {aborted, TRUE}
  /\ UNCHANGED verdict

Skip(n) ==
  /\ \/ aborted /\ status[n] \in {"pending", "running"}
     \/ /\ status[n] = "pending"
        /\ \E f \in Selected : status[f] = "failed" /\ n \in Descendants[f]
  /\ status' = [status EXCEPT ![n] = "skipped"]
  /\ UNCHANGED <<aborted, verdict>>

Abort == aborted' = TRUE /\ UNCHANGED <<status, verdict>>

Report ==
  /\ verdict = "none"
  /\ aborted \/ \A n \in Selected : status[n] \in Settled
  /\ verdict' \in {"nil", "canceled"}
  /\ verdict' = "canceled" => aborted
  /\ UNCHANGED <<status, aborted>>

DagNext ==
  \/ \E n \in Selected : Start(n) \/ Succeed(n) \/ Fail(n) \/ Skip(n)
  \/ Abort
  \/ Report

DagSpec == DagInit /\ [][DagNext]_dagVars
=============================================================================
