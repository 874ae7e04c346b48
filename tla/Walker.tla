------------------------------- MODULE Walker -------------------------------
(***************************************************************************)
(* The concurrent graph walker of internal/dag/graph_walker.go.            *)
(*                                                                         *)
(* Walk starts one goroutine per selected node.  The goroutine waits for a *)
(* ready message or for its cancel channel to be closed, runs the callback *)
(* and hands the outcome to onComplete, which runs under doneMutex and     *)
(* starts the dependants that became ready, or cancels what can no longer  *)
(* be built.  Walk itself waits for all goroutines or for its context.     *)
(*                                                                         *)
(* Atomicity: one action per critical section of doneMutex or nodeMutex    *)
(* and one per channel operation.  The goroutine that delivers a ready     *)
(* message (graph_walker.go:185) always finds the buffer free or blocks    *)
(* for good, so "sent" counts the messages sent or about to be.            *)
(***************************************************************************)
EXTENDS Naturals, FiniteSets

CONSTANTS
  Nodes,     \* the nodes of the build graph
  Edges,     \* Edges[d][n]: how often n lists d as a dependency
  Selected   \* the nodes selected for this build

\* AddEdge appends: a dependency listed twice is two edges.
ASSUME EdgesAssumption == Edges \in [Nodes -> [Nodes -> Nat]]

\* graph_walker.go's inEdges and outEdges as sets
Deps == [n \in Nodes |-> {d \in Nodes : Edges[d][n] > 0}]
Dependants == [n \in Nodes |-> {m \in Nodes : Edges[n][m] > 0}]

\* SelectTargetsForBuild selects the dependencies of what it selects.
ASSUME SelectedAssumption ==
  /\ Selected \subseteq Nodes
  /\ \A n \in Selected : Deps[n] \subseteq Selected

\* GetDescendants: the least set that holds n's dependants and theirs.
Descendants ==
  [n \in Nodes |->
     {m \in Nodes :
        \A S \in SUBSET Nodes :
           (/\ Dependants[n] \subseteq S
            /\ \A s \in S : Dependants[s] \subseteq S) => m \in S}]

VARIABLES
  walk,              \* where the goroutine running Walk is
  unstarted,         \* roots that Walk's start loop has not reached
  result,            \* what Walk returned
  failFast,          \* the option given to NewWalker
  failFastTriggered,
  ctxDone,           \* the context made by Walk is cancelled
  interrupted,       \* ... because its parent was cancelled
  sent,              \* ready messages sent to each node by startNode
  cancelled,         \* the nodes whose cancel channel is closed
  toCancel,          \* the nodes cancelAll's goroutines have still to cancel
  routine,           \* where each node's goroutine is
  completions        \* the CompletionMap

walkVars == <<walk, unstarted, result>>
cancelVars == <<cancelled, toCancel>>
ctxVars == <<ctxDone, interrupted>>
vars == <<walk, unstarted, result, failFast, failFastTriggered, ctxDone,
          interrupted, sent, cancelled, toCancel, routine, completions>>

TypeOK ==
  /\ walk \in {"starting", "waiting", "cancelling", "returned"}
  /\ unstarted \subseteq Selected
  /\ result \in {"none", "nil", "canceled"}
  /\ failFast \in BOOLEAN
  /\ failFastTriggered \in BOOLEAN
  /\ ctxDone \in BOOLEAN
  /\ interrupted \in BOOLEAN
  /\ sent \in [Selected -> Nat]
  /\ cancelled \subseteq Selected
  /\ toCancel \subseteq Selected
  /\ routine \in [Selected ->
                    {"waiting", "running", "succeeded", "failed", "exited"}]
  /\ completions \in [Selected -> {"none", "success", "failure"}]

AllExited == \A n \in Selected : routine[n] = "exited"

DepsSucceeded(n, c) == \A d \in Deps[n] : c[d] = "success"

\* The state after the populate loop of Walk: until a ready message is sent
\* the routines it started can only wait, so the loop is not observable.
Init ==
  /\ walk = "starting"
  /\ unstarted = {n \in Selected : Deps[n] = {}}
  /\ result = "none"
  /\ failFast \in BOOLEAN
  /\ failFastTriggered = FALSE
  /\ ctxDone = FALSE
  /\ interrupted = FALSE
  /\ sent = [n \in Selected |-> 0]
  /\ cancelled = {}
  /\ toCancel = {}
  /\ routine = [n \in Selected |-> "waiting"]
  /\ completions = [n \in Selected |-> "none"]

-----------------------------------------------------------------------------
\* The goroutine that runs Walk

StartRoot(n) ==
  /\ walk = "starting"
  /\ n \in unstarted
  /\ unstarted' = unstarted \ {n}
  /\ sent' = [sent EXCEPT ![n] = @ + 1]
  /\ UNCHANGED <<walk, result, failFast, failFastTriggered, ctxVars,
                 cancelVars, routine, completions>>

\* Walk reaches its select.  A cancelled context is taken at once; otherwise
\* Walk parks, and the first of its two channels that closes wakes it.
EnterSelect ==
  /\ walk = "starting"
  /\ unstarted = {}
  /\ walk' = IF ctxDone THEN "cancelling" ELSE "waiting"
  /\ UNCHANGED <<unstarted, result, failFast, failFastTriggered, ctxVars, sent,
                 cancelVars, routine, completions>>

\* The wait group is down to zero and the done channel closed.  When Walk only
\* now reaches the select, this branch can win over a cancelled context.
SelectDone ==
  /\ walk \in {"starting", "waiting"}
  /\ unstarted = {}
  /\ AllExited
  /\ walk' = "returned"
  /\ result' = "nil"
  /\ UNCHANGED <<unstarted, failFast, failFastTriggered, ctxVars, sent,
                 cancelVars, routine, completions>>

\* Mutant: cancelAll is forgotten.
CancelNobody == toCancel' = toCancel

CancelAll == toCancel' = Selected

SelectCtxDone ==
  /\ walk = "cancelling"
  /\ walk' = "returned"
  /\ CancelAll
  /\ result' = IF failFastTriggered THEN "nil" ELSE "canceled"
  /\ UNCHANGED <<unstarted, failFast, failFastTriggered, ctxVars, sent,
                 cancelled, routine, completions>>

\* What a cancelled context does to a Walk that is parked in its select
WakeWalk == walk' = IF walk = "waiting" THEN "cancelling" ELSE walk

\* The caller's context is cancelled (the user hits Ctrl-C).
Interrupt ==
  /\ walk # "returned"
  /\ ~interrupted
  /\ interrupted' = TRUE
  /\ ctxDone' = TRUE
  /\ WakeWalk
  /\ UNCHANGED <<unstarted, result, failFast, failFastTriggered, sent,
                 cancelVars, routine, completions>>

\* One of cancelAll's goroutines gets nodeMutex and closes a cancel channel.
CancelNode(n) ==
  /\ n \in toCancel
  /\ toCancel' = toCancel \ {n}
  /\ cancelled' = cancelled \cup {n}
  /\ UNCHANGED <<walkVars, failFast, failFastTriggered, ctxVars, sent, routine,
                 completions>>

-----------------------------------------------------------------------------
\* The goroutine of node n.  Both branches of its select may be open.

ReceiveCancel(n) ==
  /\ routine[n] = "waiting"
  /\ n \in cancelled
  /\ routine' = [routine EXCEPT ![n] = "exited"]
  /\ UNCHANGED <<walkVars, failFast, failFastTriggered, ctxVars, sent,
                 cancelVars, completions>>

ReceiveReady(n) ==
  /\ routine[n] = "waiting"
  /\ sent[n] > 0
  /\ routine' = [routine EXCEPT ![n] = "running"]
  /\ UNCHANGED <<walkVars, failFast, failFastTriggered, ctxVars, sent,
                 cancelVars, completions>>

\* The callback reports context.Canceled only of a context that is cancelled;
\* such a node is left out of the completions.
CallbackReturns(n) ==
  /\ routine[n] = "running"
  /\ \E r \in {"succeeded", "failed", "exited"} :
       /\ r = "exited" => ctxDone
       /\ routine' = [routine EXCEPT ![n] = r]
  /\ UNCHANGED <<walkVars, failFast, failFastTriggered, ctxVars, sent,
                 cancelVars, completions>>

\* Mutant: a failure is not recorded.
OutcomeOfSuccess(n) == IF routine[n] = "succeeded" THEN "success" ELSE "none"

Outcome(n) == IF routine[n] = "succeeded" THEN "success" ELSE "failure"

\* onComplete: the outcome that routine n reports, recorded under doneMutex
Record(n) ==
  /\ routine[n] \in {"succeeded", "failed"}
  /\ completions' = [completions EXCEPT ![n] = Outcome(n)]
  /\ routine' = [routine EXCEPT ![n] = "exited"]

OnCompleteAfterFailFast(n) ==
  /\ failFastTriggered
  /\ Record(n)
  /\ UNCHANGED <<walkVars, failFast, failFastTriggered, ctxVars, sent,
                 cancelVars>>

OnCompleteFailFast(n) ==
  /\ routine[n] = "failed"
  /\ failFast
  /\ ~failFastTriggered
  /\ Record(n)
  /\ failFastTriggered' = TRUE
  /\ ctxDone' = TRUE
  /\ CancelAll
  /\ WakeWalk
  /\ UNCHANGED <<unstarted, result, failFast, interrupted, sent, cancelled>>

\* Mutants: only the direct dependants are cancelled, or everything is.
CancelDependants(n) == Dependants[n] \cap Selected
CancelEverything(n) == Selected

CancelledBy(n) == Descendants[n] \cap Selected

OnCompleteFailure(n) ==
  /\ routine[n] = "failed"
  /\ ~failFast
  /\ ~failFastTriggered
  /\ Record(n)
  /\ cancelled' = cancelled \cup CancelledBy(n)
  /\ UNCHANGED <<walkVars, failFast, failFastTriggered, ctxVars, sent, toCancel>>

\* Mutants: the dependencies are not looked at, or looked up too early.
MessagesUnchecked(n, m, c) == Edges[n][m]
MessagesTooEarly(n, m, c) ==
  IF DepsSucceeded(m, completions) THEN Edges[n][m] ELSE 0

\* The loop over outEdges visits a dependant once per edge, and startNode is
\* "not idempotent": it sends one message each time.
Messages(n, m, c) == IF DepsSucceeded(m, c) THEN Edges[n][m] ELSE 0

OnCompleteSuccess(n) ==
  /\ routine[n] = "succeeded"
  /\ ~failFastTriggered
  /\ Record(n)
  /\ sent' = [m \in Selected |-> sent[m] + Messages(n, m, completions')]
  /\ UNCHANGED <<walkVars, failFast, failFastTriggered, ctxVars, cancelVars>>

OnComplete(n) ==
  \/ OnCompleteAfterFailFast(n)
  \/ OnCompleteFailFast(n)
  \/ OnCompleteFailure(n)
  \/ OnCompleteSuccess(n)

-----------------------------------------------------------------------------
Walk ==
  \/ \E n \in Selected : StartRoot(n)
  \/ EnterSelect
  \/ SelectDone
  \/ SelectCtxDone

Routine(n) ==
  \/ ReceiveCancel(n)
  \/ ReceiveReady(n)
  \/ CallbackReturns(n)
  \/ OnComplete(n)

Next ==
  \/ Walk
  \/ \E n \in Selected : Routine(n) \/ CancelNode(n)
  \/ Interrupt

Spec == Init /\ [][Next]_vars

\* Goroutines are scheduled fairly and every callback returns: a command that
\* never ends is not the walker's doing.
Fairness ==
  /\ WF_vars(Walk)
  /\ \A n \in Selected : WF_vars(Routine(n)) /\ WF_vars(CancelNode(n))

FairSpec == Spec /\ Fairness

-----------------------------------------------------------------------------
(***************************************************************************)
(* Properties                                                              *)
(***************************************************************************)

\* A callback only ever runs over dependencies that are all recorded as
\* successful: the promise the executor reads dependency outputs under.
RunsAfterDeps ==
  \A n \in Selected :
     routine[n] \in {"running", "succeeded", "failed"} \/ completions[n] # "none"
       => DepsSucceeded(n, completions)

\* No lost start: while the walk is live, a node whose dependencies all
\* succeeded and that still waits has a message under way, whichever of its
\* dependencies finished last and in whatever order their onComplete ran.
NoLostStart ==
  \A n \in Selected :
     (/\ ~failFastTriggered
      /\ routine[n] = "waiting"
      /\ DepsSucceeded(n, completions)) => sent[n] > 0 \/ n \in unstarted

\* startNode's messages match the edges: a node is never sent more messages
\* than it has edges from the dependency that finished last, so a graph
\* without duplicate edges sends one at most and no sender is left blocked.
StartedOncePerEdge ==
  \A n \in Selected :
     sent[n] > 1 => \E d \in Deps[n] : sent[n] <= Edges[d][n]

\* Keep-going: when Walk returns undisturbed, the nodes without a completion
\* are exactly those downstream of a failure.
KeepGoing ==
  walk = "returned" /\ ~ctxDone =>
    \A n \in Selected :
       completions[n] = "none" <=>
         \E f \in Selected : completions[f] = "failure" /\ n \in Descendants[f]

\* What the commands rely on when Walk returned no error and the user did not
\* interrupt: no failure in the completions means that everything was built.
NilMeansBuilt ==
  (/\ result = "nil"
   /\ ~interrupted
   /\ \A n \in Selected : completions[n] # "failure")
     => \A n \in Selected : completions[n] = "success"

\* Walk always returns, and no goroutine is left behind for good, through
\* failures, fail-fast and interrupts alike.
WalkReturns == <>(walk = "returned") /\ <>[]AllExited

-----------------------------------------------------------------------------
\* The walker implements the abstract run of the graph.

\* A node's status, from where its routine is and what was recorded
StatusOf(r, c) ==
  CASE c = "success" -> "succeeded"
    [] c = "failure" -> "failed"
    [] c = "none" /\ r = "waiting" -> "pending"
    [] c = "none" /\ r = "exited" -> "skipped"
    [] OTHER -> "running"

Status == [n \in Selected |-> StatusOf(routine[n], completions[n])]

Run == INSTANCE DagRun WITH status <- Status, aborted <- ctxDone, verdict <- result

\* Every step of the goroutines is a step of an abstract run, or none.
ImplementsRun == Run!DagSpec

=============================================================================
