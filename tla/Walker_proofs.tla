---------------------------- MODULE Walker_proofs ----------------------------
(***************************************************************************)
(* Proofs about the graph walker, for every graph, every multiplicity of   *)
(* its edges and every selection closed under dependencies.                *)
(*                                                                         *)
(* WInv is the inductive invariant.  Its core is the link between the two  *)
(* halves of onComplete: a ready message stands for dependencies that have *)
(* all succeeded, and until the context is cancelled a closed cancel       *)
(* channel stands for a recorded failure upstream.                         *)
(***************************************************************************)
EXTENDS Walker, TLAPS

\* A message is only sent to, and a root only started, once.
SendInv ==
  /\ \A n \in Selected : sent[n] > 0 => DepsSucceeded(n, completions)
  /\ \A n \in unstarted : Deps[n] = {} /\ sent[n] = 0

\* Recorded outcomes belong to routines that are gone.
RecordInv ==
  \A n \in Selected : completions[n] # "none" => routine[n] = "exited"

\* Who may have closed a cancel channel, and who leaves without an outcome.
CancelInv ==
  ~ctxDone =>
    /\ toCancel = {}
    /\ \A n \in cancelled :
         \E f \in Selected : completions[f] = "failure" /\ n \in Descendants[f]
    /\ \A n \in Selected :
         routine[n] = "exited" /\ completions[n] = "none" => n \in cancelled

\* The context, the fail-fast flag and what Walk returned.
WalkInv ==
  /\ failFastTriggered =>
       ctxDone /\ \E f \in Selected : completions[f] = "failure"
  /\ ctxDone => interrupted \/ failFastTriggered
  /\ walk = "cancelling" => ctxDone
  /\ walk = "returned" <=> result # "none"
  /\ result = "canceled" => ctxDone
  /\ result = "nil" => AllExited \/ failFastTriggered

WInv ==
  /\ TypeOK
  /\ RunsAfterDeps
  /\ NoLostStart
  /\ StartedOncePerEdge
  /\ SendInv
  /\ RecordInv
  /\ CancelInv
  /\ WalkInv

-----------------------------------------------------------------------------
\* The graph facts used below: selected nodes have selected dependencies, and
\* the edge counts, Deps and Dependants describe one relation.
LEMMA GraphFacts ==
  /\ Selected \subseteq Nodes
  /\ \A n \in Selected : Deps[n] \subseteq Selected
  /\ \A d, n \in Nodes : Edges[d][n] \in Nat
  /\ \A n \in Nodes : \A d \in Nodes : d \in Deps[n] <=> Edges[d][n] > 0
  /\ \A n \in Nodes : Deps[n] \subseteq Nodes
  /\ \A n \in Nodes : Dependants[n] \subseteq Nodes
  /\ \A n, d \in Nodes : n \in Dependants[d] <=> d \in Deps[n]
  BY SelectedAssumption, EdgesAssumption DEF Deps, Dependants

\* A set that holds the dependants of n and of its own members holds every
\* descendant of n: the one way the proofs use what GetDescendants returns.
LEMMA DescendantsLeast ==
  ASSUME NEW n \in Nodes, NEW S \in SUBSET Nodes,
         Dependants[n] \subseteq S,
         \A s \in S : Dependants[s] \subseteq S
  PROVE  Descendants[n] \subseteq S
  BY DEF Descendants

-----------------------------------------------------------------------------
\* The initial state satisfies the invariant.
LEMMA WInvInit == Init => WInv
  <1> SUFFICES ASSUME Init PROVE WInv
    OBVIOUS
  <1> USE DEF Init
  <1>1. TypeOK
    BY SelectedAssumption DEF TypeOK
  <1>2. RunsAfterDeps /\ StartedOncePerEdge
    BY DEF RunsAfterDeps, StartedOncePerEdge
  <1>3. NoLostStart
    <2> SUFFICES ASSUME NEW n \in Selected, DepsSucceeded(n, completions)
                 PROVE  n \in unstarted
      BY DEF NoLostStart
    <2> QED  BY GraphFacts DEF DepsSucceeded
  <1>4. SendInv
    BY DEF SendInv
  <1>5. RecordInv /\ CancelInv /\ WalkInv
    BY DEF RecordInv, CancelInv, WalkInv
  <1> QED  BY <1>1, <1>2, <1>3, <1>4, <1>5 DEF WInv

-----------------------------------------------------------------------------
\* Every step preserves the invariant.
LEMMA WInvNext == WInv /\ [Next]_vars => WInv'
  <1> SUFFICES ASSUME WInv, [Next]_vars PROVE WInv'
    OBVIOUS
  <1> USE GraphFacts DEF WInv
  <1>1. ASSUME NEW n \in Selected, StartRoot(n) PROVE WInv'
    <2> USE <1>1 DEF StartRoot, cancelVars, ctxVars
    <2>1. TypeOK'
      BY DEF TypeOK
    <2>2. RunsAfterDeps'
      BY DEF RunsAfterDeps, DepsSucceeded
    <2>3. NoLostStart'
      BY DEF NoLostStart, DepsSucceeded, TypeOK
    <2>4. StartedOncePerEdge'
      BY DEF StartedOncePerEdge, SendInv, TypeOK
    <2>5. SendInv'
      BY DEF SendInv, DepsSucceeded, TypeOK
    <2>6. RecordInv' /\ CancelInv'
      BY DEF RecordInv, CancelInv
    <2>7. WalkInv'
      BY DEF WalkInv, AllExited
    <2> QED  BY <2>1, <2>2, <2>3, <2>4, <2>5, <2>6, <2>7
  <1>2. ASSUME EnterSelect \/ SelectDone \/ SelectCtxDone PROVE WInv'
    <2> USE <1>2 DEF EnterSelect, SelectDone, SelectCtxDone, CancelAll, cancelVars, ctxVars
    <2>1. TypeOK'
      BY DEF TypeOK
    <2>2. RunsAfterDeps' /\ NoLostStart' /\ StartedOncePerEdge'
      BY DEF RunsAfterDeps, NoLostStart, StartedOncePerEdge, DepsSucceeded
    <2>3. SendInv' /\ RecordInv'
      BY DEF SendInv, RecordInv, DepsSucceeded
    <2>4. CancelInv'
      BY DEF CancelInv, WalkInv
    <2>5. WalkInv'
      BY DEF WalkInv, AllExited
    <2> QED  BY <2>1, <2>2, <2>3, <2>4, <2>5
  <1>3. ASSUME Interrupt PROVE WInv'
    <2> USE <1>3 DEF Interrupt, WakeWalk, cancelVars
    <2>1. TypeOK'
      BY DEF TypeOK
    <2>2. RunsAfterDeps' /\ NoLostStart' /\ StartedOncePerEdge'
      BY DEF RunsAfterDeps, NoLostStart, StartedOncePerEdge, DepsSucceeded
    <2>3. SendInv' /\ RecordInv' /\ CancelInv'
      BY DEF SendInv, RecordInv, CancelInv, DepsSucceeded
    <2>4. WalkInv'
      BY DEF WalkInv, AllExited
    <2> QED  BY <2>1, <2>2, <2>3, <2>4
  <1>4. ASSUME NEW n \in Selected, CancelNode(n) PROVE WInv'
    <2> USE <1>4 DEF CancelNode, walkVars, ctxVars
    <2>1. TypeOK'
      BY DEF TypeOK
    <2>2. RunsAfterDeps' /\ NoLostStart' /\ StartedOncePerEdge'
      BY DEF RunsAfterDeps, NoLostStart, StartedOncePerEdge, DepsSucceeded
    <2>3. SendInv' /\ RecordInv' /\ WalkInv'
      BY DEF SendInv, RecordInv, DepsSucceeded, WalkInv, AllExited
    <2>4. CancelInv'
      BY DEF CancelInv
    <2> QED  BY <2>1, <2>2, <2>3, <2>4
  <1>5. ASSUME NEW n \in Selected, ReceiveCancel(n) \/ ReceiveReady(n)
        PROVE  WInv'
    <2> USE <1>5 DEF ReceiveCancel, ReceiveReady, walkVars, ctxVars, cancelVars
    <2>1. TypeOK'
      BY DEF TypeOK
    <2>2. RunsAfterDeps'
      BY DEF RunsAfterDeps, SendInv, DepsSucceeded, TypeOK
    <2>3. NoLostStart'
      BY DEF NoLostStart, DepsSucceeded, TypeOK
    <2>4. StartedOncePerEdge' /\ SendInv'
      BY DEF StartedOncePerEdge, SendInv, DepsSucceeded
    <2>5. RecordInv' /\ CancelInv'
      BY DEF RecordInv, CancelInv, TypeOK
    <2>6. WalkInv'
      BY DEF WalkInv, AllExited, TypeOK
    <2> QED  BY <2>1, <2>2, <2>3, <2>4, <2>5, <2>6
  <1>6. ASSUME NEW n \in Selected, CallbackReturns(n) PROVE WInv'
    <2> USE <1>6 DEF CallbackReturns, walkVars, ctxVars, cancelVars
    <2>1. TypeOK'
      BY DEF TypeOK
    <2>2. RunsAfterDeps'
      BY DEF RunsAfterDeps, DepsSucceeded, TypeOK
    <2>3. NoLostStart'
      BY DEF NoLostStart, DepsSucceeded, TypeOK
    <2>4. StartedOncePerEdge' /\ SendInv'
      BY DEF StartedOncePerEdge, SendInv, DepsSucceeded
    <2>5. RecordInv' /\ CancelInv'
      BY DEF RecordInv, CancelInv, TypeOK
    <2>6. WalkInv'
      BY DEF WalkInv, AllExited, TypeOK
    <2> QED  BY <2>1, <2>2, <2>3, <2>4, <2>5, <2>6
  <1>7. ASSUME NEW n \in Selected, OnComplete(n) PROVE WInv'
    <2> USE DEF Record, Outcome
    <2>r. /\ Record(n)
          /\ completions[n] = "none"
          /\ DepsSucceeded(n, completions)
      BY <1>7 DEF OnComplete, OnCompleteAfterFailFast, OnCompleteFailFast,
                  OnCompleteFailure, OnCompleteSuccess, RecordInv,
                  RunsAfterDeps, TypeOK
    \* what was recorded stays recorded, so what was ready stays ready
    <2>k. \A m \in Selected :
             DepsSucceeded(m, completions) => DepsSucceeded(m, completions')
      BY <2>r DEF DepsSucceeded, TypeOK
    <2>1. RunsAfterDeps' /\ RecordInv'
      BY <2>r, <2>k DEF RunsAfterDeps, RecordInv, TypeOK
    <2>2. CASE OnCompleteSuccess(n)
      <3> USE <2>2 DEF OnCompleteSuccess, Messages, walkVars, ctxVars, cancelVars
      <3>0. \A m \in Selected :
              /\ sent'[m] = sent[m] +
                   (IF DepsSucceeded(m, completions') THEN Edges[n][m] ELSE 0)
              /\ Edges[n][m] \in Nat /\ sent[m] \in Nat
        BY DEF TypeOK
      <3>1. TypeOK'
        BY <3>0 DEF TypeOK
      <3>2. ASSUME NEW m \in Selected, n \in Deps[m]
            PROVE  sent[m] = 0 /\ ~DepsSucceeded(m, completions)
        BY <2>r, <3>2, <3>0 DEF SendInv, DepsSucceeded
      <3>3. ASSUME NEW m \in Selected, n \notin Deps[m]
            PROVE  /\ sent'[m] = sent[m]
                   /\ DepsSucceeded(m, completions') = DepsSucceeded(m, completions)
        <4>1. Edges[n][m] = 0
          BY <3>3, <3>0
        <4>2. \A d \in Deps[m] : completions'[d] = completions[d]
          BY <3>3 DEF TypeOK
        <4> QED  BY <4>1, <4>2, <3>0 DEF DepsSucceeded
      <3>4. NoLostStart'
        <4> SUFFICES ASSUME NEW m \in Selected, routine'[m] = "waiting",
                            DepsSucceeded(m, completions')
                     PROVE  sent'[m] > 0 \/ m \in unstarted
          BY DEF NoLostStart
        <4>1. routine[m] = "waiting"
          BY DEF TypeOK
        <4>2. CASE n \in Deps[m]
          BY <4>2, <3>0
        <4>3. CASE n \notin Deps[m]
          BY <4>3, <4>1, <3>3 DEF NoLostStart
        <4> QED  BY <4>2, <4>3
      <3>5. StartedOncePerEdge'
        <4> SUFFICES ASSUME NEW m \in Selected, sent'[m] > 1
                     PROVE  \E d \in Deps[m] : sent'[m] <= Edges[d][m]
          BY DEF StartedOncePerEdge
        <4>1. CASE n \in Deps[m]
          BY <4>1, <3>2, <3>0
        <4>2. CASE n \notin Deps[m]
          BY <4>2, <3>3 DEF StartedOncePerEdge
        <4> QED  BY <4>1, <4>2
      <3>6. SendInv'
        <4>1. ASSUME NEW m \in Selected, sent'[m] > 0
              PROVE  DepsSucceeded(m, completions')
          <5>1. CASE sent[m] > 0
            BY <5>1, <2>k DEF SendInv
          <5>2. CASE sent[m] = 0
            BY <5>2, <4>1, <3>0
          <5> QED  BY <5>1, <5>2, <3>0
        <4>2. ASSUME NEW m \in unstarted
              PROVE  Deps[m] = {} /\ sent'[m] = 0
          BY <3>3, m \in Selected DEF SendInv, TypeOK
        <4> QED  BY <4>1, <4>2 DEF SendInv
      <3>7. CancelInv'
        BY <2>r DEF CancelInv, TypeOK
      <3>8. WalkInv'
        BY <2>r DEF WalkInv, AllExited, TypeOK
      <3> QED  BY <2>1, <3>1, <3>4, <3>5, <3>6, <3>7, <3>8
    <2>3. CASE OnCompleteFailure(n)
      <3> USE <2>3 DEF OnCompleteFailure, CancelledBy, walkVars, ctxVars
      <3>1. TypeOK'
        BY DEF TypeOK
      <3>2. ASSUME NEW m \in Selected
            PROVE  DepsSucceeded(m, completions') => DepsSucceeded(m, completions)
        BY <2>r DEF DepsSucceeded, TypeOK
      <3>3. NoLostStart' /\ StartedOncePerEdge'
        BY <3>2 DEF NoLostStart, StartedOncePerEdge, TypeOK
      <3>4. SendInv'
        BY <2>k DEF SendInv
      <3>5. CancelInv'
        <4> SUFFICES ASSUME ~ctxDone PROVE CancelInv'
          BY DEF CancelInv
        <4>1. completions'[n] = "failure"
          BY DEF TypeOK
        <4>2. \A f \in Selected : completions[f] = "failure" => completions'[f] = "failure"
          BY <4>1 DEF TypeOK
        <4> QED  BY <4>1, <4>2, <2>r DEF CancelInv, TypeOK
      <3>6. WalkInv'
        BY <2>r DEF WalkInv, AllExited, TypeOK
      <3> QED  BY <2>1, <3>1, <3>3, <3>4, <3>5, <3>6
    <2>4. CASE OnCompleteFailFast(n)
      <3> USE <2>4 DEF OnCompleteFailFast, CancelAll, WakeWalk
      <3>1. TypeOK'
        BY DEF TypeOK
      <3>2. NoLostStart' /\ StartedOncePerEdge' /\ CancelInv'
        BY DEF NoLostStart, StartedOncePerEdge, CancelInv
      <3>3. SendInv'
        BY <2>k DEF SendInv
      <3>4. WalkInv'
        <4>1. completions'[n] = "failure"
          BY DEF TypeOK
        <4> QED  BY <4>1, <2>r DEF WalkInv, AllExited, TypeOK
      <3> QED  BY <2>1, <3>1, <3>2, <3>3, <3>4
    <2>5. CASE OnCompleteAfterFailFast(n)
      <3> USE <2>5 DEF OnCompleteAfterFailFast, walkVars, ctxVars, cancelVars
      <3>1. TypeOK'
        BY DEF TypeOK
      <3>2. NoLostStart' /\ StartedOncePerEdge'
        BY DEF NoLostStart, StartedOncePerEdge
      <3>3. SendInv'
        BY <2>k DEF SendInv
      <3>4. CancelInv'
        BY DEF CancelInv, WalkInv
      <3>5. WalkInv'
        BY <2>r DEF WalkInv, AllExited, TypeOK
      <3> QED  BY <2>1, <3>1, <3>2, <3>3, <3>4, <3>5
    <2> QED  BY <1>7, <2>2, <2>3, <2>4, <2>5 DEF OnComplete
  <1>8. ASSUME UNCHANGED vars PROVE WInv'
    BY <1>8 DEF vars, TypeOK, RunsAfterDeps, NoLostStart, StartedOncePerEdge,
                SendInv, RecordInv, CancelInv, WalkInv, AllExited, DepsSucceeded
  <1> QED
    BY <1>1, <1>2, <1>3, <1>4, <1>5, <1>6, <1>7, <1>8 DEF Next, Walk, Routine

\* The invariant holds in every reachable state.
THEOREM WalkerInvariant == Spec => []WInv
  BY WInvInit, WInvNext, PTL DEF Spec

-----------------------------------------------------------------------------
(***************************************************************************)
(* The safety properties                                                   *)
(***************************************************************************)

\* The state of the walker stays well typed.
THEOREM TypeCorrect == Spec => []TypeOK
  <1> WInv => TypeOK
    BY DEF WInv
  <1> QED  BY WalkerInvariant, PTL

\* A callback runs, and an outcome is recorded, only over dependencies that
\* are recorded as successful.
THEOREM CallbackAfterDeps == Spec => []RunsAfterDeps
  <1> WInv => RunsAfterDeps
    BY DEF WInv
  <1> QED  BY WalkerInvariant, PTL

\* No start is lost: a node whose dependencies all succeeded has its message.
THEOREM StartNotLost == Spec => []NoLostStart
  <1> WInv => NoLostStart
    BY DEF WInv
  <1> QED  BY WalkerInvariant, PTL

\* startNode sends at most one message per edge from the last dependency.
THEOREM StartedOnce == Spec => []StartedOncePerEdge
  <1> WInv => StartedOncePerEdge
    BY DEF WInv
  <1> QED  BY WalkerInvariant, PTL

\* Nothing downstream of a failure is ever completed.  The set of nodes that
\* are not completed holds the failure's dependants and is closed under
\* dependants, so it holds all the failure's descendants.
LEMMA NothingAfterFailure ==
  ASSUME WInv, NEW f \in Selected, completions[f] = "failure",
         NEW n \in Selected, n \in Descendants[f]
  PROVE  completions[n] = "none"
  <1> DEFINE Open == {m \in Nodes : m \in Selected => completions[m] = "none"}
  <1>1. ASSUME NEW m \in Nodes, NEW d \in Deps[m], m \notin Open
        PROVE  d \in Selected /\ completions[d] = "success"
    BY <1>1, GraphFacts DEF WInv, RunsAfterDeps, DepsSucceeded
  <1>2. Dependants[f] \subseteq Open
    BY <1>1, GraphFacts
  <1>3. \A s \in Open : Dependants[s] \subseteq Open
    BY <1>1, GraphFacts
  <1>4. f \in Nodes
    BY GraphFacts
  <1> HIDE DEF Open
  <1>5. Descendants[f] \subseteq Open
    BY <1>2, <1>3, <1>4, DescendantsLeast DEF Open
  <1> QED  BY <1>5 DEF Open

\* Without fail-fast and without an interrupt, the nodes Walk leaves without
\* a completion are exactly those downstream of a failure.
THEOREM KeepGoingExact == Spec => []KeepGoing
  <1>1. ASSUME WInv PROVE KeepGoing
    <2> SUFFICES ASSUME walk = "returned", ~ctxDone, NEW n \in Selected
                 PROVE  completions[n] = "none" <=>
                          \E f \in Selected :
                             completions[f] = "failure" /\ n \in Descendants[f]
      BY DEF KeepGoing
    <2>1. routine[n] = "exited"
      BY <1>1 DEF WInv, TypeOK, WalkInv, AllExited
    <2>2. ASSUME completions[n] = "none"
          PROVE  \E f \in Selected :
                    completions[f] = "failure" /\ n \in Descendants[f]
      BY <1>1, <2>1, <2>2 DEF WInv, CancelInv
    <2>3. ASSUME NEW f \in Selected, completions[f] = "failure",
                 n \in Descendants[f]
          PROVE  completions[n] = "none"
      BY <1>1, <2>3, NothingAfterFailure
    <2> QED  BY <2>2, <2>3
  <1> QED  BY <1>1, WalkerInvariant, PTL

\* A nil error, no interrupt and no recorded failure mean a complete build.
THEOREM NilMeansBuiltTheorem == Spec => []NilMeansBuilt
  <1>1. ASSUME WInv PROVE NilMeansBuilt
    <2> SUFFICES ASSUME result = "nil", ~interrupted,
                        \A n \in Selected : completions[n] # "failure",
                        NEW n \in Selected
                 PROVE  completions[n] = "success"
      BY DEF NilMeansBuilt
    <2>1. ~failFastTriggered /\ ~ctxDone /\ AllExited
      BY <1>1 DEF WInv, WalkInv
    <2>2. completions[n] # "none"
      BY <1>1, <2>1 DEF WInv, CancelInv, AllExited
    <2> QED  BY <1>1, <2>2 DEF WInv, TypeOK
  <1> QED  BY <1>1, WalkerInvariant, PTL

-----------------------------------------------------------------------------
(***************************************************************************)
(* The walker implements the abstract run                                  *)
(***************************************************************************)

\* What a routine and a completion that fit together are mapped to.
LEMMA StatusFacts ==
  ASSUME NEW r \in {"waiting", "running", "succeeded", "failed", "exited"},
         NEW c \in {"none", "success", "failure"},
         c # "none" => r = "exited"
  PROVE  /\ StatusOf(r, c) \in {"pending", "running"} \cup Run!Settled
         /\ c = "success" <=> StatusOf(r, c) = "succeeded"
         /\ c = "failure" <=> StatusOf(r, c) = "failed"
         /\ r = "waiting" => StatusOf(r, c) = "pending"
         /\ r \in {"running", "succeeded", "failed"} => StatusOf(r, c) = "running"
         /\ r = "exited" => StatusOf(r, c) \in Run!Settled
         /\ r = "exited" /\ c = "none" => StatusOf(r, c) = "skipped"
  BY DEF StatusOf, Run!Settled

\* A step in which only routine n moves changes the status of n only.
LEMMA StatusOfOthers ==
  ASSUME NEW n \in Selected,
         \A m \in Selected \ {n} :
            routine'[m] = routine[m] /\ completions'[m] = completions[m]
  PROVE  Status' = [Status EXCEPT ![n] = Status'[n]]
  BY DEF Status

\* The initial states are initial states of an abstract run.
LEMMA RefinesInit == Init => Run!DagInit
  BY DEF Init, Run!DagInit, Status, StatusOf

\* Every step of the walker is a step of the abstract run, or leaves it alone.
LEMMA RefinesNext ==
  WInv /\ WInv' /\ [Next]_vars => [Run!DagNext]_(Run!dagVars)
  <1> SUFFICES ASSUME WInv, WInv', [Next]_vars
               PROVE  [Run!DagNext]_(Run!dagVars)
    OBVIOUS
  <1> USE GraphFacts DEF WInv
  <1>f. ASSUME NEW n \in Selected
        PROVE  /\ Status[n] = StatusOf(routine[n], completions[n])
               /\ Status'[n] = StatusOf(routine'[n], completions'[n])
               /\ routine[n] \in {"waiting", "running", "succeeded", "failed", "exited"}
               /\ routine'[n] \in {"waiting", "running", "succeeded", "failed", "exited"}
               /\ completions[n] \in {"none", "success", "failure"}
               /\ completions'[n] \in {"none", "success", "failure"}
               /\ completions[n] # "none" => routine[n] = "exited"
               /\ completions'[n] # "none" => routine'[n] = "exited"
    BY DEF Status, TypeOK, RecordInv
  <1>s. ASSUME UNCHANGED <<routine, completions>> PROVE UNCHANGED Status
    BY <1>s DEF Status
  <1>1. ASSUME NEW n \in Selected, StartRoot(n) \/ CancelNode(n)
        PROVE  UNCHANGED Run!dagVars
    BY <1>1, <1>s DEF StartRoot, CancelNode, Run!dagVars, walkVars, ctxVars
  <1>2. ASSUME EnterSelect PROVE UNCHANGED Run!dagVars
    BY <1>2, <1>s DEF EnterSelect, Run!dagVars, ctxVars
  <1>3. ASSUME SelectDone PROVE Run!DagNext
    <2>1. \A n \in Selected : Status[n] \in Run!Settled
      BY <1>3, <1>f, StatusFacts DEF SelectDone, AllExited
    <2>2. Run!Report
      BY <1>3, <1>s, <2>1 DEF SelectDone, WalkInv, TypeOK, ctxVars, Run!Report
    <2> QED  BY <2>2 DEF Run!DagNext
  <1>4. ASSUME SelectCtxDone PROVE Run!DagNext
    <2>1. Run!Report
      BY <1>4, <1>s DEF SelectCtxDone, WalkInv, TypeOK, ctxVars, Run!Report
    <2> QED  BY <2>1 DEF Run!DagNext
  <1>5. ASSUME Interrupt PROVE Run!DagNext
    <2>1. Run!Abort
      BY <1>5, <1>s DEF Interrupt, Run!Abort
    <2> QED  BY <2>1 DEF Run!DagNext
  <1>6. ASSUME NEW n \in Selected, ReceiveCancel(n) PROVE Run!DagNext
    <2> USE <1>6 DEF ReceiveCancel, walkVars, ctxVars
    <2>1. /\ Status[n] = "pending" /\ Status'[n] = "skipped"
          /\ Status' = [Status EXCEPT ![n] = Status'[n]]
      BY <1>f, StatusFacts, StatusOfOthers DEF TypeOK, RecordInv
    <2>2. \/ ctxDone
          \/ \E f \in Selected : Status[f] = "failed" /\ n \in Descendants[f]
      BY <1>f, StatusFacts DEF CancelInv
    <2>3. Run!Skip(n)
      BY <2>1, <2>2 DEF Run!Skip
    <2> QED  BY <2>3 DEF Run!DagNext
  <1>7. ASSUME NEW n \in Selected, ReceiveReady(n) PROVE Run!DagNext
    <2> USE <1>7 DEF ReceiveReady, walkVars, ctxVars
    <2>1. /\ Status[n] = "pending" /\ Status'[n] = "running"
          /\ Status' = [Status EXCEPT ![n] = Status'[n]]
      BY <1>f, StatusFacts, StatusOfOthers DEF TypeOK
    <2>2. \A d \in Deps[n] : d \in Selected /\ Status[d] = "succeeded"
      BY <1>f, StatusFacts DEF SendInv, DepsSucceeded
    <2>3. Run!Start(n)
      BY <2>1, <2>2 DEF Run!Start
    <2> QED  BY <2>3 DEF Run!DagNext
  <1>8. ASSUME NEW n \in Selected, CallbackReturns(n)
        PROVE  Run!DagNext \/ UNCHANGED Run!dagVars
    <2> USE <1>8 DEF CallbackReturns, walkVars, ctxVars
    <2>1. /\ Status[n] = "running"
          /\ Status' = [Status EXCEPT ![n] = Status'[n]]
      BY <1>f, StatusFacts, StatusOfOthers DEF TypeOK
    <2>2. CASE routine'[n] = "exited"
      <3>1. ctxDone
        BY <2>2 DEF TypeOK
      <3>2. Status'[n] = "skipped"
        BY <2>2, <1>f, StatusFacts DEF RecordInv
      <3>3. Run!Skip(n)
        BY <2>1, <3>1, <3>2 DEF Run!Skip
      <3> QED  BY <3>3 DEF Run!DagNext
    <2>3. CASE routine'[n] # "exited"
      <3>1. Status'[n] = "running"
        BY <2>3, <1>f, StatusFacts DEF TypeOK
      <3>2. Status' = Status
        BY <2>1, <3>1 DEF Status
      <3> QED  BY <3>2 DEF Run!dagVars
    <2> QED  BY <2>2, <2>3
  <1>9. ASSUME NEW n \in Selected, OnComplete(n) PROVE Run!DagNext
    <2> USE <1>9 DEF Record, Outcome, walkVars, ctxVars
    <2>1. Record(n) /\ UNCHANGED result
      BY DEF OnComplete, OnCompleteAfterFailFast, OnCompleteFailFast,
             OnCompleteFailure, OnCompleteSuccess
    <2>2. /\ Status[n] = "running"
          /\ Status' = [Status EXCEPT ![n] = Status'[n]]
      BY <2>1, <1>f, StatusFacts, StatusOfOthers DEF TypeOK
    <2>3. CASE routine[n] = "succeeded"
      <3>1. ctxDone' = ctxDone
        BY <2>3 DEF OnComplete, OnCompleteAfterFailFast, OnCompleteFailFast,
                    OnCompleteFailure, OnCompleteSuccess
      <3>2. Status'[n] = "succeeded"
        BY <2>1, <2>3, <1>f, StatusFacts DEF TypeOK
      <3>3. Run!Succeed(n)
        BY <2>1, <2>2, <3>1, <3>2 DEF Run!Succeed
      <3> QED  BY <3>3 DEF Run!DagNext
    <2>4. CASE routine[n] = "failed"
      <3>1. ctxDone' \in {ctxDone, TRUE}
        BY DEF OnComplete, OnCompleteAfterFailFast, OnCompleteFailFast,
               OnCompleteFailure, OnCompleteSuccess
      <3>2. Status'[n] = "failed"
        BY <2>1, <2>4, <1>f, StatusFacts DEF TypeOK
      <3>3. Run!Fail(n)
        BY <2>1, <2>2, <3>1, <3>2 DEF Run!Fail
      <3> QED  BY <3>3 DEF Run!DagNext
    <2> QED  BY <2>1, <2>3, <2>4
  <1>10. ASSUME UNCHANGED vars PROVE UNCHANGED Run!dagVars
    BY <1>10, <1>s DEF vars, Run!dagVars
  <1> QED
    BY <1>1, <1>2, <1>3, <1>4, <1>5, <1>6, <1>7, <1>8, <1>9, <1>10
       DEF Next, Walk, Routine

\* Goroutines, channels and two mutexes add up to an abstract run of the
\* graph: each node starts once, over succeeded dependencies, its outcome is
\* final, and it is given up only after an abort or a failure upstream.
THEOREM WalkerImplementsRun == Spec => ImplementsRun
  BY RefinesInit, RefinesNext, WalkerInvariant, PTL
     DEF Spec, ImplementsRun, Run!DagSpec
=============================================================================
