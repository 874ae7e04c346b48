----------------------------- MODULE Resources ------------------------------
(***************************************************************************)
(* Build resources (internal/execution/resource_manager.go).               *)
(*                                                                         *)
(* Tasks that are about to run a command start the resources their target  *)
(* depends on, unless that was done already: startResults remembers the    *)
(* outcome, startGroup (a singleflight.Group) joins starts that overlap.   *)
(* A start first starts the resources the resource depends on, so a task   *)
(* is a stack of frames: its target at the bottom, a resource it is        *)
(* starting in each frame above.  When the walk has returned, TeardownAll  *)
(* stops what was started; after an interrupt the walk returns while tasks *)
(* are still at it.                                                        *)
(***************************************************************************)
EXTENDS Integers, FiniteSets, Sequences, SequencesExt

CONSTANTS
  Tasks,
  Resources,
  Needs,      \* Needs[t]: the resources of t's target, in order
  DependsOn,  \* DependsOn[r]: the resources r depends on, in order
  Late,       \* the tasks that may run after the teardown: see StartTask
  None,
  MayInterrupt

ASSUME ResourceAssumption ==
  /\ Needs \in [Tasks -> Seq(Resources)]
  /\ DependsOn \in [Resources -> Seq(Resources)]
  /\ Late \subseteq Tasks
  /\ None \notin Resources \cup Tasks
  /\ MayInterrupt \in BOOLEAN

VARIABLES
  pc,           \* where each task is
  frames,       \* its stack: what is being started, resources still to ensure
  flight,       \* startGroup: the task that starts each resource
  result,       \* startResults: "none", "ok" or "failed"
  life,         \* what became of each resource
  ups,          \* (history) how often each up command was run
  started,      \* resources in start order
  activeStarts,
  tearingDown,
  stopping,     \* what TeardownAll still has to stop
  main,         \* "walk", "wait", "stop", "closed"
  interrupted

startVars == <<flight, result, life, ups, started, activeStarts>>
mainVars == <<tearingDown, stopping, main, interrupted>>
vars == <<pc, frames, startVars, mainVars>>

Over == {"done", "failed"}
\* TeardownAll is through with the resource: its down command has succeeded, or
\* there is none, or it has failed, and the resource may run on.
TornDown == {"down", "left"}

\* Each variable has its type, and a task that is over has no stack.
TypeOK ==
  /\ pc \in [Tasks -> {"idle", "ensure", "asking", "joined", "up", "failing",
                       "command"} \cup Over]
  /\ \A t \in Tasks : pc[t] \in Over \cup {"idle"} <=> frames[t] = << >>
  /\ flight \in [Resources -> Tasks \cup {None}]
  /\ result \in [Resources -> {"none", "ok", "failed"}]
  /\ life \in [Resources -> {"never", "starting", "up", "broken"} \cup TornDown]
  /\ ups \in [Resources -> Nat]
  /\ started \in Seq(Resources) /\ stopping \in Seq(Resources)
  /\ activeStarts \in Nat
  /\ main \in {"walk", "wait", "stop", "closed"}
  /\ tearingDown \in BOOLEAN /\ interrupted \in BOOLEAN

Init ==
  /\ pc = [t \in Tasks |-> "idle"]
  /\ frames = [t \in Tasks |-> << >>]
  /\ flight = [r \in Resources |-> None]
  /\ result = [r \in Resources |-> "none"]
  /\ life = [r \in Resources |-> "never"]
  /\ ups = [r \in Resources |-> 0]
  /\ started = << >> /\ activeStarts = 0
  /\ tearingDown = FALSE /\ stopping = << >>
  /\ main = "walk" /\ interrupted = FALSE

Top(t) == Last(frames[t])
\* The next resource to ensure
Wanted(t) == Head(Top(t).todo)

\* The top frame of the stack is done with its first resource.
Advance(stack) == [stack EXCEPT ![Len(stack)].todo = Tail(@)]

-----------------------------------------------------------------------------
\* EnsureResourcesStarted and ensureStarted

\* executeTarget comes to a target with a command, during the walk or, for the
\* tasks in Late, when grog run asks for a rerun (LoadDependencyOutputs) once
\* Execute has returned.
StartTask(t) ==
  /\ pc[t] = "idle"
  /\ main = "walk" \/ interrupted \/ (t \in Late /\ main = "closed")
  /\ frames' = [frames EXCEPT ![t] = <<[starts |-> None, todo |-> Needs[t]]>>]
  /\ pc' = [pc EXCEPT ![t] = "ensure"]
  /\ UNCHANGED <<startVars, mainVars>>

\* Mutant: a start that failed is taken for done.
ServedAnyway(t, r) ==
  /\ result[r] # "none"
  /\ frames' = [frames EXCEPT ![t] = Advance(@)]
  /\ pc' = [pc EXCEPT ![t] = "ensure"]

\* The outcome of an earlier start is served from startResults.
ServedBy(t, r) ==
  /\ result[r] # "none"
  /\ IF result[r] = "ok"
     THEN /\ frames' = [frames EXCEPT ![t] = Advance(@)]
          /\ pc' = [pc EXCEPT ![t] = "ensure"]
     ELSE pc' = [pc EXCEPT ![t] = "failing"] /\ UNCHANGED frames

Lookup(t) ==
  /\ pc[t] = "ensure" /\ Top(t).todo # << >>
  /\ \/ ServedBy(t, Wanted(t))
     \/ /\ result[Wanted(t)] = "none"
        /\ pc' = [pc EXCEPT ![t] = "asking"]
        /\ UNCHANGED frames
  /\ UNCHANGED <<startVars, mainVars>>

\* singleflight: the start is under way in another task.
Join(t) ==
  /\ pc[t] = "asking"
  /\ flight[Wanted(t)] # None
  /\ pc' = [pc EXCEPT ![t] = "joined"]
  /\ UNCHANGED <<frames, startVars, mainVars>>

\* Mutant: startResults is not read again inside the group.
NeverFinished(r) == FALSE

\* The start finished between the lookup and the call.
Finished(r) == result[r] # "none"

\* beginStart
CanBegin == ~tearingDown

FindFinished(t) ==
  LET r == Wanted(t)
  IN /\ pc[t] = "asking" /\ flight[r] = None
     /\ Finished(r)
     /\ ServedBy(t, r)
     /\ UNCHANGED <<startVars, mainVars>>

BeginRefused(t) ==
  LET r == Wanted(t)
  IN /\ pc[t] = "asking" /\ flight[r] = None
     /\ ~Finished(r) /\ ~CanBegin
     /\ result' = [result EXCEPT ![r] = "failed"]
     /\ pc' = [pc EXCEPT ![t] = "failing"]
     /\ UNCHANGED <<frames, flight, life, ups, started, activeStarts, mainVars>>

Begin(t) ==
  LET r == Wanted(t)
  IN /\ pc[t] = "asking" /\ flight[r] = None
     /\ ~Finished(r) /\ CanBegin
     /\ flight' = [flight EXCEPT ![r] = t]
     /\ activeStarts' = activeStarts + 1
     /\ frames' = [frames EXCEPT ![t] =
                     Append(@, [starts |-> r, todo |-> DependsOn[r]])]
     /\ pc' = [pc EXCEPT ![t] = "ensure"]
     /\ UNCHANGED <<result, life, ups, started, mainVars>>

-----------------------------------------------------------------------------
\* startWithDependencies and start

\* The resource is registered before its up command runs.
Up(t) ==
  LET r == Top(t).starts
  IN /\ pc[t] = "ensure" /\ Top(t).todo = << >> /\ r # None
     /\ started' = Append(started, r)
     /\ life' = [life EXCEPT ![r] = "starting"]
     /\ ups' = [ups EXCEPT ![r] = @ + 1]
     /\ pc' = [pc EXCEPT ![t] = "up"]
     /\ UNCHANGED <<frames, flight, result, activeStarts, mainVars>>

\* Mutant: those who joined the start are not told.
EndStartAlone(t, outcome, stage) ==
  /\ result' = [result EXCEPT ![Top(t).starts] = outcome]
  /\ activeStarts' = activeStarts - 1
  /\ flight' = [flight EXCEPT ![Top(t).starts] = None]
  /\ frames' = [frames EXCEPT ![t] = Advance(Front(@))]
  /\ pc' = [pc EXCEPT ![t] = stage]

\* finishStart, and the end of the call of startGroup for all who joined
EndStart(t, outcome, stage) ==
  LET r == Top(t).starts
      waits(u) == pc[u] = "joined" /\ Wanted(u) = r
  IN /\ result' = [result EXCEPT ![r] = outcome]
     /\ activeStarts' = activeStarts - 1
     /\ flight' = [flight EXCEPT ![r] = None]
     /\ frames' = [u \in Tasks |->
                     CASE u = t    -> Advance(Front(frames[t]))
                       [] waits(u) -> Advance(frames[u])
                       [] OTHER    -> frames[u]]
     /\ pc' = [u \in Tasks |-> IF u = t \/ waits(u) THEN stage ELSE pc[u]]

\* up succeeded and the ready probe, if there is one, did too.
Started(t) ==
  /\ pc[t] = "up"
  /\ life' = [life EXCEPT ![Top(t).starts] = "up"]
  /\ EndStart(t, "ok", "ensure")
  /\ UNCHANGED <<ups, started, mainVars>>

\* up fails, or ready does not succeed in time, or the build is interrupted:
\* something may be left running.
StartFails(t) ==
  /\ pc[t] = "up"
  /\ life' = [life EXCEPT ![Top(t).starts] = "broken"]
  /\ pc' = [pc EXCEPT ![t] = "failing"]
  /\ UNCHANGED <<frames, flight, result, ups, started, activeStarts, mainVars>>

\* The error goes through the frames, and to everyone who joined one of them.
Fail(t) ==
  /\ pc[t] = "failing"
  /\ IF Len(frames[t]) > 1
     THEN EndStart(t, "failed", "failing")
     ELSE /\ frames' = [frames EXCEPT ![t] = << >>]
          /\ pc' = [pc EXCEPT ![t] = "failed"]
          /\ UNCHANGED <<result, activeStarts, flight>>
  /\ UNCHANGED <<life, ups, started, mainVars>>

\* All resources of the target are there: the command runs, and ends.
StartCommand(t) ==
  /\ pc[t] = "ensure" /\ Top(t).todo = << >> /\ Top(t).starts = None
  /\ pc' = [pc EXCEPT ![t] = "command"]
  /\ UNCHANGED <<frames, startVars, mainVars>>

EndCommand(t) ==
  /\ pc[t] = "command"
  /\ frames' = [frames EXCEPT ![t] = << >>]
  /\ \E outcome \in Over : pc' = [pc EXCEPT ![t] = outcome]
  /\ UNCHANGED <<startVars, mainVars>>

-----------------------------------------------------------------------------
\* Execute after the walk: TeardownAll

\* The walk's context is cancelled, by the user or by fail-fast: Walk returns
\* while callbacks still run (graph_walker.go:153).
Interrupt ==
  /\ MayInterrupt /\ main = "walk" /\ ~interrupted
  /\ interrupted' = TRUE
  /\ UNCHANGED <<pc, frames, startVars, tearingDown, stopping, main>>

\* Walk has returned: all tasks are over, or the build was interrupted.  A
\* target that is cached, or downstream of a failure, has no task.
BeginTeardown ==
  /\ main = "walk"
  /\ interrupted \/ \A t \in Tasks : pc[t] \in Over \cup {"idle"}
  /\ tearingDown' = TRUE
  /\ main' = "wait"
  /\ UNCHANGED <<pc, frames, startVars, stopping, interrupted>>

\* Mutant: the teardown does not wait for starts under way.
StartsIgnored == TRUE

StartsOver == activeStarts = 0

\* Mutant: resources are stopped in start order.
StopInStartOrder == started

StopOrder == Reverse(started)

TakeStarted ==
  /\ main = "wait" /\ StartsOver
  /\ stopping' = StopOrder
  /\ started' = << >>
  /\ main' = "stop"
  /\ UNCHANGED <<pc, frames, flight, result, life, ups, activeStarts,
                 tearingDown, interrupted>>

\* The next resource: a failure of its down command is only a warning, and one
\* without a down command is passed over.
Down ==
  /\ main = "stop" /\ stopping # << >>
  /\ \E outcome \in TornDown : life' = [life EXCEPT ![Head(stopping)] = outcome]
  /\ stopping' = Tail(stopping)
  /\ UNCHANGED <<pc, frames, flight, result, ups, started, activeStarts,
                 tearingDown, main, interrupted>>

Close ==
  /\ main = "stop" /\ stopping = << >>
  /\ main' = "closed"
  /\ UNCHANGED <<pc, frames, startVars, tearingDown, stopping, interrupted>>

-----------------------------------------------------------------------------
Task(t) ==
  \/ Lookup(t) \/ Join(t) \/ FindFinished(t) \/ BeginRefused(t) \/ Begin(t)
  \/ Up(t) \/ Started(t) \/ StartFails(t) \/ Fail(t)
  \/ StartCommand(t) \/ EndCommand(t)

Teardown == BeginTeardown \/ TakeStarted \/ Down \/ Close

Next ==
  \/ \E t \in Tasks : StartTask(t) \/ Task(t)
  \/ Interrupt \/ Teardown

Spec == Init /\ [][Next]_vars

\* Goroutines run and commands end: the hooks within their timeout.
FairSpec ==
  /\ Spec
  /\ \A t \in Tasks : WF_vars(Task(t))
  /\ WF_vars(Teardown)

-----------------------------------------------------------------------------
Elements(s) == {s[i] : i \in DOMAIN s}

\* A resource is brought up at most once in an invocation, however many targets
\* depend on it, after the resources it depends on, and its turn to be stopped
\* comes before theirs, whichever tasks start them and whatever fails
\* (startWithDependencies, TeardownAll).
StartedInOrder ==
  \A r \in Resources :
    /\ ups[r] <= 1
    /\ life[r] \in {"starting", "up"} =>
         \A q \in Elements(DependsOn[r]) : life[q] = "up"

\* A command runs with every resource of its target up, until the teardown: an
\* interrupted build tears them down under it, and a rerun that grog run asks
\* for after the teardown is served the remembered start.
UpWhileUsed ==
  \A t \in Tasks : pc[t] = "command" /\ main = "walk" =>
    \A r \in Elements(Needs[t]) : life[r] = "up"

\* The teardown forgets no resource: each one whose up command was begun has had
\* its turn, also one whose start was under way when the build was interrupted or
\* failed halfway.  Whether its down command stops it is not up to TeardownAll.
NoneForgotten ==
  main = "closed" => \A r \in Resources : life[r] \in {"never"} \cup TornDown

\* Starts that join each other never block the build: a task that asked for
\* resources gets them or fails, and the teardown comes to its end.
TasksAndTeardownEnd ==
  /\ \A t \in Tasks : pc[t] = "ensure" ~> pc[t] \in Over
  /\ main = "wait" ~> main = "closed"
=============================================================================
