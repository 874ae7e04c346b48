----------------------------- MODULE WorkerPool -----------------------------
(***************************************************************************)
(* The worker pool (internal/worker/task_worker_pool.go) and the scheduler *)
(* in front of it (internal/execution/scheduler.go).                       *)
(*                                                                         *)
(* Callers bring jobs.  A caller whose target is in a concurrency group    *)
(* first acquires a permit of the group's semaphore; then it sends its job *)
(* on the bounded channel, and the workers receive from it.  The task pool *)
(* gets its jobs through Run, which waits for the result, the I/O pool     *)
(* through RunFireAndForget.  The pool may be shut down, and its context   *)
(* cancelled, at any point.                                                *)
(***************************************************************************)
EXTENDS Integers, FiniteSets, Sequences, SequencesExt

CONSTANTS
  Jobs,
  Forget,      \* the jobs brought through RunFireAndForget
  Groups,
  GroupOf,     \* GroupOf[j]: the concurrency group of j's target, or NoGroup
  Capacity,    \* Capacity[g]: permits of a group, 1 unless configured
  NoGroup,
  Workers,     \* the channel holds as many jobs as there are workers
  Idle, Gone,  \* what a worker without a job does
  Cancellable  \* whether the workers' context can be cancelled

ASSUME PoolAssumption ==
  /\ Forget \subseteq Jobs
  /\ GroupOf \in [Jobs -> Groups \cup {NoGroup}]
  \* the cache writer does not go through the scheduler
  /\ \A j \in Forget : GroupOf[j] = NoGroup
  /\ NoGroup \notin Groups
  /\ Capacity \in [Groups -> Nat \ {0}]
  /\ IsFiniteSet(Jobs) /\ IsFiniteSet(Workers) /\ Workers # {}
  /\ Idle \notin Jobs /\ Gone \notin Jobs /\ Idle # Gone
  /\ Cancellable \in BOOLEAN

VARIABLES
  caller,     \* where the caller of each job is
  line,       \* line[g]: the callers waiting for a permit, first come first
  permits,    \* permits[g]: permits that are taken
  channel,    \* jobCh
  chanClosed,
  closed,     \* the flag that is set before the channel is closed
  cancelled,  \* ctx.Done of the workers
  worker,     \* the job each worker is at
  job,        \* what became of each job
  active,     \* activeJobs
  drain,      \* WaitForCompletion: "no", "waiting" or "over"
  promised    \* (history) the jobs accepted before WaitForCompletion

groupVars == <<line, permits>>
chanVars == <<channel, chanClosed>>
stopVars == <<closed, cancelled>>
drainVars == <<drain, promised>>
vars == <<caller, groupVars, chanVars, stopVars, worker, job, active, drainVars>>

\* Each variable has its type.
TypeOK ==
  /\ caller \in [Jobs -> {"start", "lined up", "granted", "sending", "waiting",
                          "answered", "returned", "refused"}]
  /\ line \in [Groups -> Seq(Jobs)]
  /\ permits \in [Groups -> Nat]
  /\ channel \in Seq(Jobs) /\ Len(channel) <= Cardinality(Workers)
  /\ chanClosed \in BOOLEAN /\ closed \in BOOLEAN /\ cancelled \in BOOLEAN
  /\ worker \in [Workers -> Jobs \cup {Idle, Gone}]
  /\ job \in [Jobs -> {"new", "queued", "running", "run", "over"}]
  /\ active \in Int
  /\ drain \in {"no", "waiting", "over"} /\ promised \subseteq Jobs

Init ==
  /\ caller = [j \in Jobs |-> "start"]
  /\ line = [g \in Groups |-> << >>] /\ permits = [g \in Groups |-> 0]
  /\ channel = << >> /\ chanClosed = FALSE
  /\ closed = FALSE /\ cancelled = FALSE
  /\ worker = [w \in Workers |-> Idle]
  /\ job = [j \in Jobs |-> "new"]
  /\ active = 0
  /\ drain = "no" /\ promised = {}

-----------------------------------------------------------------------------
\* The semaphore of a group

Grouped(j) == GroupOf[j] # NoGroup

\* Release gives the permit to the first in line.
ReleaseAs(j, outcome) ==
  LET g == GroupOf[j]
  IN  IF ~Grouped(j)
      THEN UNCHANGED groupVars /\ caller' = [caller EXCEPT ![j] = outcome]
      ELSE IF line[g] = << >>
      THEN /\ permits' = [permits EXCEPT ![g] = @ - 1]
           /\ caller' = [caller EXCEPT ![j] = outcome]
           /\ UNCHANGED line
      ELSE /\ line' = [line EXCEPT ![g] = Tail(@)]
           /\ caller' = [caller EXCEPT ![j] = outcome, ![Head(line[g])] = "granted"]
           /\ UNCHANGED permits

\* Mutant: the permit is not given back with an error.
ReleaseAnswered(j, outcome) ==
  IF outcome = "returned" THEN ReleaseAs(j, outcome)
  ELSE UNCHANGED groupVars /\ caller' = [caller EXCEPT ![j] = outcome]

\* The deferred Release
Leaving(j, outcome) == ReleaseAs(j, outcome)

\* Acquire succeeds at once if a permit is free and nobody is in line.
Free(g) == permits[g] < Capacity[g] /\ line[g] = << >>

Acquire(j) ==
  /\ caller[j] = "start" /\ Grouped(j)
  /\ IF Free(GroupOf[j])
     THEN /\ permits' = [permits EXCEPT ![GroupOf[j]] = @ + 1]
          /\ caller' = [caller EXCEPT ![j] = "granted"]
          /\ UNCHANGED line
     ELSE /\ line' = [line EXCEPT ![GroupOf[j]] = Append(@, j)]
          /\ caller' = [caller EXCEPT ![j] = "lined up"]
          /\ UNCHANGED permits
  /\ UNCHANGED <<chanVars, stopVars, worker, job, active, drainVars>>

\* The build is interrupted while the caller is in line, or just after it was
\* granted the permit, which goes back then.
AcquireCancelled(j) ==
  /\ cancelled
  /\ \/ /\ caller[j] = "lined up"
        /\ \E i \in DOMAIN line[GroupOf[j]] :
             /\ line[GroupOf[j]][i] = j
             /\ line' = [line EXCEPT ![GroupOf[j]] = RemoveAt(@, i)]
        /\ caller' = [caller EXCEPT ![j] = "refused"]
        /\ UNCHANGED permits
     \/ caller[j] = "granted" /\ Leaving(j, "refused")
  /\ UNCHANGED <<chanVars, stopVars, worker, job, active, drainVars>>

-----------------------------------------------------------------------------
\* Run, RunFireAndForget and enqueue

MayCall(j) == caller[j] = IF Grouped(j) THEN "granted" ELSE "start"

CallClosed(j) ==
  /\ MayCall(j) /\ closed
  /\ Leaving(j, "refused")
  /\ UNCHANGED <<chanVars, stopVars, worker, job, active, drainVars>>

\* Mutant: the job is not counted when it is sent.
CallUncounted(j) ==
  /\ MayCall(j) /\ ~closed
  /\ caller' = [caller EXCEPT ![j] = "sending"]
  /\ UNCHANGED <<groupVars, chanVars, stopVars, worker, job, active, drainVars>>

Call(j) ==
  /\ MayCall(j) /\ ~closed
  /\ active' = active + 1
  /\ caller' = [caller EXCEPT ![j] = "sending"]
  /\ UNCHANGED <<groupVars, chanVars, stopVars, worker, job, drainVars>>

Room == Len(channel) < Cardinality(Workers)

Send(j) ==
  /\ caller[j] = "sending"
  /\ ~chanClosed /\ Room
  /\ channel' = Append(channel, j)
  /\ job' = [job EXCEPT ![j] = "queued"]
  /\ caller' = [caller EXCEPT ![j] = IF j \in Forget THEN "returned" ELSE "waiting"]
  /\ UNCHANGED <<groupVars, chanClosed, stopVars, worker, active, drainVars>>

\* Mutant: the error path forgets activeJobs.Done.
GiveUpSilently(j) == active' = active

\* activeJobs.Done of a send that did not come about
GiveUp(j) == active' = active - 1

\* The channel is closed under the sender, whose panic is recovered, or the
\* backstop of a second finds the pool closed.
SendFails(j) ==
  /\ caller[j] = "sending" /\ closed
  /\ GiveUp(j)
  /\ Leaving(j, "refused")
  /\ UNCHANGED <<chanVars, stopVars, worker, job, drainVars>>

Return(j) ==
  /\ caller[j] = "answered"
  /\ Leaving(j, "returned")
  /\ UNCHANGED <<chanVars, stopVars, worker, job, active, drainVars>>

-----------------------------------------------------------------------------
\* The workers: when the context is cancelled while jobs are queued, select
\* takes either branch.

Receive(w) ==
  /\ worker[w] = Idle /\ channel # << >>
  /\ worker' = [worker EXCEPT ![w] = Head(channel)]
  /\ job' = [job EXCEPT ![Head(channel)] = "running"]
  /\ channel' = Tail(channel)
  /\ UNCHANGED <<caller, groupVars, chanClosed, stopVars, active, drainVars>>

\* The task is over: Run's caller has its result.
Deliver(w) ==
  LET j == worker[w]
  IN /\ j \in Jobs /\ job[j] = "running"
     /\ job' = [job EXCEPT ![j] = "run"]
     /\ caller' = IF j \in Forget THEN caller
                  ELSE [caller EXCEPT ![j] = "answered"]
     /\ UNCHANGED <<groupVars, chanVars, stopVars, worker, active, drainVars>>

\* activeJobs.Done comes last.
CompleteTask(w) ==
  LET j == worker[w]
  IN /\ j \in Jobs /\ job[j] = "run"
     /\ worker' = [worker EXCEPT ![w] = Idle]
     /\ job' = [job EXCEPT ![j] = "over"]
     /\ active' = active - 1
     /\ UNCHANGED <<caller, groupVars, chanVars, stopVars, drainVars>>

\* Mutant: a worker leaves once the channel is closed.
MayLeaveEarly(w) == cancelled \/ chanClosed

\* A closed channel is emptied first; a cancelled context is not waited for.
MayLeave(w) == cancelled \/ (chanClosed /\ channel = << >>)

Leave(w) ==
  /\ worker[w] = Idle
  /\ MayLeave(w)
  /\ worker' = [worker EXCEPT ![w] = Gone]
  /\ UNCHANGED <<caller, groupVars, chanVars, stopVars, job, active, drainVars>>

-----------------------------------------------------------------------------
\* The end of the pool

Cancel ==
  /\ Cancellable /\ ~cancelled
  /\ cancelled' = TRUE
  /\ UNCHANGED <<caller, groupVars, chanVars, closed, worker, job, active,
                 drainVars>>

\* Shutdown, called by the owner or by the watcher of the context
Shutdown ==
  /\ ~closed
  /\ closed' = TRUE
  /\ UNCHANGED <<caller, groupVars, chanVars, cancelled, worker, job, active,
                 drainVars>>

CloseChannel ==
  /\ closed /\ ~chanClosed
  /\ chanClosed' = TRUE
  /\ UNCHANGED <<caller, groupVars, channel, stopVars, worker, job, active,
                 drainVars>>

WaitForCompletion ==
  \/ /\ drain = "no"
     /\ drain' = "waiting"
     /\ promised' = {j \in Jobs : job[j] # "new"}
     /\ UNCHANGED <<caller, groupVars, chanVars, stopVars, worker, job, active>>
  \/ /\ drain = "waiting" /\ active = 0
     /\ drain' = "over"
     /\ UNCHANGED <<caller, groupVars, chanVars, stopVars, worker, job, active,
                    promised>>

-----------------------------------------------------------------------------
Caller(j) ==
  \/ Acquire(j) \/ AcquireCancelled(j) \/ Call(j) \/ CallClosed(j)
  \/ Send(j) \/ SendFails(j) \/ Return(j)

Work(w) == Receive(w) \/ Deliver(w) \/ CompleteTask(w) \/ Leave(w)

Next ==
  \/ \E j \in Jobs : Caller(j)
  \/ \E w \in Workers : Work(w)
  \/ Cancel \/ Shutdown \/ CloseChannel \/ WaitForCompletion

Spec == Init /\ [][Next]_vars

\* Goroutines run, tasks end, and the watcher shuts a cancelled pool down.
FairSpec ==
  /\ Spec
  /\ \A j \in Jobs : WF_vars(Caller(j))
  /\ \A w \in Workers : WF_vars(Work(w))
  /\ WF_vars(cancelled /\ Shutdown) /\ WF_vars(CloseChannel)
  /\ WF_vars(drain = "waiting" /\ WaitForCompletion)

-----------------------------------------------------------------------------
At(stage) == {j \in Jobs : caller[j] = stage}

\* No more targets of a group run than it has permits, whatever happens to the
\* callers that hold or wait for them, and every permit is with a caller that
\* still runs: none is lost on an error path (the deferred Release of Schedule),
\* and none is idle while somebody is in line.
GroupLimit ==
  \A g \in Groups :
    LET members == {j \in Jobs : GroupOf[j] = g}
    IN /\ Cardinality({j \in members : job[j] = "running"}) <= Capacity[g]
       /\ permits[g] = Cardinality({j \in members : caller[j] \in
            {"granted", "sending", "waiting", "answered"}})
       /\ line[g] # << >> => permits[g] = Capacity[g]

\* The counter is the number of jobs on their way, so that Done never makes it
\* negative and Wait returns when it should (enqueue's three ways out).
CounterExact ==
  active = Cardinality(At("sending"))
           + Cardinality({j \in Jobs : job[j] \in {"queued", "running", "run"}})

\* After WaitForCompletion every job accepted before it has run, and no call that
\* returned an error leaves its job to run all the same (enqueue's backstop).
DrainedMeansRun ==
  /\ drain = "over" => \A j \in promised : job[j] = "over"
  /\ \A j \in At("refused") : job[j] = "new"

\* Unless the context is cancelled every call returns and every accepted job
\* runs to its end, also one that is queued when the pool is shut down: closing
\* the channel drops nothing, and nobody waits for a permit for ever.
EverythingSettles ==
  <>[](\/ cancelled
       \/ \A j \in Jobs : /\ caller[j] \in {"start", "returned", "refused"}
                           /\ job[j] \in {"new", "over"})
=============================================================================
