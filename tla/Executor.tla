------------------------------ MODULE Executor ------------------------------
(***************************************************************************)
(* Builds over a cache that outlives them (internal/execution/execute.go,  *)
(* internal/execution/cache_writer.go, internal/output/registry.go).       *)
(*                                                                         *)
(* Between builds the user edits sources, taints targets and wipes the     *)
(* workspace, and the cache may lose entries.  In a build the tasks of the *)
(* targets whose dependencies are done run concurrently: each looks the    *)
(* target up, loads its outputs or runs its command, and hands what it     *)
(* made to the cache writer.  With load_outputs=minimal a hit loads        *)
(* nothing; a target that has to run loads the outputs of its              *)
(* dependencies first, and runs again the ones that do not load.           *)
(*                                                                         *)
(* A task is a stack of frames: its own target at the bottom and, above,   *)
(* the dependencies it is running again (LoadDependencyOutputs recurses).  *)
(***************************************************************************)
EXTENDS Fingerprints, Sequences, SequencesExt

CONSTANTS
  Sources,       \* versions an input file can have
  Modes,         \* load_outputs: a subset of {"all", "minimal"}
  CacheOptions,  \* enable_cache: a subset of BOOLEAN
  AsyncOptions,  \* async_cache_writes: a subset of BOOLEAN
  TaintAnytime,  \* may grog taint run while a build does
  Bound,         \* how many of each kind of step at most
  Junk,          \* an output that is being written, or was left half-written
  None           \* no target

ASSUME OptionsAssumption ==
  /\ {} \notin {Sources, Modes, CacheOptions, AsyncOptions}
  /\ Modes \subseteq {"all", "minimal"}
  /\ CacheOptions \subseteq BOOLEAN
  /\ AsyncOptions \subseteq BOOLEAN
  /\ TaintAnytime \in BOOLEAN
  /\ None \notin Targets
  /\ Bound \in [{"builds", "edits", "drops", "taints", "failures",
                "loads"} -> Nat]

VARIABLES
  \* what outlives a build
  source,      \* the version of each target's input
  workspace,   \* the content of each target's output file
  results,     \* the target cache: change hash -> result
  cas,         \* the blobs in the content-addressable store
  tainted,     \* the taint store
  \* history of the user's dealings with the tool
  owed,        \* tainted and not run successfully since
  warm,        \* "warm": a build cached everything and nothing happened since;
               \* "open": such a build may be going on; "lost": a blob is lost
  budget,      \* what is left of Bound
  \* one build
  phase,       \* "idle" or "building"
  mode, cacheOn, async,   \* the options of the build
  misread,     \* (history) the targets whose taint could not be read in it
  pc,          \* where each target's task is
  changeHash, outputHash, loaded,   \* ChangeHash, OutputHash, OutputsLoaded
  wasTainted,  \* isTainted, as the task read it
  frames,      \* the stack of each task
  dep,         \* the dependency the task is asking rerunGroup for
  flight,      \* rerunGroup: the task that runs each dependency again
  ran,         \* (history) successful runs of each target in this build
  writes,      \* cache writes handed to the I/O pool
  clears       \* goroutines about to clear a taint

userVars == <<source, tainted, owed>>
cacheVars == <<results, cas>>
buildVars == <<phase, mode, cacheOn, async, misread>>
targetVars == <<changeHash, outputHash, loaded>>
taskVars == <<wasTainted, frames, dep, flight, ran>>
ioVars == <<writes, clears>>
vars == <<userVars, workspace, cacheVars, warm, budget, buildVars, pc,
          targetVars, taskVars, ioVars>>

Terminal == {"succeeded", "failed", "skipped"}
Stages == {"pending", "queued", "loading", "deps", "asking", "joined",
           "running", "unwinding"} \cup Terminal

\* Each variable has its type, and a stack is there while its task needs one.
TypeOK ==
  /\ source \in [Targets -> Sources]
  /\ tainted \subseteq Targets /\ owed \subseteq Targets
  /\ warm \in {"cold", "open", "warm", "lost"}
  /\ phase \in {"idle", "building"}
  /\ mode \in Modes /\ cacheOn \in CacheOptions /\ async \in AsyncOptions
  /\ misread \subseteq Targets
  /\ pc \in [Targets -> Stages]
  /\ loaded \in [Targets -> BOOLEAN]
  /\ wasTainted \in [Targets -> BOOLEAN]
  /\ \A t \in Targets :
       (frames[t] # << >>) <=>
         (pc[t] \in {"deps", "asking", "joined", "running", "unwinding"})
  /\ dep \in [Targets -> Targets \cup {None}]
  /\ flight \in [Targets -> Targets \cup {None}]
  /\ ran \in [Targets -> Nat]
  /\ clears \subseteq Targets

\* No target has a task yet.
NoTasks(stage) ==
  /\ pc' = [t \in Targets |-> stage]
  /\ frames' = [t \in Targets |-> << >>]
  /\ dep' = [t \in Targets |-> None]
  /\ flight' = [t \in Targets |-> None]

Init ==
  /\ source = [t \in Targets |-> CHOOSE v \in Sources : TRUE]
  /\ workspace = [t \in Targets |-> Unset]
  /\ results = << >> /\ cas = {}
  /\ tainted = {} /\ owed = {} /\ warm = "cold"
  /\ budget = Bound
  /\ phase = "idle"
  /\ mode = CHOOSE m \in Modes : TRUE
  /\ cacheOn = CHOOSE c \in CacheOptions : TRUE
  /\ async = CHOOSE a \in AsyncOptions : TRUE
  /\ misread = {}
  /\ pc = [t \in Targets |-> "skipped"]
  /\ changeHash = [t \in Targets |-> Unset]
  /\ outputHash = [t \in Targets |-> Unset]
  /\ loaded = [t \in Targets |-> FALSE]
  /\ wasTainted = [t \in Targets |-> FALSE]
  /\ frames = [t \in Targets |-> << >>]
  /\ dep = [t \in Targets |-> None]
  /\ flight = [t \in Targets |-> None]
  /\ ran = [t \in Targets |-> 0]
  /\ writes = {} /\ clears = {}

Spend(what) ==
  /\ budget[what] > 0
  /\ budget' = [budget EXCEPT ![what] = @ - 1]

\* Something happens that justifies running targets again.
Cool == warm' = IF warm = "lost" THEN warm ELSE "cold"

-----------------------------------------------------------------------------
\* Between builds

Edit(t) ==
  /\ phase = "idle"
  /\ Spend("edits")
  /\ \E v \in Sources \ {source[t]} : source' = [source EXCEPT ![t] = v]
  /\ Cool
  /\ UNCHANGED <<tainted, owed, workspace, cacheVars, buildVars, pc,
                 targetVars, taskVars, ioVars>>

\* A fresh checkout on another machine, over the same cache
Checkout ==
  /\ phase = "idle"
  /\ Spend("drops")
  /\ workspace' = [t \in Targets |-> Unset]
  /\ UNCHANGED <<source, tainted, owed, warm, cacheVars, buildVars, pc,
                 targetVars, taskVars, ioVars>>

\* The cache is cleaned up or loses an object.
Evict ==
  /\ phase = "idle"
  /\ Spend("drops")
  /\ \/ \E c \in cas : cas' = cas \ {c} /\ UNCHANGED results /\ warm' = "lost"
     \/ \E k \in DOMAIN results :
          /\ results' = [x \in DOMAIN results \ {k} |-> results[x]]
          /\ UNCHANGED cas
          /\ Cool
  /\ UNCHANGED <<userVars, workspace, buildVars, pc, targetVars, taskVars,
                 ioVars>>

Taint(t) ==
  /\ TaintAnytime \/ phase = "idle"
  /\ Spend("taints")
  /\ tainted' = tainted \cup {t}
  /\ owed' = owed \cup {t}
  /\ Cool
  /\ UNCHANGED <<source, workspace, cacheVars, buildVars, pc,
                 targetVars, taskVars, ioVars>>

StartBuild ==
  /\ phase = "idle"
  /\ Spend("builds")
  /\ phase' = "building"
  /\ mode' \in Modes
  /\ cacheOn' \in CacheOptions
  /\ async' \in AsyncOptions
  /\ NoTasks("pending")
  /\ changeHash' = [t \in Targets |-> Unset]
  /\ outputHash' = [t \in Targets |-> Unset]
  /\ loaded' = [t \in Targets |-> FALSE]
  /\ wasTainted' = [t \in Targets |-> FALSE]
  /\ ran' = [t \in Targets |-> 0]
  /\ warm' = IF warm = "cold" THEN "open" ELSE warm
  /\ UNCHANGED <<userVars, workspace, cacheVars, misread, ioVars>>

\* Execute returns once the walk is over and the I/O pool is drained.  The
\* process ends: a taint that was about to be cleared may stay.
EndBuild ==
  /\ phase = "building"
  /\ \A t \in Targets : pc[t] \in Terminal
  /\ writes = {}
  /\ phase' = "idle"
  /\ misread' = {} /\ clears' = {}
  /\ warm' = IF warm # "open" THEN warm
             ELSE IF cacheOn /\ \A t \in Targets : pc[t] = "succeeded" THEN "warm"
             ELSE "cold"
  /\ UNCHANGED <<userVars, workspace, cacheVars, budget, mode, cacheOn, async,
                 pc,
                 targetVars, taskVars, writes>>

-----------------------------------------------------------------------------
\* The task of target t: the cache

Top(t) == Last(frames[t])
Cur(t) == Top(t).target

\* The walk leaves out what depends on a failure (module Walker).
Skip(t) ==
  /\ phase = "building" /\ pc[t] = "pending"
  /\ \E d \in WalkDeps(t) : pc[d] \in {"failed", "skipped"}
  /\ pc' = [pc EXCEPT ![t] = "skipped"]
  /\ UNCHANGED <<userVars, workspace, cacheVars, warm, budget, buildVars,
                 targetVars, taskVars, ioVars>>

\* walkCallback up to the scheduler
SetChangeHash(t) ==
  /\ phase = "building" /\ pc[t] = "pending"
  /\ \A d \in WalkDeps(t) : pc[d] = "succeeded"
  /\ changeHash' = [changeHash EXCEPT ![t] = ChangeHash(t, source, outputHash)]
  /\ pc' = [pc EXCEPT ![t] = "queued"]
  /\ UNCHANGED <<userVars, workspace, cacheVars, warm, budget, buildVars,
                 outputHash, loaded, taskVars, ioVars>>

HasResult(t) == changeHash[t] \in DOMAIN results
Result(t) == results[changeHash[t]]

\* Mutant: the taint is not looked at.
IsHitIfTainted(t, isTainted) == HasResult(t) /\ t \notin NoCache /\ cacheOn

\* The output checks run as well; that they failed is only logged.
IsHit(t, isTainted) ==
  HasResult(t) /\ ~isTainted /\ t \notin NoCache /\ cacheOn

\* Mutant: a target runs without loading its dependencies' outputs.
FrameWithoutDeps(t) == [target |-> t, todo |-> {}]

\* The frame of a target that is going to run: dependencies not gone through
Frame(t) ==
  [target |-> t, todo |-> IF mode = "minimal" THEN TargetDeps(t) ELSE {}]

\* The target is executed: a first frame goes on its task's stack.
Execute(t) ==
  /\ frames' = [frames EXCEPT ![t] = <<Frame(t)>>]
  /\ pc' = [pc EXCEPT ![t] = "deps"]

\* What the task does with the result and the taint it has read
Decide(t, isTainted) ==
  /\ wasTainted' = [wasTainted EXCEPT ![t] = isTainted]
  /\ \/ /\ IsHit(t, isTainted) /\ mode = "minimal"
        /\ outputHash' = [outputHash EXCEPT ![t] = Result(t).outputHash]
        /\ pc' = [pc EXCEPT ![t] = "succeeded"]
        /\ UNCHANGED frames
     \/ /\ IsHit(t, isTainted) /\ mode = "all"
        /\ pc' = [pc EXCEPT ![t] = "loading"]
        /\ UNCHANGED <<frames, outputHash>>
     \/ ~IsHit(t, isTainted) /\ Execute(t) /\ UNCHANGED outputHash

\* IsTainted fails: the error is logged, and the task goes on without a taint.
\* (For a target that is not tainted that makes no difference.)
TaintUnread(t) ==
  /\ t \in tainted
  /\ Spend("loads")
  /\ misread' = misread \cup {t}
  /\ Decide(t, FALSE)
  /\ UNCHANGED warm

\* targetCache.Load fails: its error is taken for a miss.
ResultUnread(t) ==
  /\ Spend("loads") /\ Cool
  /\ wasTainted' = [wasTainted EXCEPT ![t] = t \in tainted]
  /\ Execute(t)
  /\ UNCHANGED <<misread, outputHash>>

CheckCache(t) ==
  /\ pc[t] = "queued"
  /\ \/ Decide(t, t \in tainted) /\ UNCHANGED <<warm, budget, misread>>
     \/ TaintUnread(t)
     \/ ResultUnread(t)
  /\ UNCHANGED <<userVars, workspace, cacheVars, phase, mode, cacheOn, async,
                 changeHash, loaded, dep, flight, ran, ioVars>>

\* A result without outputs does not match a target that declares some, and
\* a file that is already in place is not fetched.
CanLoad(t) ==
  /\ HasResult(t)
  /\ \/ t \in NoOutputs
     \/ /\ Result(t).content # Unset
        /\ Result(t).content \in cas \cup {workspace[t]}

\* Mutant: the output hash is not taken over from the result.
LoadContentOnly(t) ==
  /\ loaded' = [loaded EXCEPT ![t] = TRUE]
  /\ outputHash' = [outputHash EXCEPT ![t] = OutputHash(t, Unset)]
  /\ workspace' = IF t \in NoOutputs THEN workspace
                  ELSE [workspace EXCEPT ![t] = Result(t).content]

LoadOutputs(t) ==
  /\ loaded' = [loaded EXCEPT ![t] = TRUE]
  /\ outputHash' = [outputHash EXCEPT ![t] = Result(t).outputHash]
  /\ workspace' = IF t \in NoOutputs THEN workspace
                  ELSE [workspace EXCEPT ![t] = Result(t).content]

\* load_outputs=all: a hit whose outputs do not load is run.
LoadHit(t) ==
  /\ pc[t] = "loading"
  /\ CanLoad(t)
  /\ LoadOutputs(t)
  /\ pc' = [pc EXCEPT ![t] = "succeeded"]
  /\ UNCHANGED <<userVars, cacheVars, warm, budget, buildVars, changeHash,
                 taskVars, ioVars>>

LoadHitFails(t) ==
  /\ pc[t] = "loading"
  /\ \/ ~CanLoad(t) /\ UNCHANGED <<warm, budget>>
     \/ Spend("loads") /\ Cool
  /\ Execute(t)
  /\ UNCHANGED <<userVars, workspace, cacheVars, buildVars, targetVars,
                 wasTainted, dep, flight, ran, ioVars>>

-----------------------------------------------------------------------------
\* The task of target t: LoadDependencyOutputs for the top frame

\* The top frame is done with dependency d.
Tick(t, d) ==
  frames' = [frames EXCEPT
    ![t] = Append(Front(@), [Top(t) EXCEPT !.todo = @ \ {d}])]

DepIsLoaded(t, d) ==
  /\ pc[t] = "deps" /\ d \in Top(t).todo
  /\ loaded[d]
  /\ Tick(t, d)
  /\ UNCHANGED <<userVars, workspace, cacheVars, warm, budget, buildVars, pc,
                 targetVars, wasTainted, dep, flight, ran, ioVars>>

LoadDep(t, d) ==
  /\ pc[t] = "deps" /\ d \in Top(t).todo
  /\ ~loaded[d]
  /\ CanLoad(d)
  /\ LoadOutputs(d)
  /\ Tick(t, d)
  /\ UNCHANGED <<userVars, cacheVars, warm, budget, buildVars, pc, changeHash,
                 wasTainted, dep, flight, ran, ioVars>>

\* The outputs of d do not load: rerunGroup is asked for a rerun.
LoadDepFails(t, d) ==
  /\ pc[t] = "deps" /\ d \in Top(t).todo
  /\ ~loaded[d]
  /\ \/ ~CanLoad(d) /\ UNCHANGED <<warm, budget>>
     \/ Spend("loads") /\ Cool
  /\ dep' = [dep EXCEPT ![t] = d]
  /\ pc' = [pc EXCEPT ![t] = "asking"]
  /\ UNCHANGED <<userVars, workspace, cacheVars, buildVars, targetVars,
                 wasTainted, frames, flight, ran, ioVars>>

\* Somebody runs it already: wait for the outcome.
JoinRerun(t) ==
  /\ pc[t] = "asking"
  /\ flight[dep[t]] # None
  /\ pc' = [pc EXCEPT ![t] = "joined"]
  /\ UNCHANGED <<userVars, workspace, cacheVars, warm, budget, buildVars,
                 targetVars, taskVars, ioVars>>

\* Mutant: OutputsLoaded is not read again once in the group.
NeverLate(d) == FALSE

\* A rerun ended between the failed load and the call.
Late(d) == loaded[d]

StartRerun(t) ==
  /\ pc[t] = "asking"
  /\ flight[dep[t]] = None
  /\ pc' = [pc EXCEPT ![t] = "deps"]
  /\ \/ /\ Late(dep[t])
        /\ Tick(t, dep[t])
        /\ UNCHANGED flight
     \/ /\ ~Late(dep[t])
        /\ flight' = [flight EXCEPT ![dep[t]] = t]
        /\ frames' = [frames EXCEPT ![t] = Append(@, Frame(dep[t]))]
  /\ dep' = [dep EXCEPT ![t] = None]
  /\ UNCHANGED <<userVars, workspace, cacheVars, warm, budget, buildVars,
                 targetVars, wasTainted, ran, ioVars>>

-----------------------------------------------------------------------------
\* The task of target t: the command of the top frame

\* The command writes its output while it runs.
StartCommand(t) ==
  /\ pc[t] = "deps" /\ Top(t).todo = {}
  /\ pc' = [pc EXCEPT ![t] = "running"]
  /\ workspace' = [workspace EXCEPT ![Cur(t)] =
                     IF Cur(t) \in NoOutputs THEN Unset ELSE Junk]
  /\ UNCHANGED <<userVars, cacheVars, warm, budget, buildVars,
                 targetVars, taskVars, ioVars>>

Uncached(c) == c \in NoCache \/ ~cacheOn

\* OnTargetComplete: the output hash of a target that ran
HashOf(c, content) ==
  IF Uncached(c) THEN RawHash(c, content)
  ELSE IF c \in NoOutputs THEN changeHash[c]
  ELSE OutputHash(c, content)

\* The result lists the outputs unless the target is not cached.
ResultOf(c, content) ==
  [outputHash |-> HashOf(c, content),
   content |-> IF Uncached(c) THEN Unset ELSE content]

Stored(key, result) ==
  [k \in DOMAIN results \cup {key} |-> IF k = key THEN result ELSE results[k]]

\* PersistPreparedTarget: in the I/O pool if there are blobs to write
Persist(key, result) ==
  IF async /\ result.content # Unset
  THEN /\ writes' = writes \cup {[key |-> key, result |-> result]}
       /\ UNCHANGED cacheVars
  ELSE /\ results' = Stored(key, result)
       /\ cas' = cas \cup ({result.content} \ {Unset})
       /\ UNCHANGED writes

\* Mutant: those who joined the rerun are not woken.
EndRerunAlone(t, stageOfWaiters) ==
  /\ flight' = [flight EXCEPT ![Cur(t)] = None]
  /\ frames' = [frames EXCEPT ![t] = Front(@)]
  /\ pc' = [pc EXCEPT ![t] = stageOfWaiters]
  /\ UNCHANGED dep

\* The rerun of Cur(t) is over: its frame is popped, the waiters go on.
EndRerun(t, stageOfWaiters) ==
  LET d == Cur(t)
      waits(u) == pc[u] = "joined" /\ dep[u] = d
      done(f) == [f EXCEPT ![Len(f)].todo = @ \ {d}]
  IN /\ flight' = [flight EXCEPT ![d] = None]
     /\ dep' = [u \in Targets |-> IF waits(u) THEN None ELSE dep[u]]
     /\ frames' = [u \in Targets |->
                     CASE u = t    -> done(Front(frames[t]))
                       [] waits(u) -> done(frames[u])
                       [] OTHER    -> frames[u]]
     /\ pc' = [u \in Targets |->
                 IF u = t \/ waits(u) THEN stageOfWaiters ELSE pc[u]]

\* The end of a task, for its own target
EndTask(t, stage) ==
  /\ frames' = [frames EXCEPT ![t] = << >>]
  /\ pc' = [pc EXCEPT ![t] = stage]
  /\ UNCHANGED <<flight, dep>>

\* The command and its checks pass, the outputs are hashed and staged.
Produced(t, c, content) ==
  /\ workspace' = [workspace EXCEPT ![c] = content]
  /\ outputHash' = [outputHash EXCEPT ![c] = HashOf(c, content)]
  /\ loaded' = [loaded EXCEPT ![c] = TRUE]
  /\ ran' = [ran EXCEPT ![c] = @ + 1]

CommandSucceeds(t) ==
  /\ pc[t] = "running"
  /\ LET c == Cur(t)
         content == Produce(c, source, workspace)
     IN /\ Produced(t, c, content)
        /\ Persist(changeHash[c], ResultOf(c, content))
        /\ owed' = owed \ {c}
  /\ IF Len(frames[t]) > 1
     THEN EndRerun(t, "deps") /\ UNCHANGED clears
     ELSE /\ EndTask(t, "succeeded")
          /\ clears' = IF wasTainted[t] THEN clears \cup {t} ELSE clears
  /\ UNCHANGED <<source, tainted, warm, budget, buildVars, changeHash,
                 wasTainted>>

\* The command or the check after it fails.
CommandFails(t) ==
  /\ pc[t] = "running"
  /\ Spend("failures")
  /\ pc' = [pc EXCEPT ![t] = "unwinding"]
  /\ UNCHANGED <<userVars, workspace, cacheVars, warm, buildVars, targetVars,
                 taskVars, ioVars>>

\* The command passes and its cache write fails on the task worker: the blob
\* may be there, the result is not.
PersistFails(t) ==
  /\ pc[t] = "running"
  /\ Spend("failures")
  /\ LET c == Cur(t)
         content == Produce(c, source, workspace)
     IN /\ ~async \/ ResultOf(c, content).content = Unset
        /\ Produced(t, c, content)
        /\ cas' \in {cas, cas \cup ({ResultOf(c, content).content} \ {Unset})}
  /\ pc' = [pc EXCEPT ![t] = "unwinding"]
  /\ UNCHANGED <<source, tainted, owed, results, warm, buildVars, changeHash,
                 wasTainted, frames, dep, flight, ioVars>>

\* The error goes through the frames and to everyone who joined a rerun.
Unwind(t) ==
  /\ pc[t] = "unwinding"
  /\ IF Len(frames[t]) > 1 THEN EndRerun(t, "unwinding")
                           ELSE EndTask(t, "failed")
  /\ UNCHANGED <<userVars, workspace, cacheVars, warm, budget, buildVars,
                 targetVars, wasTainted, ran, ioVars>>

ClearTaint(t) ==
  /\ t \in clears
  /\ clears' = clears \ {t}
  /\ tainted' = tainted \ {t}
  /\ UNCHANGED <<source, owed, workspace, cacheVars, warm, budget,
                 buildVars, pc, targetVars, taskVars, writes>>

-----------------------------------------------------------------------------
\* The I/O pool

\* Mutant: the result is published before its blob.
PublishFirst(w) ==
  IF w.key \in DOMAIN results /\ results[w.key] = w.result
  THEN /\ cas' = cas \cup {w.result.content}
       /\ writes' = writes \ {w}
       /\ UNCHANGED results
  ELSE results' = Stored(w.key, w.result) /\ UNCHANGED <<cas, writes>>

\* commit: the blob first, then the target result
Publish(w) ==
  IF w.result.content \notin cas
  THEN cas' = cas \cup {w.result.content} /\ UNCHANGED <<results, writes>>
  ELSE /\ results' = Stored(w.key, w.result)
       /\ writes' = writes \ {w}
       /\ UNCHANGED cas

Commit(w) ==
  /\ Publish(w)
  /\ UNCHANGED <<userVars, workspace, warm, budget, buildVars, pc, targetVars,
                 taskVars, clears>>

\* A write that fails is only a warning.
CommitFails(w) ==
  /\ Spend("failures")
  /\ writes' = writes \ {w}
  /\ Cool
  /\ UNCHANGED <<userVars, workspace, cacheVars, buildVars, pc, targetVars,
                 taskVars, clears>>

\* The outputs that a load may be writing
Fetching ==
  {c \in Targets \ NoOutputs :
     /\ CanLoad(c) /\ Result(c).content # workspace[c]
     /\ \/ pc[c] = "loading"
        \/ \E t \in Targets : pc[t] = "deps" /\ c \in Top(t).todo /\ ~loaded[c]}

\* The process dies, or is interrupted and does not wait for the I/O pool: the
\* outputs that were being loaded may be half there.
Crash ==
  /\ phase = "building"
  /\ Spend("failures")
  /\ phase' = "idle"
  /\ \E half \in SUBSET Fetching :
       workspace' = [t \in Targets |-> IF t \in half THEN Junk ELSE workspace[t]]
  /\ NoTasks("skipped")
  /\ misread' = {} /\ writes' = {} /\ clears' = {}
  /\ Cool
  /\ UNCHANGED <<userVars, cacheVars, mode, cacheOn, async, targetVars,
                 wasTainted, ran>>

-----------------------------------------------------------------------------
Task(t) ==
  \/ Skip(t) \/ SetChangeHash(t) \/ CheckCache(t)
  \/ LoadHit(t) \/ LoadHitFails(t)
  \/ \E d \in Targets :
       DepIsLoaded(t, d) \/ LoadDep(t, d) \/ LoadDepFails(t, d)
  \/ JoinRerun(t) \/ StartRerun(t)
  \/ StartCommand(t) \/ CommandSucceeds(t) \/ CommandFails(t)
  \/ PersistFails(t) \/ Unwind(t)

Next ==
  \/ \E t \in Targets : Edit(t) \/ Taint(t) \/ Task(t) \/ ClearTaint(t)
  \/ Checkout \/ Evict \/ StartBuild \/ EndBuild \/ Crash
  \/ \E w \in writes : Commit(w) \/ CommitFails(w)

Spec == Init /\ [][Next]_vars

\* Task workers, I/O workers and the walk are never starved; commands end.
Fairness ==
  /\ \A t \in Targets : WF_vars(Task(t))
  /\ WF_vars(\E w \in writes : Commit(w) \/ CommitFails(w))
  /\ WF_vars(EndBuild)

FairSpec == Spec /\ Fairness
-----------------------------------------------------------------------------
\* The outputs a build leaves in place are those of a build from scratch: no
\* sequence of edits, lost entries, failed or lost writes and builds in either
\* mode makes a stale result look fresh (getTaskFunc, GetTargetChangeHash).
OutputsMatchSource ==
  phase = "building" =>
    \A t \in Targets \ NoOutputs :
      pc[t] = "succeeded" /\ (mode = "all" \/ loaded[t]) =>
        workspace[t] = Clean(source)[t]

\* While a command runs, everything it reads is in place and up to date, also
\* when load_outputs=minimal had to fetch it or to run it again
\* (LoadDependencyOutputs).
InputsReady ==
  \A t \in Targets : pc[t] = "running" =>
    \A d \in Reads[Cur(t)] \ NoOutputs : workspace[d] = Clean(source)[d]

\* Two tasks never run the command of one target at the same time, and a target
\* is not run again once it was run in this build (rerunGroup).
RunsOnce ==
  /\ \A t \in Targets : ran[t] <= 1
  /\ \A t, u \in Targets :
       pc[t] = "running" /\ pc[u] = "running" /\ t # u => Cur(t) # Cur(u)

\* A tainted target does not succeed without having run, and the taint outlives
\* every build in which it did not run successfully (taintStore) - except that a
\* target whose taint could not be read in a build may be served from the cache
\* in that build: the error is logged and the task goes on (getTaskFunc).  The
\* taint is not lost by that, and counts in the next build.
TaintHonoured ==
  /\ owed \subseteq tainted
  /\ phase = "building" => \A t \in owed \ misread : pc[t] # "succeeded"

\* Once a build cached everything, the next one over the same sources and the
\* same cache runs no cacheable target, wherever it is checked out: the hashes
\* of a hit, of a loaded and of a run target agree.  Only a target whose taint
\* the last build had no time to clear is run once more.
WarmBuildRunsNothing ==
  warm = "warm" /\ phase = "building" =>
    \A t \in Targets \ NoCache : ran[t] = 0 \/ wasTainted[t]

\* A result is published after the blob it names (CacheWriter.commit), so that
\* a crash or a failed write never leaves a result without its blob.
BlobBeforeResult ==
  [][\A k \in DOMAIN results' :
       \/ k \in DOMAIN results /\ results'[k] = results[k]
       \/ results'[k].content \in cas' \cup {Unset}]_vars

\* Every build comes to an end: waiting for reruns never blocks a task for ever
\* and the I/O pool drains.
BuildEnds == phase = "building" ~> phase = "idle"
=============================================================================
