---------------------------- MODULE WorkspaceLock ----------------------------
(***************************************************************************)
(* The lock file of a workspace (internal/locking/workspace_locker.go), as *)
(* grog build takes and releases it (internal/cmd/cmds/build.go), and grog *)
(* clean, which looks for lock files before it removes the cache all the   *)
(* workspaces of a root share (internal/cmd/cmds/clean.go).                *)
(*                                                                         *)
(* The actors are operating system processes and each file operation is a  *)
(* step.  A process creates at most one lock file in its life, so a file   *)
(* is known by the process that created it: what is written through a      *)
(* descriptor goes to that file even when the path names another by then.  *)
(***************************************************************************)
EXTENDS FiniteSets

CONSTANTS
  Builders,    \* processes that build
  Cleaners,    \* processes that run grog clean
  Workspaces,  \* checkouts under one GROG_ROOT
  Home,        \* Home[p]: the workspace p runs in
  Caller,      \* Caller[p]: the grog run whose binary calls p, or None
  None

ASSUME LockAssumption ==
  /\ Builders \cap Cleaners = {}
  /\ Home \in [Builders \cup Cleaners -> Workspaces]
  /\ Caller \in [Builders -> Builders \cup {None}]
  /\ \A p \in Builders : Caller[p] # p
  /\ None \notin Builders

VARIABLES
  at,        \* where each process is
  file,      \* the lock file of each workspace: who created it, written or not
  dir,       \* the workspaces whose directory under GROG_ROOT exists
  unscanned, \* what FindActiveLocks has not read yet
  found      \* cleaners that found an active lock

vars == <<at, file, dir, unscanned, found>>

Processes == Builders \cup Cleaners
Locking == {"create", "write", "read", "remove", "wait"}
Over == {"done", "dead"}
Cleaning == {"scan", "clear", "recreate", "cache", "expunge"}
Places == {"idle", "holds", "callback"} \cup Locking \cup Cleaning \cup Over

Files == [by : Builders, written : BOOLEAN]
NoFile == [by |-> None, written |-> FALSE]

\* Each variable has its type.
TypeOK ==
  /\ at \in [Processes -> Places]
  /\ file \in [Workspaces -> Files \cup {NoFile}]
  /\ dir \subseteq Workspaces
  /\ unscanned \in [Cleaners -> SUBSET Workspaces]
  /\ found \subseteq Cleaners

Init ==
  /\ at = [p \in Processes |-> "idle"]
  /\ file = [w \in Workspaces |-> NoFile]
  /\ dir = {}
  /\ unscanned = [c \in Cleaners |-> {}]
  /\ found = {}

Goto(p, place) == at' = [at EXCEPT ![p] = place]
Lockfile(p) == file[Home[p]]
\* os.Remove takes away whatever file is there.
RemoveLockfile(p) == file' = [file EXCEPT ![Home[p]] = NoFile]

\* processRunning, for a process that has created a lock file
Running(p) == at[p] \notin Over

-----------------------------------------------------------------------------
\* WorkspaceLocker

\* Lock: MkdirAll.  A process called by another runs while that one waits.
StartLock(p) ==
  /\ at[p] = "idle"
  /\ Caller[p] # None => at[Caller[p]] = "callback"
  /\ dir' = dir \cup {Home[p]}
  /\ Goto(p, "create")
  /\ UNCHANGED <<file, unscanned, found>>

\* O_CREATE|O_EXCL.  Without the directory, Lock returns the error and the
\* build ends.
Create(p) ==
  /\ at[p] = "create"
  /\ \/ /\ Home[p] \notin dir
        /\ Goto(p, "done") /\ UNCHANGED file
     \/ /\ Home[p] \in dir /\ Lockfile(p) # NoFile
        /\ Goto(p, "read") /\ UNCHANGED file
     \/ /\ Home[p] \in dir /\ Lockfile(p) = NoFile
        /\ file' = [file EXCEPT ![Home[p]] = [by |-> p, written |-> FALSE]]
        /\ Goto(p, "write")
  /\ UNCHANGED <<dir, unscanned, found>>

Write(p) ==
  /\ at[p] = "write"
  /\ file' = IF Lockfile(p).by = p
             THEN [file EXCEPT ![Home[p]] = [by |-> p, written |-> TRUE]]
             ELSE file
  /\ Goto(p, "holds")
  /\ UNCHANGED <<dir, unscanned, found>>

\* Mutant: the file is left where it is.
WriteFailsOnly(p) ==
  /\ at[p] = "write"
  /\ Goto(p, "done")
  /\ UNCHANGED <<file, dir, unscanned, found>>

\* The write returns an error (a full disk): Lock removes the file and the
\* build ends.
WriteFails(p) ==
  /\ at[p] = "write"
  /\ RemoveLockfile(p)
  /\ Goto(p, "done")
  /\ UNCHANGED <<dir, unscanned, found>>

\* Mutant: the process named in the file is not looked up.
ActiveIfWritten(f) == f.written

\* The file can be read, names a process, and that process runs.
Active(f) == f.written /\ Running(f.by)

\* ReadFile, parseLockFileContents and processRunning.  A file that is gone,
\* empty, or left by a process that ended is to be removed.
Read(p) ==
  /\ at[p] = "read"
  /\ Goto(p, IF Active(Lockfile(p)) THEN "wait" ELSE "remove")
  /\ UNCHANGED <<file, dir, unscanned, found>>

Remove(p) ==
  /\ at[p] = "remove"
  /\ RemoveLockfile(p)
  /\ Goto(p, "create")
  /\ UNCHANGED <<dir, unscanned, found>>

\* time.After
Poll(p) ==
  /\ at[p] = "wait"
  /\ Goto(p, "create")
  /\ UNCHANGED <<file, dir, unscanned, found>>

\* ctx.Done: the wait is interrupted.
GiveUp(p) ==
  /\ at[p] = "wait"
  /\ Goto(p, "done")
  /\ UNCHANGED <<file, dir, unscanned, found>>

-----------------------------------------------------------------------------
\* RunBuildAndAfter

\* grog build: the deferred release, when RunBuildAndAfter returns
EndBuild(p) ==
  /\ at[p] = "holds"
  /\ RemoveLockfile(p)
  /\ Goto(p, "done")
  /\ UNCHANGED <<dir, unscanned, found>>

Calls(p) == {q \in Builders : Caller[q] = p}

\* Mutant: the lock is only released when the process ends.
CallbackUnderLock(p) ==
  /\ at[p] = "holds" /\ Calls(p) # {}
  /\ Goto(p, "callback")
  /\ UNCHANGED <<file, dir, unscanned, found>>

\* grog run: the lock is released before afterBuildSuccess runs the binary.
\* What the build still writes to the cache is not under the lock any more.
RunCallback(p) ==
  /\ at[p] = "holds" /\ Calls(p) # {}
  /\ RemoveLockfile(p)
  /\ Goto(p, "callback")
  /\ UNCHANGED <<dir, unscanned, found>>

\* The binary returns, whether it ran grog or not.
CallbackReturns(p) ==
  /\ at[p] = "callback"
  /\ \A q \in Calls(p) : at[q] \in {"idle"} \cup Over
  /\ Goto(p, "done")
  /\ UNCHANGED <<file, dir, unscanned, found>>

\* A build whose targets fail ends in os.Exit(1), which runs no deferred
\* function: the lock file stays.
FailBuild(p) ==
  /\ at[p] = "holds"
  /\ Goto(p, "dead")
  /\ UNCHANGED <<file, dir, unscanned, found>>

\* A process can be killed at any point.
Crash(p) ==
  /\ at[p] \notin {"idle"} \cup Over
  /\ Goto(p, "dead")
  /\ UNCHANGED <<file, dir, unscanned, found>>

-----------------------------------------------------------------------------
\* CleanCmd

\* FindActiveLocks: ReadDir
StartScan(c) ==
  /\ at[c] = "idle"
  /\ unscanned' = [unscanned EXCEPT ![c] = dir]
  /\ Goto(c, "scan")
  /\ UNCHANGED <<file, dir, found>>

Scan(c) ==
  /\ at[c] = "scan"
  /\ \E w \in unscanned[c] :
       /\ unscanned' = [unscanned EXCEPT ![c] = @ \ {w}]
       /\ found' = IF Active(file[w]) THEN found \cup {c} ELSE found
  /\ UNCHANGED <<at, file, dir>>

\* Mutant: only a lock of the cleaner's own workspace counts.
MayCleanOwn(c) == ~Active(file[Home[c]])

MayClean(c) == c \notin found

\* --expunge is a flag of the command; it matters from here on.
EndScan(c) ==
  /\ at[c] = "scan" /\ unscanned[c] = {}
  /\ IF MayClean(c) THEN Goto(c, "clear") \/ Goto(c, "expunge")
                    ELSE Goto(c, "done")
  /\ UNCHANGED <<file, dir, unscanned, found>>

\* RemoveAll of the workspace's directory
Clear(c) ==
  /\ at[c] = "clear"
  /\ RemoveLockfile(c)
  /\ dir' = dir \ {Home[c]}
  /\ Goto(c, "recreate")
  /\ UNCHANGED <<unscanned, found>>

Recreate(c) ==
  /\ at[c] = "recreate"
  /\ dir' = dir \cup {Home[c]}
  /\ Goto(c, "cache")
  /\ UNCHANGED <<file, unscanned, found>>

\* RemoveAll of the cache directory, which the workspaces share
ClearCache(c) ==
  /\ at[c] = "cache"
  /\ Goto(c, "done")
  /\ UNCHANGED <<file, dir, unscanned, found>>

\* RemoveAll of the root: every workspace's directory and the cache
Expunge(c) ==
  /\ at[c] = "expunge"
  /\ file' = [w \in Workspaces |-> NoFile]
  /\ dir' = {}
  /\ Goto(c, "done")
  /\ UNCHANGED <<unscanned, found>>

-----------------------------------------------------------------------------
Lock(p) ==
  Create(p) \/ Write(p) \/ WriteFails(p) \/ Read(p) \/ Remove(p) \/ Poll(p)

Build(p) == EndBuild(p) \/ RunCallback(p) \/ CallbackReturns(p) \/ FailBuild(p)

Clean(c) == StartScan(c) \/ Scan(c) \/ EndScan(c) \/ Clear(c) \/ Recreate(c)
              \/ ClearCache(c) \/ Expunge(c)

Next ==
  \/ \E p \in Builders :
       StartLock(p) \/ Lock(p) \/ GiveUp(p) \/ Build(p) \/ Crash(p)
  \/ \E c \in Cleaners : Clean(c)

Spec == Init /\ [][Next]_vars

\* A process goes on unless it is killed, and a build and a callback end.
\* Nothing makes a process start, give up, or crash.
Fairness ==
  \A p \in Builders : WF_vars(Lock(p)) /\ WF_vars(Build(p))

FairSpec == Spec /\ Fairness

-----------------------------------------------------------------------------
\* Properties

\* The lock file in a workspace is that of a process that is about to write
\* it, builds, or ended without a chance to remove it: no process that ends in
\* order, on an error, after waiting or having called its binary, leaves one.
NothingLeftBehind ==
  \A w \in Workspaces :
    file[w] # NoFile => at[file[w].by] \in {"write", "holds", "dead"}

\* What the type's comment says (workspace_locker.go:23): only one build runs
\* in a workspace.
MutualExclusion ==
  \A p, q \in Builders :
    at[p] = "holds" /\ at[q] = "holds" /\ Home[p] = Home[q] => p = q

\* No cleaner can remove w's lock file, or the cache, without looking again.
NotBeingCleaned(w) ==
  \A c \in Cleaners :
    /\ at[c] \notin {"clear", "recreate", "cache", "expunge"}
    /\ at[c] = "scan" => w \in unscanned[c] \/ c \in found

\* p builds with its lock file in place, and no other process of the
\* workspace is past the point where it would have seen that.
Settled(p) ==
  /\ at[p] = "holds"
  /\ Lockfile(p) = [by |-> p, written |-> TRUE]
  /\ \A q \in Builders \ {p} :
       Home[q] = Home[p] => at[q] \notin {"write", "remove", "holds"}
  /\ NotBeingCleaned(Home[p])

\* Mutual exclusion as far as the protocol gives it: a build that has settled
\* stays alone in its workspace, and its cache is not cleaned, until it lets go
\* of the lock itself.  Only the window before that is open.
SettledLockStays ==
  [][\A p \in Builders : Settled(p) => Settled(p)' \/ at[p]' # "holds"]_vars

\* Whoever asks for the lock is given it or ends, whatever files other
\* processes left behind; a binary that grog run calls and that runs grog
\* itself does not wait for its caller's lock (build.go:169).
WaitingEnds ==
  \A p \in Builders : at[p] \in Locking ~> at[p] \notin Locking
=============================================================================
