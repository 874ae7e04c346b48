--------------------------- MODULE Sharing_proofs ---------------------------
(***************************************************************************)
(* Proofs about what processes and goroutines share, in three components   *)
(* that have no state in common: the lock of a workspace, for any number   *)
(* of builds, cleaners and checkouts and any nesting of grog run           *)
(* (WorkspaceLock); the mutexes by name, for any number of callers, names  *)
(* and mutexes (MutexMap); and the traces of past builds, for any number   *)
(* of machines, commands and traces (TraceStore).                          *)
(***************************************************************************)
EXTENDS WorkspaceLock, MutexMap, TraceStore, FiniteSetTheorems, TLAPS

-----------------------------------------------------------------------------
(* The lock of a workspace                                                 *)

\* A lock file lies in the directory of the workspace of the process that
\* created it, and that directory exists.
FilesAtHome ==
  \A w \in Workspaces : file[w] # NoFile => w \in dir /\ Home[file[w].by] = w

\* A process removes the file of its own workspace only, so NothingLeftBehind
\* needs FilesAtHome to be inductive; FindActiveLocks finds the lock files
\* because their directories exist.
LInv == TypeOK /\ NothingLeftBehind /\ FilesAtHome

-----------------------------------------------------------------------------
\* The initial state satisfies the invariant.
LEMMA LInvInit == Init => LInv
  BY LockAssumption
  DEF Init, LInv, TypeOK, NothingLeftBehind, FilesAtHome, NoFile, Places

\* Where the processes may be, without the definition of Places.
LEMMA PlaceFacts ==
  /\ "done" \in Places /\ "dead" \in Places /\ "holds" \in Places
  /\ "create" \in Places /\ "write" \in Places /\ "read" \in Places
  /\ "wait" \in Places /\ "remove" \in Places /\ "callback" \in Places
  /\ "scan" \in Places /\ "clear" \in Places /\ "recreate" \in Places
  /\ "cache" \in Places /\ "expunge" \in Places
  BY DEF Places, Locking, Cleaning, Over

\* Why no step leaves a file behind: files are only taken away, and the process
\* that moves either has none, or is where it may have one.
LEMMA FilesKept ==
  ASSUME LInv, NEW x \in Processes, NEW place \in Places,
         Goto(x, place),
         file' \in [Workspaces -> Files \cup {NoFile}],
         \A w \in Workspaces : file'[w] # NoFile => w \in dir',
         \A w \in Workspaces : file'[w] # NoFile =>
            \/ file'[w].by = x /\ w = Home[x]
            \/ file[w] # NoFile /\ file'[w].by = file[w].by,
         \/ place \in {"write", "holds", "dead"}
         \/ \A w \in Workspaces : file'[w] # NoFile => file'[w].by # x
  PROVE  NothingLeftBehind' /\ FilesAtHome'
  <1> SUFFICES ASSUME NEW w \in Workspaces, file'[w] # NoFile
               PROVE  /\ at'[file'[w].by] \in {"write", "holds", "dead"}
                      /\ w \in dir' /\ Home[file'[w].by] = w
    BY DEF NothingLeftBehind, FilesAtHome
  <1>1. file'[w].by \in Processes
    BY DEF Files, Processes
  <1>2. CASE file'[w].by = x
    BY <1>1, <1>2 DEF LInv, TypeOK, FilesAtHome, Goto
  <1>3. CASE file'[w].by # x
    <2>1. file[w] # NoFile /\ file'[w].by = file[w].by
      BY <1>3
    <2>2. at[file'[w].by] \in {"write", "holds", "dead"} /\ Home[file'[w].by] = w
      BY <2>1 DEF LInv, NothingLeftBehind, FilesAtHome
    <2> QED  BY <1>1, <1>3, <2>2 DEF LInv, TypeOK, Goto
  <1> QED  BY <1>2, <1>3

\* A process that is in the lock but neither writes nor holds has no file.
LEMMA NoFileOf ==
  ASSUME LInv, NEW p \in Processes, at[p] \notin {"write", "holds", "dead"},
         NEW w \in Workspaces, file[w] # NoFile
  PROVE  file[w].by # p
  BY DEF LInv, NothingLeftBehind

\* A step of a build in the lock or around it preserves the invariant.
LEMMA LockStep ==
  ASSUME LInv, NEW p \in Builders,
         StartLock(p) \/ Lock(p) \/ GiveUp(p) \/ Build(p) \/ Crash(p)
  PROVE  LInv'
  <1>0. p \in Processes /\ TypeOK /\ Home[p] \in Workspaces
    BY LockAssumption DEF Processes, LInv
  <1> USE LockAssumption, PlaceFacts
  <1>1. CASE StartLock(p) \/ Read(p) \/ Poll(p) \/ GiveUp(p) \/ CallbackReturns(p)
    <2> USE <1>1 DEF StartLock, Read, Poll, GiveUp, CallbackReturns
    <2>1. TypeOK'
      BY <1>0 DEF TypeOK, RemoveLockfile, Goto
    <2>2. NothingLeftBehind' /\ FilesAtHome'
      BY <2>1, <1>0, FilesKept, NoFileOf
         DEF LInv, FilesAtHome, TypeOK, RemoveLockfile, Lockfile, NoFile
    <2> QED  BY <2>1, <2>2 DEF LInv
  <1>2. CASE Create(p)
    <2> USE <1>2 DEF Create
    <2>0. [by |-> p, written |-> FALSE] \in Files
      BY DEF Files
    <2>1. TypeOK'
      <3>1. CASE at' = [at EXCEPT ![p] = "done"] /\ UNCHANGED <<file, dir, unscanned, found>>
        BY <1>0, <3>1 DEF TypeOK
      <3>2. CASE at' = [at EXCEPT ![p] = "read"] /\ UNCHANGED <<file, dir, unscanned, found>>
        BY <1>0, <3>2 DEF TypeOK
      <3>3. CASE /\ at' = [at EXCEPT ![p] = "write"] /\ UNCHANGED <<dir, unscanned, found>>
                 /\ file' = [file EXCEPT ![Home[p]] = [by |-> p, written |-> FALSE]]
        BY <1>0, <2>0, <3>3 DEF TypeOK
      <3> QED  BY <3>1, <3>2, <3>3 DEF Goto
    <2>2. NothingLeftBehind' /\ FilesAtHome'
      BY <2>1, <1>0, FilesKept, NoFileOf
         DEF LInv, FilesAtHome, TypeOK, RemoveLockfile, Lockfile, NoFile
    <2> QED  BY <2>1, <2>2 DEF LInv
  <1>3. CASE Write(p)
    <2> USE <1>3 DEF Write
    <2>0. [by |-> p, written |-> TRUE] \in Files
      BY DEF Files
    <2>1. TypeOK'
      BY <1>0, <2>0 DEF TypeOK, Goto
    <2>2. Lockfile(p).by = p => file[Home[p]] # NoFile /\ Home[p] \in dir
      BY <1>0 DEF LInv, FilesAtHome, Lockfile, NoFile
    <2>3. ASSUME NEW w \in Workspaces, file'[w] # NoFile
          PROVE  /\ w \in dir'
                 /\ \/ file'[w].by = p /\ w = Home[p]
                    \/ file[w] # NoFile /\ file'[w].by = file[w].by
      <3>1. CASE Lockfile(p).by = p /\ w = Home[p]
        <4>1. file'[w] = [by |-> p, written |-> TRUE]
          BY <1>0, <3>1 DEF TypeOK
        <4>2. file'[w].by = p
          BY <4>1
        <4>3. dir' = dir
          OBVIOUS
        <4> QED  BY <2>2, <3>1, <4>2, <4>3
      <3>2. CASE ~(Lockfile(p).by = p /\ w = Home[p])
        <4>1. file'[w] = file[w]
          BY <1>0, <3>2 DEF TypeOK
        <4> QED  BY <2>3, <4>1 DEF LInv, FilesAtHome
      <3> QED  BY <3>1, <3>2
    <2>4. NothingLeftBehind' /\ FilesAtHome'
      BY <2>1, <2>3, <1>0, FilesKept DEF TypeOK
    <2> QED  BY <2>1, <2>4 DEF LInv
  <1>4. CASE WriteFails(p) \/ Remove(p) \/ EndBuild(p) \/ RunCallback(p)
    <2> USE <1>4 DEF WriteFails, Remove, EndBuild, RunCallback
    <2>1. TypeOK'
      BY <1>0 DEF TypeOK, RemoveLockfile, Goto
    <2>2. \A w \in Workspaces : file'[w] # NoFile => file'[w] = file[w] /\ w # Home[p]
      BY <1>0 DEF TypeOK, RemoveLockfile
    <2>3. \A w \in Workspaces : file'[w] # NoFile => file'[w].by # p
      BY <2>2 DEF LInv, FilesAtHome
    <2>4. NothingLeftBehind' /\ FilesAtHome'
      BY <2>1, <2>2, <2>3, <1>0, FilesKept DEF LInv, FilesAtHome, TypeOK
    <2> QED  BY <2>1, <2>4 DEF LInv
  <1>5. CASE FailBuild(p) \/ Crash(p)
    <2>1. Goto(p, "dead") /\ UNCHANGED <<file, dir, unscanned, found>>
      BY <1>5 DEF FailBuild, Crash
    <2>2. TypeOK'
      BY <1>0, <2>1 DEF TypeOK, Goto
    <2>3. NothingLeftBehind' /\ FilesAtHome'
      BY <2>1, <2>2, <1>0, FilesKept DEF LInv, FilesAtHome, TypeOK
    <2> QED  BY <2>2, <2>3 DEF LInv
  <1> QED  BY <1>1, <1>2, <1>3, <1>4, <1>5 DEF Lock, Build

\* A step of grog clean preserves the invariant.
LEMMA CleanStep ==
  ASSUME LInv, NEW c \in Cleaners, Clean(c)
  PROVE  LInv'
  <1>0. c \in Processes /\ c \notin Builders /\ TypeOK /\ Home[c] \in Workspaces
    BY LockAssumption DEF Processes, LInv
  <1> USE LockAssumption, PlaceFacts
  <1>9. \A w \in Workspaces : file[w] # NoFile => file[w].by # c
    BY <1>0 DEF TypeOK, Files
  <1>1. CASE StartScan(c)
    <2> USE <1>1 DEF StartScan
    <2>1. TypeOK'
      BY <1>0 DEF TypeOK, RemoveLockfile, Goto
    <2>2. NothingLeftBehind' /\ FilesAtHome'
      BY <2>1, <1>0, FilesKept, NoFileOf
         DEF LInv, FilesAtHome, TypeOK, RemoveLockfile, Lockfile, NoFile
    <2> QED  BY <2>1, <2>2 DEF LInv
  <1>2. CASE Scan(c)
    <2> USE <1>2 DEF Scan
    <2>1. TypeOK'
      BY <1>0 DEF TypeOK
    <2>2. NothingLeftBehind' /\ FilesAtHome'
      BY DEF LInv, NothingLeftBehind, FilesAtHome
    <2> QED  BY <2>1, <2>2 DEF LInv
  <1>3. CASE EndScan(c) \/ Recreate(c) \/ ClearCache(c)
    <2> USE <1>3 DEF EndScan, Recreate, ClearCache
    <2>1. TypeOK'
      BY <1>0 DEF TypeOK, Goto
    <2>2. PICK place \in Places : Goto(c, place)
      OBVIOUS
    <2>3. file' = file /\ dir \subseteq dir'
      OBVIOUS
    <2>4. NothingLeftBehind' /\ FilesAtHome'
      BY <2>1, <2>2, <2>3, <1>0, <1>9, FilesKept DEF LInv, FilesAtHome, TypeOK
    <2> QED  BY <2>1, <2>4 DEF LInv
  <1>4. CASE Clear(c) \/ Expunge(c)
    <2> USE <1>4 DEF Clear, Expunge
    <2>1. TypeOK'
      BY <1>0 DEF TypeOK, RemoveLockfile, Goto
    <2>2. PICK place \in Places : Goto(c, place)
      OBVIOUS
    <2>3. \A w \in Workspaces : file'[w] # NoFile => file'[w] = file[w] /\ (w \in dir => w \in dir')
      BY <1>0 DEF TypeOK, RemoveLockfile
    <2>4. NothingLeftBehind' /\ FilesAtHome'
      BY <2>1, <2>2, <2>3, <1>0, <1>9, FilesKept DEF LInv, FilesAtHome, TypeOK
    <2> QED  BY <2>1, <2>4 DEF LInv
  <1> QED  BY <1>1, <1>2, <1>3, <1>4 DEF Clean

\* Each step keeps the invariant.
LEMMA LInvNext == LInv /\ [Next]_vars => LInv'
  <1> SUFFICES ASSUME LInv, [Next]_vars PROVE LInv'
    OBVIOUS
  <1>1. CASE UNCHANGED vars
    BY <1>1 DEF LInv, TypeOK, NothingLeftBehind, FilesAtHome, vars
  <1> QED  BY <1>1, LockStep, CleanStep DEF Next

-----------------------------------------------------------------------------
\* Type correctness and NothingLeftBehind, together: the invariant is inductive.
THEOREM LockInvariant == Spec => []LInv
  BY LInvInit, LInvNext, PTL DEF Spec

\* Type correctness.
THEOREM LockTypeCorrect == Spec => []TypeOK
  BY LockInvariant, PTL DEF LInv

\* Only a process that died leaves its lock file (the deferred release and
\* every error path of Lock).
THEOREM OnlyTheDeadLeaveFiles == Spec => []NothingLeftBehind
  BY LockInvariant, PTL DEF LInv

-----------------------------------------------------------------------------
\* What another build of the workspace does leaves a settled lock settled: it
\* can only find the file, read it, and wait.
LEMMA SettledByBuild ==
  ASSUME LInv, NEW p \in Builders, Settled(p), NEW q \in Builders \ {p},
         StartLock(q) \/ Lock(q) \/ GiveUp(q) \/ Build(q) \/ Crash(q)
  PROVE  Settled(p)'
  <1> USE LockAssumption
      DEF LInv, TypeOK, NoFile, Processes, Over, Goto, RemoveLockfile, Lockfile,
          Settled, NotBeingCleaned
  <1>1. CASE StartLock(q) \/ Poll(q) \/ GiveUp(q) \/ CallbackReturns(q)
    BY <1>1 DEF StartLock, Poll, GiveUp, CallbackReturns
  <1>2. CASE Create(q)
    <2>1. Home[q] = Home[p] => Lockfile(q) # NoFile
      OBVIOUS
    <2> QED  BY <1>2, <2>1 DEF Create
  <1>3. CASE Write(q)
    BY <1>3 DEF Write
  <1>4. CASE Read(q)
    <2>1. Home[q] = Home[p] => Active(Lockfile(q))
      BY DEF Active, Running
    <2> QED  BY <1>4, <2>1 DEF Read
  <1>5. CASE WriteFails(q) \/ Remove(q) \/ EndBuild(q) \/ RunCallback(q)
    BY <1>5 DEF WriteFails, Remove, EndBuild, RunCallback
  <1>6. CASE FailBuild(q) \/ Crash(q)
    BY <1>6 DEF FailBuild, Crash
  <1> QED  BY <1>1, <1>2, <1>3, <1>4, <1>5, <1>6 DEF Lock, Build

\* grog clean reads the settled lock file before it can remove anything.
LEMMA SettledByClean ==
  ASSUME LInv, NEW p \in Builders, Settled(p), NEW c \in Cleaners, Clean(c)
  PROVE  Settled(p)'
  <1> USE LockAssumption
      DEF LInv, TypeOK, NoFile, Processes, Over, Goto, RemoveLockfile, Lockfile,
          Settled, NotBeingCleaned
  <1>1. CASE StartScan(c)
    <2>1. Home[p] \in dir
      BY DEF FilesAtHome
    <2> QED  BY <1>1, <2>1 DEF StartScan
  <1>2. CASE Scan(c)
    BY <1>2 DEF Scan, Active, Running
  <1>3. CASE EndScan(c)
    BY <1>3 DEF EndScan, MayClean
  <1>4. CASE Clear(c) \/ Recreate(c) \/ ClearCache(c) \/ Expunge(c)
    BY <1>4 DEF Clear, Recreate, ClearCache, Expunge
  <1> QED  BY <1>1, <1>2, <1>3, <1>4 DEF Clean

\* A step of p itself leaves the settled state only by giving up the lock.
LEMMA SettledByHolder ==
  ASSUME LInv, NEW p \in Builders, Settled(p),
         StartLock(p) \/ Lock(p) \/ GiveUp(p) \/ Build(p) \/ Crash(p)
  PROVE  at'[p] # "holds"
  BY LockAssumption
  DEF LInv, TypeOK, Processes, Over, Goto, Settled, Lock, Build, StartLock, Create,
      Write, WriteFails, Read, Remove, Poll, GiveUp, EndBuild, RunCallback,
      CallbackReturns, FailBuild, Crash

\* SettledLockStays: a build that has settled stays alone and uncleaned.
THEOREM SettledLockIsSafe == Spec => SettledLockStays
  <1>1. ASSUME LInv, [Next]_vars, NEW p \in Builders, Settled(p)
        PROVE  Settled(p)' \/ at[p]' # "holds"
    <2>1. CASE UNCHANGED vars
      BY <1>1, <2>1 DEF vars, Settled, Lockfile, NotBeingCleaned
    <2>2. ASSUME NEW q \in Builders,
                 StartLock(q) \/ Lock(q) \/ GiveUp(q) \/ Build(q) \/ Crash(q)
          PROVE  Settled(p)' \/ at[p]' # "holds"
      BY <1>1, <2>2, SettledByBuild, SettledByHolder
    <2>3. ASSUME NEW c \in Cleaners, Clean(c) PROVE Settled(p)'
      BY <1>1, <2>3, SettledByClean
    <2> QED  BY <1>1, <2>1, <2>2, <2>3 DEF Next
  <1>2. LInv /\ [Next]_vars
          => [\A p \in Builders : Settled(p) => Settled(p)' \/ at[p]' # "holds"]_vars
    BY <1>1
  <1> QED  BY <1>2, LockInvariant, PTL DEF Spec, SettledLockStays

-----------------------------------------------------------------------------
(* Mutexes by name                                                         *)

\* The types of the variables of MutexMap
MutexTypes ==
  /\ locks \in [Names -> Mutexes \cup {NoOne}]
  /\ owner \in [Mutexes -> Callers \cup {NoOne}]
  /\ waiters \in [Mutexes -> SUBSET Callers]
  /\ pc \in [Callers -> {"out", "waiting", "counted", "inside", "leaving"}]
  /\ name \in [Callers -> Names \cup {NoOne}]
  /\ mutex \in [Callers -> Mutexes \cup {NoOne}]

Using(c) == pc[c] # "out"
Inside(c) == pc[c] \in {"counted", "inside", "leaving"}

\* Whoever uses a name has a reference to the mutex of its entry.
RefersToEntry == \A c \in Callers :
  IF Using(c) THEN name[c] \in Names /\ mutex[c] \in Mutexes /\ locks[name[c]] = mutex[c]
  ELSE name[c] = NoOne /\ mutex[c] = NoOne
\* No two names have the same mutex.
Distinct == \A n1, n2 \in Names : locks[n1] = locks[n2] /\ locks[n1] # NoOne => n1 = n2
Owns == \A c \in Callers : Inside(c) => owner[mutex[c]] = c
\* The count of a mutex is exact, which is what Unlock relies on.
Counted == \A c \in Callers : pc[c] \in {"waiting", "counted"} => c \in waiters[mutex[c]]
OwnerInside == \A m \in Mutexes : owner[m] # NoOne => Inside(owner[m]) /\ mutex[owner[m]] = m
CountedUse == \A m \in Mutexes : \A c \in waiters[m] : mutex[c] = m /\ pc[c] \in {"waiting", "counted"}
EntryUsed == \A n \in Names : locks[n] # NoOne => \E c \in Callers : Using(c) /\ name[c] = n

MutexInv ==
  MutexTypes /\ RefersToEntry /\ Distinct /\ Owns /\ Counted /\ CountedUse /\ OwnerInside /\ EntryUsed

\* The inductive invariant implies mutual exclusion by name.
LEMMA InvImpliesOneHolder == MutexInv => OneHolder
<1> SUFFICES ASSUME MutexInv, NEW n \in Names
             PROVE  /\ \A c, d \in Callers : Working(c, n) /\ Working(d, n) => c = d
                    /\ locks[n] # NoOne <=> \E c \in Callers : pc[c] # "out" /\ name[c] = n
  BY DEF OneHolder
<1> USE DEF MutexInv
<1>1. ASSUME NEW c \in Callers, NEW d \in Callers, Working(c, n), Working(d, n) PROVE c = d
  <2>1. mutex[c] = locks[n] /\ mutex[d] = locks[n]
    BY <1>1 DEF RefersToEntry, Using, Working
  <2>2. owner[mutex[c]] = c /\ owner[mutex[d]] = d
    BY <1>1 DEF Owns, Inside, Working
  <2> QED BY <2>1, <2>2
<1>2. locks[n] # NoOne => \E c \in Callers : pc[c] # "out" /\ name[c] = n
  BY DEF EntryUsed, Using
<1>3. ASSUME NEW c \in Callers, pc[c] # "out", name[c] = n PROVE locks[n] # NoOne
  BY <1>3, NoOneAssumption DEF RefersToEntry, Using
<1> QED BY <1>1, <1>2, <1>3

\* It holds initially.
LEMMA MutexBegins == MutexInit => MutexInv
  BY NoOneAssumption DEF MutexInit, MutexInv, MutexTypes, RefersToEntry, Distinct, Owns, Counted, CountedUse,
     OwnerInside, EntryUsed, Using, Inside

\* A caller that looks a name up is counted before anybody can delete the entry.
LEMMA LookupKeeps ==
  ASSUME MutexInv, NEW c \in Callers, NEW n \in Names, Lookup(c, n)
  PROVE  MutexInv'
<1> USE DEF MutexInv
<1>0. PICK m \in Mutexes :
        /\ IF locks[n] = NoOne THEN Unused(m) ELSE m = locks[n]
        /\ locks' = [locks EXCEPT ![n] = m]
        /\ waiters' = [waiters EXCEPT ![m] = @ \cup {c}]
        /\ mutex' = [mutex EXCEPT ![c] = m]
  BY DEF Lookup
<1>1. /\ pc[c] = "out" /\ pc' = [pc EXCEPT ![c] = "waiting"]
      /\ name' = [name EXCEPT ![c] = n] /\ owner' = owner
  BY DEF Lookup
<1>2. m # NoOne BY NoOneAssumption
<1>3. \A d \in Callers : d # c => pc'[d] = pc[d] /\ name'[d] = name[d] /\ mutex'[d] = mutex[d]
  BY <1>0, <1>1 DEF MutexTypes
<1>4. pc'[c] = "waiting" /\ name'[c] = n /\ mutex'[c] = m /\ locks'[n] = m
  BY <1>0, <1>1 DEF MutexTypes
<1>5. \A k \in Names : k # n => locks'[k] = locks[k]
  BY <1>0 DEF MutexTypes
<1>6. \A d \in Callers : Using(d) /\ name[d] = n => locks[n] = m
  BY <1>0, NoOneAssumption DEF RefersToEntry
<1>a. MutexTypes' BY <1>0, <1>1 DEF MutexTypes
<1>b. RefersToEntry'
  BY <1>1, <1>2, <1>3, <1>4, <1>5, <1>6 DEF RefersToEntry, Using
<1>c. Distinct'
  <2>1. \A k \in Names : k # n => locks[k] # m
    BY <1>0, <1>2 DEF Distinct, Unused
  <2> QED BY <1>4, <1>5, <2>1 DEF Distinct
<1>d. Owns' BY <1>1, <1>3, <1>4 DEF Owns, Inside
<1>e. /\ waiters'[m] = waiters[m] \cup {c}
      /\ \A k \in Mutexes : k # m => waiters'[k] = waiters[k]
  BY <1>0 DEF MutexTypes
<1>f. Counted'
  <2>1. ASSUME NEW d \in Callers, d # c, pc[d] \in {"waiting", "counted"}
        PROVE  d \in waiters'[mutex[d]]
    BY <2>1, <1>e DEF Counted, RefersToEntry, Using
  <2> QED BY <2>1, <1>3, <1>4, <1>e DEF Counted
<1>g. CountedUse'
  <2>1. \A k \in Mutexes : c \notin waiters[k] BY <1>1 DEF CountedUse
  <2>2. \A k \in Mutexes : waiters[k] \subseteq Callers BY DEF MutexTypes
  <2> QED BY <2>1, <2>2, <1>3, <1>4, <1>e DEF CountedUse
<1>h. OwnerInside'
  <2>1. ASSUME NEW k \in Mutexes, owner[k] # NoOne PROVE owner[k] # c /\ owner[k] \in Callers
    BY <2>1, <1>1 DEF OwnerInside, Inside, MutexTypes
  <2> QED BY <2>1, <1>1, <1>3 DEF OwnerInside, Inside
<1>i. EntryUsed'
  BY <1>1, <1>3, <1>4, <1>5 DEF EntryUsed, Using
<1> QED BY <1>a, <1>b, <1>c, <1>d, <1>f, <1>g, <1>h, <1>i

\* A free mutex gets an owner.
LEMMA AcquireKeeps ==
  ASSUME MutexInv, NEW c \in Callers, Acquire(c)
  PROVE  MutexInv'
<1> USE DEF MutexInv
<1>1. /\ pc[c] = "waiting" /\ owner[mutex[c]] = NoOne /\ mutex[c] \in Mutexes
      /\ owner' = [owner EXCEPT ![mutex[c]] = c] /\ pc' = [pc EXCEPT ![c] = "counted"]
      /\ UNCHANGED <<locks, waiters, name, mutex>>
  BY DEF Acquire, RefersToEntry, Using
<1>2. pc'[c] = "counted" /\ \A d \in Callers : d # c => pc'[d] = pc[d]
  BY <1>1 DEF MutexTypes
<1>3. owner'[mutex[c]] = c /\ \A m \in Mutexes : m # mutex[c] => owner'[m] = owner[m]
  BY <1>1 DEF MutexTypes
<1>a. MutexTypes' BY <1>1 DEF MutexTypes
<1>b. RefersToEntry' /\ Distinct' /\ Counted' /\ CountedUse'
  <2>1. \A d \in Callers : (Using(d)' <=> Using(d)) /\ (pc'[d] \in {"waiting", "counted"} <=> pc[d] \in {"waiting", "counted"})
    BY <1>1, <1>2 DEF Using
  <2>2. \A m \in Mutexes : waiters[m] \subseteq Callers BY DEF MutexTypes
  <2> QED BY <1>1, <2>1, <2>2 DEF RefersToEntry, Distinct, Counted, CountedUse
<1>c. Owns'
  <2>1. ASSUME NEW d \in Callers, d # c, Inside(d) PROVE mutex[d] # mutex[c] /\ mutex[d] \in Mutexes
    BY <2>1, <1>1, NoOneAssumption DEF Owns, RefersToEntry, Using, Inside
  <2> QED BY <2>1, <1>1, <1>2, <1>3 DEF Owns, Inside
<1>d. OwnerInside'
  <2>1. \A m \in Mutexes : owner[m] # NoOne => owner[m] # c
    BY <1>1 DEF OwnerInside, Inside
  <2>2. \A m \in Mutexes : owner[m] # NoOne => owner[m] \in Callers BY DEF MutexTypes
  <2> QED BY <2>1, <2>2, <1>1, <1>2, <1>3 DEF OwnerInside, Inside
<1>e. EntryUsed' BY <1>1, <1>2 DEF EntryUsed, Using
<1> QED BY <1>a, <1>b, <1>c, <1>d, <1>e

\* The owner is no longer counted.
LEMMA UncountKeeps ==
  ASSUME MutexInv, NEW c \in Callers, Uncount(c)
  PROVE  MutexInv'
<1> USE DEF MutexInv
<1>1. /\ pc[c] = "counted" /\ mutex[c] \in Mutexes
      /\ waiters' = [waiters EXCEPT ![mutex[c]] = @ \ {c}] /\ pc' = [pc EXCEPT ![c] = "inside"]
      /\ UNCHANGED <<locks, owner, name, mutex>>
  BY DEF Uncount, RefersToEntry, Using
<1>2. pc'[c] = "inside" /\ \A d \in Callers : d # c => pc'[d] = pc[d]
  BY <1>1 DEF MutexTypes
<1>3. /\ waiters'[mutex[c]] = waiters[mutex[c]] \ {c}
      /\ \A m \in Mutexes : m # mutex[c] => waiters'[m] = waiters[m]
  BY <1>1 DEF MutexTypes
<1>4. \A d \in Callers : (Using(d)' <=> Using(d)) /\ (Inside(d)' <=> Inside(d))
  BY <1>1, <1>2 DEF Using, Inside
<1>5. \A m \in Mutexes : /\ waiters[m] \subseteq Callers /\ c \notin waiters'[m]
                         /\ owner[m] # NoOne => owner[m] \in Callers
  BY <1>3, <1>1 DEF MutexTypes, CountedUse
<1>a. MutexTypes' BY <1>1 DEF MutexTypes
<1>b. RefersToEntry' /\ Distinct' /\ Owns' /\ OwnerInside' /\ EntryUsed'
  BY <1>1, <1>4, <1>5 DEF RefersToEntry, Distinct, Owns, OwnerInside, EntryUsed
<1>c. Counted'
  <2>1. ASSUME NEW d \in Callers, d # c, pc[d] \in {"waiting", "counted"} PROVE d \in waiters'[mutex[d]]
    BY <2>1, <1>3 DEF Counted, RefersToEntry, Using
  <2> QED BY <2>1, <1>1, <1>2 DEF Counted
<1>d. CountedUse'
  <2>1. ASSUME NEW m \in Mutexes, NEW d \in waiters'[m] PROVE mutex[d] = m /\ pc'[d] \in {"waiting", "counted"}
    BY <2>1, <1>1, <1>2, <1>3, <1>5 DEF CountedUse
  <2> QED BY <2>1, <1>1 DEF CountedUse
<1> QED BY <1>a, <1>b, <1>c, <1>d

\* The work itself touches no mutex.
LEMMA WorkKeeps ==
  ASSUME MutexInv, NEW c \in Callers, Work(c)
  PROVE  MutexInv'
<1> USE DEF MutexInv
<1>1. /\ pc[c] = "inside" /\ pc' = [pc EXCEPT ![c] = "leaving"]
      /\ UNCHANGED <<locks, owner, waiters, name, mutex>>
  BY DEF Work
<1>2. \A d \in Callers : /\ Using(d)' <=> Using(d)
                         /\ Inside(d)' <=> Inside(d)
                         /\ pc'[d] \in {"waiting", "counted"} <=> pc[d] \in {"waiting", "counted"}
  BY <1>1 DEF Using, Inside, MutexTypes
<1>3. \A m \in Mutexes : waiters[m] \subseteq Callers /\ (owner[m] # NoOne => owner[m] \in Callers)
  BY DEF MutexTypes
<1>a. MutexTypes' BY <1>1 DEF MutexTypes
<1>b. RefersToEntry' /\ Distinct' /\ Owns' /\ Counted' /\ EntryUsed'
  BY <1>1, <1>2 DEF RefersToEntry, Distinct, Owns, Counted, EntryUsed
<1>c. CountedUse' /\ OwnerInside'
  BY <1>1, <1>2, <1>3 DEF CountedUse, OwnerInside
<1> QED BY <1>a, <1>b, <1>c

\* The entry goes only if no other caller has a reference to its mutex.
LEMMA UnlockKeeps ==
  ASSUME MutexInv, NEW c \in Callers, Unlock(c)
  PROVE  MutexInv'
<1> USE DEF MutexInv
<1> DEFINE n == name[c]
           m == mutex[c]
<1>1. pc[c] = "leaving" /\ n \in Names /\ m \in Mutexes /\ locks[n] = m /\ m # NoOne
  BY NoOneAssumption DEF Unlock, RefersToEntry, Using
<1>2. /\ locks' = [locks EXCEPT ![n] = IF waiters[m] = {} THEN NoOne ELSE m]
      /\ owner' = [owner EXCEPT ![m] = NoOne]
      /\ pc' = [pc EXCEPT ![c] = "out"] /\ name' = [name EXCEPT ![c] = NoOne]
      /\ mutex' = [mutex EXCEPT ![c] = NoOne] /\ waiters' = waiters
  BY <1>1 DEF Unlock
<1> HIDE DEF n, m
<1>3. \A d \in Callers : d # c => pc'[d] = pc[d] /\ name'[d] = name[d] /\ mutex'[d] = mutex[d]
  BY <1>2 DEF MutexTypes
<1>4. pc'[c] = "out" /\ name'[c] = NoOne /\ mutex'[c] = NoOne
  BY <1>2 DEF MutexTypes
<1>5. /\ locks'[n] = IF waiters[m] = {} THEN NoOne ELSE m
      /\ \A k \in Names : k # n => locks'[k] = locks[k]
  BY <1>1, <1>2 DEF MutexTypes
<1>6. owner'[m] = NoOne /\ \A k \in Mutexes : k # m => owner'[k] = owner[k]
  BY <1>1, <1>2 DEF MutexTypes
<1>7. \A d \in Callers : d # c /\ Using(d) /\ mutex[d] = m => pc[d] = "waiting" /\ d \in waiters[m]
  <2>1. owner[m] = c BY <1>1 DEF Owns, Inside, m
  <2> QED BY <2>1, <1>1 DEF Owns, Counted, Using, Inside, MutexTypes
<1>8. \A d \in Callers : Using(d) /\ name[d] = n => mutex[d] = m
  BY <1>1 DEF RefersToEntry
<1>a. MutexTypes' BY <1>1, <1>2 DEF MutexTypes
<1>b. RefersToEntry'
  <2>1. ASSUME NEW d \in Callers, d # c, Using(d) PROVE locks'[name[d]] = mutex[d]
    <3>1. CASE name[d] = n BY <3>1, <2>1, <1>7, <1>8, <1>5
    <3>2. CASE name[d] # n BY <3>2, <2>1, <1>5 DEF RefersToEntry
    <3> QED BY <3>1, <3>2
  <2> QED BY <2>1, <1>3, <1>4 DEF RefersToEntry, Using
<1>c. Distinct' BY <1>1, <1>5 DEF Distinct
<1>d. Owns'
  <2>1. ASSUME NEW d \in Callers, d # c, Inside(d) PROVE mutex[d] # m /\ mutex[d] \in Mutexes
    BY <2>1, <1>7 DEF Inside, Using, RefersToEntry
  <2> QED BY <2>1, <1>3, <1>4, <1>6 DEF Owns, Inside
<1>e. Counted' BY <1>2, <1>3, <1>4 DEF Counted
<1>f. CountedUse'
  <2>1. \A k \in Mutexes : c \notin waiters[k] /\ waiters[k] \subseteq Callers
    BY <1>1 DEF CountedUse, MutexTypes
  <2> QED BY <2>1, <1>2, <1>3 DEF CountedUse
<1>g. OwnerInside'
  <2>1. \A k \in Mutexes : k # m /\ owner[k] # NoOne => owner[k] # c /\ owner[k] \in Callers
    BY DEF OwnerInside, MutexTypes, m
  <2> QED BY <2>1, <1>3, <1>6 DEF OwnerInside, Inside
<1>h. EntryUsed'
  <2>1. ASSUME waiters[m] # {} PROVE \E d \in Callers : d # c /\ Using(d)' /\ name'[d] = n
    <3>1. PICK d \in waiters[m] : TRUE BY <2>1
    <3>2. d \in Callers /\ mutex[d] = m /\ pc[d] \in {"waiting", "counted"} /\ d # c
      BY <3>1, <1>1 DEF CountedUse, MutexTypes
    <3>3. name[d] = n
      BY <3>2, <1>1 DEF RefersToEntry, Using, Distinct
    <3> QED BY <3>2, <3>3, <1>3 DEF Using
  <2>2. ASSUME NEW k \in Names, k # n, locks'[k] # NoOne PROVE \E d \in Callers : Using(d)' /\ name'[d] = k
    <3>1. PICK d \in Callers : Using(d) /\ name[d] = k BY <2>2, <1>5 DEF EntryUsed
    <3>2. d # c BY <3>1, <2>2 DEF n
    <3> QED BY <3>1, <3>2, <1>3 DEF Using
  <2> QED BY <2>1, <2>2, <1>5 DEF EntryUsed
<1> QED BY <1>a, <1>b, <1>c, <1>d, <1>e, <1>f, <1>g, <1>h

\* Two callers never work on the same name, and a name has an entry exactly while
\* somebody uses it, for any callers, names and mutexes.
THEOREM MutexMapIsExclusive == MutexSpec => []OneHolder
<1>1. MutexInv /\ [MutexNext]_mutexVars => MutexInv'
  <2> SUFFICES ASSUME MutexInv, [MutexNext]_mutexVars PROVE MutexInv'
    OBVIOUS
  <2>1. CASE UNCHANGED mutexVars
    BY <2>1 DEF MutexInv, mutexVars, MutexTypes, RefersToEntry, Distinct, Owns, Counted, CountedUse, OwnerInside,
       EntryUsed, Using, Inside
  <2>2. CASE MutexNext
    BY <2>2, LookupKeeps, AcquireKeeps, UncountKeeps, WorkKeeps, UnlockKeeps DEF MutexNext
  <2> QED BY <2>1, <2>2
<1> QED BY <1>1, MutexBegins, InvImpliesOneHolder, PTL DEF MutexSpec

-----------------------------------------------------------------------------
(* Traces                                                                  *)

Tables == {"builds", "spans"}
Sides == {"local", "remote"}
TraceFiles == [table : Tables, date : Nat, id : TraceIds]
Deletions == [id : TraceIds, table : Tables, side : Sides]

BuildJobs == [kind : {"build"}, id : TraceIds, start : Nat]
WriteJobs == [kind : {"write"}, id : TraceIds, table : Tables, left : SUBSET Sides, ok : BOOLEAN]
PruneJobs == [kind : {"prune"}, cutoff : Nat, todo : SUBSET TraceIds, seen : SUBSET TraceIds,
              at : SUBSET Deletions, ok : BOOLEAN]
PullJobs == [kind : {"pull"}, todo : SUBSET TraceFiles, get : SUBSET TraceFiles]

TraceTypes ==
  /\ now \in Nat /\ faults \in Nat /\ on \in [Commands -> Machines]
  /\ DOMAIN job = Commands
  /\ \A p \in Commands : job[p] \in {Idle} \cup BuildJobs \cup WriteJobs \cup PruneJobs \cup PullJobs
  /\ local \in [Machines -> SUBSET TraceFiles] /\ remote \in SUBSET TraceFiles
  /\ \A m \in Machines : IsFiniteSet(local[m])

\* Every trace has been finalized,
RowsMade ==
  /\ DOMAIN traces \subseteq TraceIds
  /\ \A id \in DOMAIN traces :
       \E start \in Nat, completions \in Completions : traces[id] = Finalize(start, completions)

\* and its files are kept under its date.
Dated(f) == f.id \in DOMAIN traces /\ f.date = dateStr(traces[f.id].start)
FilesDated == (\A m \in Machines : \A f \in local[m] : Dated(f)) /\ \A f \in remote : Dated(f)

\* No two commands write the trace of one build, and what is being built has none.
Collects(p) == Does(p, "build") \/ Does(p, "write")
OneWriter ==
  /\ \A p \in Commands : Does(p, "build") => job[p].id \notin DOMAIN traces
  /\ \A p \in Commands : Does(p, "write") => job[p].id \in DOMAIN traces
  /\ \A p, q \in Commands : Collects(p) /\ Collects(q) /\ job[p].id = job[q].id => p = q

\* What a prune deletes is old.
IsOld(id, cutoff) == id \in DOMAIN traces /\ traces[id].start < cutoff
PrunesOld(p) ==
  Does(p, "prune") =>
    /\ \A id \in job[p].todo : IsOld(id, job[p].cutoff)
    /\ \A d \in job[p].at : IsOld(d.id, job[p].cutoff) /\ \A e \in job[p].at : e = d

\* A row that a prune has to delete is still to do, or gone: from the machine, unless
\* a pull after a failed call fetches it again, and then from the remote store.
IsRow(f, id) == f.table = "builds" /\ f.id = id
GoneHere(p, id) == faults = 0 => \A f \in local[on[p]] : ~IsRow(f, id)
GoneRemotely(id) == \A f \in remote : ~IsRow(f, id)
Pruned(p, id) ==
  \/ id \in job[p].todo
  \/ Deletion(id, "builds", "local") \in job[p].at
  \/ GoneHere(p, id) /\ Deletion(id, "builds", "remote") \in job[p].at
  \/ GoneHere(p, id) /\ GoneRemotely(id)
SeenIsPruned(p) ==
  Does(p, "prune") => \A id \in job[p].seen :
    /\ id \in DOMAIN traces /\ \A q \in Commands : Collects(q) => job[q].id # id
    /\ job[p].ok => Pruned(p, id)

\* What is still to be stored remotely is neither there nor in a list of keys that was
\* read from there.
Ahead(p, f) ==
  \/ Does(p, "build") /\ f.id = job[p].id
  \/ /\ Does(p, "write") /\ f.id = job[p].id
     /\ \/ f.table = job[p].table /\ "remote" \in job[p].left
        \/ job[p].table = "builds" /\ f.table = "spans"
NotAhead(f) == f.id \in DOMAIN traces /\ \A q \in Commands : ~Ahead(q, f)
PullsOK(p) ==
  Does(p, "pull") =>
    /\ \A f \in job[p].todo \cup job[p].get : NotAhead(f)
    /\ faults = 0 => job[p].get \cap remote = {}

TraceInv ==
  /\ TraceTypes /\ RowsMade /\ FilesDated /\ OneWriter
  /\ \A p \in Commands : PrunesOld(p) /\ SeenIsPruned(p) /\ PullsOK(p)
  /\ \A f \in remote : NotAhead(f)

\* What a turn does to the jobs
LEMMA TurnTakes ==
  ASSUME DOMAIN job = Commands, NEW p \in Commands, NEW j, Turn(p, j)
  PROVE  /\ DOMAIN job' = Commands /\ job'[p] = j
         /\ \A q \in Commands : q # p => job'[q] = job[q]
  BY DEF Turn

\* What the kind of a job says of its form
LEMMA Forms ==
  ASSUME TraceTypes, NEW p \in Commands
  PROVE  /\ Does(p, "idle") => job[p] = Idle
         /\ Does(p, "build") => job[p] \in BuildJobs
         /\ Does(p, "write") => job[p] \in WriteJobs
         /\ Does(p, "prune") => job[p] \in PruneJobs
         /\ Does(p, "pull") => job[p] \in PullJobs
  BY DEF TraceTypes, Does, Idle, BuildJobs, WriteJobs, PruneJobs, PullJobs

\* One more or less file leaves the files of a machine finite.
LEMMA StillFinite ==
  ASSUME TraceTypes, NEW m \in Machines, NEW S \in SUBSET TraceFiles,
         local' = [local EXCEPT ![m] = S], NEW f, S \subseteq local[m] \cup {f}
  PROVE  local' \in [Machines -> SUBSET TraceFiles] /\ \A n \in Machines : IsFiniteSet(local'[n])
<1>1. IsFiniteSet(local[m] \cup {f})
  BY FS_AddElement DEF TraceTypes
<1>2. IsFiniteSet(S)
  BY <1>1, FS_Subset
<1>. QED  BY <1>2 DEF TraceTypes

\* The file of a trace, as its writer names it
LEMMA WhatIsPut ==
  ASSUME TraceTypes, RowsMade, OneWriter, NEW p \in Commands, Does(p, "write")
  PROVE  /\ FileOf(job[p]) \in TraceFiles /\ Dated(FileOf(job[p]))
         /\ FileOf(job[p]).table = job[p].table /\ FileOf(job[p]).id = job[p].id
<1>1. job[p] \in WriteJobs /\ job[p].id \in DOMAIN traces
  BY Forms DEF OneWriter
<1>2. PICK start \in Nat, completions \in Completions : traces[job[p].id] = Finalize(start, completions)
  BY <1>1 DEF RowsMade
<1>3. traces[job[p].id].start \in Nat
  BY <1>2 DEF Finalize
<1>4. dateStr(traces[job[p].id].start) \in Nat
  BY <1>3 DEF dateStr
<1>. QED  BY <1>1, <1>4 DEF FileOf, File, TraceFiles, WriteJobs, Dated

\* Each step keeps the types.
LEMMA TraceTypesKept ==
  ASSUME TraceInv, TraceNext
  PROVE  TraceTypes'
<1>. USE DEF TraceInv, world, files
<1>1. DOMAIN job = Commands
  BY DEF TraceTypes
<1>2. CASE Tick
  BY <1>2 DEF Tick, TraceTypes
<1>3. ASSUME NEW p \in Commands, NEW id \in TraceIds, StartBuild(p, id)  PROVE TraceTypes'
  <2>1. [kind |-> "build", id |-> id, start |-> now] \in BuildJobs
    BY DEF TraceTypes, BuildJobs
  <2>. QED  BY <1>1, <1>3, <2>1, TurnTakes DEF StartBuild, TraceTypes
<1>4. ASSUME NEW p \in Commands, FinalizeTrace(p)  PROVE TraceTypes'
  <2>1. Writes(job[p].id, "builds") \in WriteJobs
    BY <1>4, Forms DEF FinalizeTrace, Writes, WriteJobs, BuildJobs, Tables, Sides
  <2>. QED  BY <1>1, <1>4, <2>1, TurnTakes DEF FinalizeTrace, TraceTypes
<1>5. ASSUME NEW p \in Commands, NEW side \in Sides, Put(p, side)  PROVE TraceTypes'
  <2>1. job[p] \in WriteJobs /\ FileOf(job[p]) \in TraceFiles /\ on[p] \in Machines
    BY <1>5, Forms, WhatIsPut DEF Put, TraceTypes
  <2>2. /\ [job[p] EXCEPT !.left = @ \ {side}] \in WriteJobs
        /\ [job[p] EXCEPT !.left = @ \ {side}, !.ok = FALSE] \in WriteJobs
    BY <2>1 DEF WriteJobs
  <2>3. /\ DOMAIN job' = Commands
        /\ \A q \in Commands : job'[q] \in {Idle} \cup BuildJobs \cup WriteJobs \cup PruneJobs \cup PullJobs
    BY <1>1, <1>5, <2>2, TurnTakes DEF Put, TraceTypes
  <2>4. faults' \in Nat
    BY <1>5 DEF Put, Fault, TraceTypes
  <2>5. remote' \in SUBSET TraceFiles
    BY <1>5, <2>1 DEF Put, TraceTypes
  <2>6. local' = local \/ local' = [local EXCEPT ![on[p]] = local[on[p]] \cup {FileOf(job[p])}]
    BY <1>5, <2>1 DEF Put, TraceTypes
  <2>7. local' \in [Machines -> SUBSET TraceFiles] /\ \A m \in Machines : IsFiniteSet(local'[m])
    <3>1. CASE local' = local
      BY <3>1 DEF TraceTypes
    <3>2. CASE local' = [local EXCEPT ![on[p]] = local[on[p]] \cup {FileOf(job[p])}]
      <4>1. local[on[p]] \cup {FileOf(job[p])} \in SUBSET TraceFiles
        BY <2>1 DEF TraceTypes
      <4>. QED  BY <2>1, <3>2, <4>1, StillFinite
    <3>. QED  BY <2>6, <3>1, <3>2
  <2>. QED  BY <1>5, <2>3, <2>4, <2>5, <2>7 DEF Put, TraceTypes
<1>6. ASSUME NEW p \in Commands, NextFile(p)  PROVE TraceTypes'
  <2>1. Writes(job[p].id, "spans") \in WriteJobs
    BY <1>6, Forms DEF NextFile, Writes, WriteJobs, Tables, Sides
  <2>. QED  BY <1>1, <1>6, <2>1, TurnTakes DEF NextFile, TraceTypes
<1>7. ASSUME NEW p \in Commands, StartPrune(p)  PROVE TraceTypes'
  <2>1. PICK cutoff \in 1 .. now :
          LET old == {id \in Rows(on[p]) : traces[id].start < cutoff}
          IN  Turn(p, [kind |-> "prune", cutoff |-> cutoff, todo |-> old, seen |-> old \ Written,
                       at |-> {}, ok |-> TRUE])
    BY <1>7 DEF StartPrune
  <2>2. Rows(on[p]) \subseteq TraceIds
    BY DEF Rows, TraceTypes, TraceFiles
  <2>3. ASSUME NEW old \in SUBSET TraceIds
        PROVE  [kind |-> "prune", cutoff |-> cutoff, todo |-> old, seen |-> old \ Written,
                at |-> {}, ok |-> TRUE] \in PruneJobs
    BY DEF PruneJobs, TraceTypes
  <2>. QED  BY <1>1, <1>7, <2>1, <2>2, <2>3, TurnTakes DEF StartPrune, TraceTypes
<1>8. ASSUME NEW p \in Commands, EndPrune(p) \/ EndPull(p) \/ Killed(p)  PROVE TraceTypes'
  <2>1. Turn(p, Idle) /\ UNCHANGED <<now, on, traces, local, remote>> /\ faults' \in Nat
    BY <1>8 DEF EndPrune, EndPull, Killed, Fault, TraceTypes
  <2>. QED  BY <1>1, <2>1, TurnTakes DEF TraceTypes
<1>9. ASSUME NEW p \in Commands, NEW id, PruneTrace(p, id)  PROVE TraceTypes'
  <2>1. job[p] \in PruneJobs /\ id \in job[p].todo
    BY <1>9, Forms DEF PruneTrace
  <2>2. id \in TraceIds /\ {Deletion(id, "builds", "local")} \in SUBSET Deletions
    BY <2>1 DEF PruneJobs, Deletion, Deletions, Tables, Sides
  <2>3. [job[p] EXCEPT !.todo = @ \ {id}, !.at = {Deletion(id, "builds", "local")}] \in PruneJobs
    BY <2>1, <2>2 DEF PruneJobs
  <2>. QED  BY <1>1, <1>9, <2>3, TurnTakes DEF PruneTrace, TraceTypes
<1>10. ASSUME NEW p \in Commands, NEW d \in job[p].at, Delete(p, d)  PROVE TraceTypes'
  <2>1. job[p] \in PruneJobs /\ d \in Deletions /\ on[p] \in Machines
    BY <1>10, Forms DEF Delete, PruneJobs, TraceTypes
  <2>2. ASSUME NEW ds \in SUBSET Deletions
        PROVE  [job[p] EXCEPT !.at = ds] \in PruneJobs /\ [job[p] EXCEPT !.at = ds, !.ok = FALSE] \in PruneJobs
    BY <2>1 DEF PruneJobs
  <2>3. AfterDeletion(d) \in SUBSET Deletions /\ {Deletion(d.id, d.table, "remote")} \in SUBSET Deletions
    BY <2>1 DEF AfterDeletion, Deletion, Deletions, Tables, Sides
  <2>8. PICK j \in PruneJobs : Turn(p, j)
    <3>1. PICK ds \in SUBSET Deletions : Turn(p, [job[p] EXCEPT !.at = ds]) \/ Turn(p, [job[p] EXCEPT !.at = ds, !.ok = FALSE])
      BY <1>10, <2>3 DEF Delete
    <3>. QED  BY <2>2, <3>1
  <2>4. /\ DOMAIN job' = Commands
        /\ \A q \in Commands : job'[q] \in {Idle} \cup BuildJobs \cup WriteJobs \cup PruneJobs \cup PullJobs
    BY <1>1, <2>8, TurnTakes DEF TraceTypes
  <2>5. faults' \in Nat /\ remote' \in SUBSET TraceFiles
    BY <1>10 DEF Delete, Fault, TraceTypes
  <2>6. local' = local \/ local' = [local EXCEPT ![on[p]] = local[on[p]] \ {FileAt(d)}]
    BY <1>10, <2>1 DEF Delete, TraceTypes
  <2>7. local' \in [Machines -> SUBSET TraceFiles] /\ \A m \in Machines : IsFiniteSet(local'[m])
    <3>1. CASE local' = local
      BY <3>1 DEF TraceTypes
    <3>2. CASE local' = [local EXCEPT ![on[p]] = local[on[p]] \ {FileAt(d)}]
      <4>1. local[on[p]] \ {FileAt(d)} \in SUBSET TraceFiles
        BY <2>1 DEF TraceTypes
      <4>. QED  BY <2>1, <3>2, <4>1, StillFinite
    <3>. QED  BY <2>6, <3>1, <3>2
  <2>. QED  BY <1>10, <2>4, <2>5, <2>7 DEF Delete, TraceTypes
<1>11. ASSUME NEW p \in Commands, Pull(p)  PROVE TraceTypes'
  <2>1. [kind |-> "pull", todo |-> remote, get |-> {}] \in PullJobs
    BY DEF PullJobs, TraceTypes
  <2>. QED  BY <1>1, <1>11, <2>1, TurnTakes DEF Pull, TraceTypes
<1>12. ASSUME NEW p \in Commands, NEW f, PullCheck(p, f)  PROVE TraceTypes'
  <2>1. job[p] \in PullJobs /\ f \in job[p].todo
    BY <1>12, Forms DEF PullCheck
  <2>2. PICK j : Turn(p, j) /\ \/ j = [job[p] EXCEPT !.todo = @ \ {f}]
                               \/ j = [[job[p] EXCEPT !.todo = @ \ {f}] EXCEPT !.get = @ \cup {f}]
    BY <1>12 DEF PullCheck
  <2>3. j \in PullJobs
    <3>1. f \in TraceFiles
      BY <2>1 DEF PullJobs
    <3>2. [job[p] EXCEPT !.todo = @ \ {f}] \in PullJobs
      BY <2>1 DEF PullJobs
    <3>3. ASSUME NEW k \in PullJobs  PROVE [k EXCEPT !.get = @ \cup {f}] \in PullJobs
      BY <3>1 DEF PullJobs
    <3>. QED  BY <2>2, <3>2, <3>3
  <2>4. faults' \in Nat /\ UNCHANGED <<now, on, local, remote>>
    BY <1>12 DEF PullCheck, Fault, TraceTypes
  <2>. QED  BY <1>1, <2>2, <2>3, <2>4, TurnTakes DEF TraceTypes
<1>13. ASSUME NEW p \in Commands, NEW f, PullGet(p, f)  PROVE TraceTypes'
  <2>1. job[p] \in PullJobs /\ f \in TraceFiles /\ on[p] \in Machines
    BY <1>13, Forms DEF PullGet, PullJobs, TraceTypes
  <2>2. [job[p] EXCEPT !.get = @ \ {f}] \in PullJobs
    BY <2>1 DEF PullJobs
  <2>3. /\ DOMAIN job' = Commands
        /\ \A q \in Commands : job'[q] \in {Idle} \cup BuildJobs \cup WriteJobs \cup PruneJobs \cup PullJobs
    BY <1>1, <1>13, <2>2, TurnTakes DEF PullGet, TraceTypes
  <2>4. local' = local \/ local' = [local EXCEPT ![on[p]] = local[on[p]] \cup ({f} \cap remote)]
    BY <1>13, <2>1 DEF PullGet, TraceTypes
  <2>5. local' \in [Machines -> SUBSET TraceFiles] /\ \A m \in Machines : IsFiniteSet(local'[m])
    <3>1. CASE local' = local
      BY <3>1 DEF TraceTypes
    <3>2. CASE local' = [local EXCEPT ![on[p]] = local[on[p]] \cup ({f} \cap remote)]
      <4>1. local[on[p]] \cup ({f} \cap remote) \in SUBSET TraceFiles
        BY <2>1 DEF TraceTypes
      <4>. QED  BY <2>1, <3>2, <4>1, StillFinite
    <3>. QED  BY <2>4, <3>1, <3>2
  <2>. QED  BY <1>13, <2>3, <2>5 DEF PullGet, Fault, TraceTypes
<1>. QED  BY <1>2, <1>3, <1>4, <1>5, <1>6, <1>7, <1>8, <1>9, <1>10, <1>11, <1>12, <1>13 DEF TraceNext, Sides

\* What has been written of traces is unchanged.
Grown == \A id \in DOMAIN traces : id \in DOMAIN traces' /\ traces'[id] = traces[id]

\* A trace is there for good.
LEMMA TracesGrow ==
  ASSUME TraceInv, TraceNext
  PROVE  Grown /\ RowsMade'
<1>1. ASSUME NEW p \in Commands, FinalizeTrace(p)  PROVE Grown /\ RowsMade'
  <2>1. job[p] \in BuildJobs /\ job[p].id \notin DOMAIN traces
    BY <1>1, Forms DEF FinalizeTrace, TraceInv, OneWriter
  <2>2. PICK completions \in Completions :
          traces' = [i \in DOMAIN traces \cup {job[p].id} |->
                       IF i = job[p].id THEN Finalize(job[p].start, completions) ELSE traces[i]]
    BY <1>1 DEF FinalizeTrace
  <2>3. job[p].id \in TraceIds /\ job[p].start \in Nat
    BY <2>1 DEF BuildJobs
  <2>4. \A i \in DOMAIN traces' :
          \E start \in Nat, c \in Completions : traces'[i] = Finalize(start, c)
    BY <2>2, <2>3 DEF TraceInv, RowsMade
  <2>. QED  BY <2>1, <2>2, <2>3, <2>4 DEF Grown, TraceInv, RowsMade
<1>2. CASE traces' = traces
  BY <1>2 DEF Grown, TraceInv, RowsMade
<1>3. (\E p \in Commands : FinalizeTrace(p)) \/ traces' = traces
  <2>1. ASSUME NEW p \in Commands, NEW x, StartBuild(p, x) \/ Put(p, x) \/ PruneTrace(p, x)  PROVE traces' = traces
    BY <2>1 DEF StartBuild, Put, PruneTrace
  <2>2. ASSUME NEW p \in Commands, NEW x, Delete(p, x) \/ PullCheck(p, x) \/ PullGet(p, x)  PROVE traces' = traces
    BY <2>2 DEF Delete, PullCheck, PullGet
  <2>3. ASSUME NEW p \in Commands, NextFile(p) \/ StartPrune(p) \/ EndPrune(p) \/ Pull(p) \/ EndPull(p) \/ Killed(p)
        PROVE  traces' = traces
    BY <2>3 DEF NextFile, StartPrune, EndPrune, Pull, EndPull, Killed
  <2>. QED  BY <2>1, <2>2, <2>3 DEF TraceNext, Tick
<1>. QED  BY <1>1, <1>2, <1>3

\* Files are put and copied under the date of their trace.
LEMMA FilesDatedKept ==
  ASSUME TraceInv, TraceNext
  PROVE  FilesDated'
<1>1. ASSUME NEW f, Dated(f)  PROVE Dated(f)'
  BY <1>1, TracesGrow DEF Grown, Dated
<1>2. ASSUME NEW p \in Commands, NEW side, Put(p, side)  PROVE FilesDated'
  <2>1. Dated(FileOf(job[p])) /\ on[p] \in Machines
    BY <1>2, WhatIsPut DEF Put, TraceInv, TraceTypes
  <2>2. /\ \A f \in remote' : f \in remote \/ f = FileOf(job[p])
        /\ \A m \in Machines : \A f \in local'[m] : f \in local[m] \/ f = FileOf(job[p])
    BY <1>2, <2>1 DEF Put, TraceInv, TraceTypes, files
  <2>. QED  BY <1>1, <2>1, <2>2 DEF FilesDated, TraceInv
<1>3. ASSUME NEW p \in Commands, NEW d \in job[p].at, Delete(p, d)  PROVE FilesDated'
  <2>1. on[p] \in Machines
    BY DEF TraceInv, TraceTypes
  <2>2. remote' \subseteq remote /\ \A m \in Machines : local'[m] \subseteq local[m]
    BY <1>3, <2>1 DEF Delete, TraceInv, TraceTypes, files
  <2>. QED  BY <1>1, <2>2 DEF FilesDated, TraceInv
<1>4. ASSUME NEW p \in Commands, NEW f, PullGet(p, f)  PROVE FilesDated'
  <2>1. on[p] \in Machines
    BY DEF TraceInv, TraceTypes
  <2>2. remote' = remote /\ \A m \in Machines : local'[m] \subseteq local[m] \cup remote
    BY <1>4, <2>1 DEF PullGet, TraceInv, TraceTypes
  <2>. QED  BY <1>1, <2>2 DEF FilesDated, TraceInv
<1>5. CASE UNCHANGED files
  BY <1>1, <1>5 DEF files, FilesDated, TraceInv
<1>6. \/ UNCHANGED files
      \/ \E p \in Commands : (\E side \in Sides : Put(p, side)) \/ (\E d \in job[p].at : Delete(p, d)) \/ \E f : PullGet(p, f)
  BY DEF TraceNext, Tick, StartBuild, FinalizeTrace, NextFile, StartPrune, EndPrune, Pull, EndPull, Killed, PruneTrace,
         PullCheck, Sides, files
<1>. QED  BY <1>2, <1>3, <1>4, <1>5, <1>6

\* What an upload leaves of its job
LEMMA PutFields ==
  ASSUME TraceInv, NEW p \in Commands, NEW side, Put(p, side)
  PROVE  /\ \A q \in Commands : q # p => job'[q] = job[q]
         /\ job[p].kind = "write" /\ job'[p].kind = "write" /\ job'[p].id = job[p].id
         /\ job'[p].table = job[p].table /\ job'[p].left = job[p].left \ {side}
<1>1. job[p] \in WriteJobs /\ DOMAIN job = Commands
  BY Forms DEF Put, TraceInv, TraceTypes
<1>2. PICK j : Turn(p, j) /\ \/ j = [job[p] EXCEPT !.left = @ \ {side}]
                             \/ j = [job[p] EXCEPT !.left = @ \ {side}, !.ok = FALSE]
  BY DEF Put
<1>3. j.kind = "write" /\ j.id = job[p].id /\ j.table = job[p].table /\ j.left = job[p].left \ {side}
  BY <1>1, <1>2 DEF WriteJobs
<1>. QED  BY <1>1, <1>2, <1>3, TurnTakes DEF WriteJobs

\* What a prune that goes on to the next trace leaves of its job
LEMMA PruneTraceFields ==
  ASSUME TraceInv, NEW p \in Commands, NEW id, PruneTrace(p, id)
  PROVE  /\ \A q \in Commands : q # p => job'[q] = job[q]
         /\ job[p] \in PruneJobs /\ job'[p].kind = "prune" /\ job'[p].cutoff = job[p].cutoff
         /\ job'[p].seen = job[p].seen /\ job'[p].ok = job[p].ok
         /\ job'[p].todo = job[p].todo \ {id} /\ job'[p].at = {Deletion(id, "builds", "local")}
<1>1. job[p] \in PruneJobs /\ DOMAIN job = Commands
  BY Forms DEF PruneTrace, TraceInv, TraceTypes
<1>2. Turn(p, [job[p] EXCEPT !.todo = @ \ {id}, !.at = {Deletion(id, "builds", "local")}])
  BY DEF PruneTrace
<1>3. job'[p] = [job[p] EXCEPT !.todo = @ \ {id}, !.at = {Deletion(id, "builds", "local")}]
  BY <1>1, <1>2, TurnTakes
<1>4. \A q \in Commands : q # p => job'[q] = job[q]
  BY <1>1, <1>2, TurnTakes
<1>. QED  BY <1>1, <1>3, <1>4 DEF PruneJobs

\* What a deletion leaves of its job and of the files
LEMMA DeleteFields ==
  ASSUME TraceInv, NEW p \in Commands, NEW d \in job[p].at, Delete(p, d)
  PROVE  /\ \A q \in Commands : q # p => job'[q] = job[q]
         /\ job[p] \in PruneJobs /\ d \in Deletions /\ job'[p].kind = "prune" /\ job'[p].cutoff = job[p].cutoff
         /\ job'[p].seen = job[p].seen /\ job'[p].todo = job[p].todo
         /\ \/ /\ d.side = "local" /\ local' = [local EXCEPT ![on[p]] = @ \ {FileAt(d)}] /\ remote' = remote
               /\ job'[p].at = {Deletion(d.id, d.table, "remote")} /\ job'[p].ok = job[p].ok
            \/ /\ d.side = "remote" /\ remote' = remote \ {FileAt(d)} /\ local' = local
               /\ job'[p].at = AfterDeletion(d) /\ job'[p].ok = job[p].ok
            \/ local' = local /\ remote' = remote /\ job'[p].at = AfterDeletion(d) /\ job'[p].ok = FALSE
<1>1. job[p] \in PruneJobs /\ d \in Deletions /\ DOMAIN job = Commands
  BY Forms DEF Delete, TraceInv, TraceTypes, PruneJobs
<1>2. ASSUME NEW ds, Turn(p, [job[p] EXCEPT !.at = ds])
      PROVE  /\ \A q \in Commands : q # p => job'[q] = job[q]
             /\ job'[p].kind = "prune" /\ job'[p].cutoff = job[p].cutoff
             /\ job'[p].seen = job[p].seen /\ job'[p].todo = job[p].todo /\ job'[p].at = ds /\ job'[p].ok = job[p].ok
  <2>1. job'[p] = [job[p] EXCEPT !.at = ds] /\ \A q \in Commands : q # p => job'[q] = job[q]
    BY <1>1, <1>2, TurnTakes
  <2>. QED  BY <1>1, <2>1 DEF PruneJobs
<1>3. ASSUME NEW ds, Turn(p, [job[p] EXCEPT !.at = ds, !.ok = FALSE])
      PROVE  /\ \A q \in Commands : q # p => job'[q] = job[q]
             /\ job'[p].kind = "prune" /\ job'[p].cutoff = job[p].cutoff
             /\ job'[p].seen = job[p].seen /\ job'[p].todo = job[p].todo /\ job'[p].at = ds /\ job'[p].ok = FALSE
  <2>1. job'[p] = [job[p] EXCEPT !.at = ds, !.ok = FALSE] /\ \A q \in Commands : q # p => job'[q] = job[q]
    BY <1>1, <1>3, TurnTakes
  <2>. QED  BY <1>1, <2>1 DEF PruneJobs
<1>4. CASE d.side = "local" /\ local' = [local EXCEPT ![on[p]] = @ \ {FileAt(d)}] /\ remote' = remote
             /\ Turn(p, [job[p] EXCEPT !.at = {Deletion(d.id, d.table, "remote")}])
  BY <1>1, <1>2, <1>4
<1>5. CASE d.side = "remote" /\ remote' = remote \ {FileAt(d)} /\ local' = local
             /\ Turn(p, [job[p] EXCEPT !.at = AfterDeletion(d)])
  BY <1>1, <1>2, <1>5
<1>6. CASE local' = local /\ remote' = remote /\ Turn(p, [job[p] EXCEPT !.at = AfterDeletion(d), !.ok = FALSE])
  BY <1>1, <1>3, <1>6
<1>. QED  BY <1>4, <1>5, <1>6 DEF Delete, files

\* What a pull's steps leave of its job
LEMMA PullFields ==
  ASSUME TraceInv, NEW p \in Commands, NEW f, PullCheck(p, f) \/ PullGet(p, f)
  PROVE  /\ \A q \in Commands : q # p => job'[q] = job[q]
         /\ job[p].kind = "pull" /\ job'[p].kind = "pull" /\ remote' = remote
         /\ \A g \in job'[p].todo \cup job'[p].get : g \in job[p].todo \cup job[p].get
         /\ faults' = 0 => faults = 0 /\ \A g \in job'[p].get : g \in job[p].get \/ g \notin remote
<1>1. job[p] \in PullJobs /\ DOMAIN job = Commands /\ faults \in Nat
  BY Forms DEF PullCheck, PullGet, TraceInv, TraceTypes
<1>2. PICK j : /\ Turn(p, j) /\ faults' \in {faults, faults + 1}
               /\ \/ j = [job[p] EXCEPT !.todo = @ \ {f}]
                  \/ /\ j = [[job[p] EXCEPT !.todo = @ \ {f}] EXCEPT !.get = @ \cup {f}] /\ f \in job[p].todo
                     /\ f \notin remote \/ faults' = faults + 1
                  \/ j = [job[p] EXCEPT !.get = @ \ {f}]
  <2>1. CASE PullCheck(p, f)
    BY <2>1 DEF PullCheck, Fault
  <2>2. CASE PullGet(p, f)
    BY <2>2 DEF PullGet, Fault
  <2>. QED  BY <2>1, <2>2
<1>3. job'[p] = j /\ \A q \in Commands : q # p => job'[q] = job[q]
  BY <1>1, <1>2, TurnTakes
<1>4. CASE j = [job[p] EXCEPT !.todo = @ \ {f}]
  <2>1. j.kind = "pull" /\ j.todo = job[p].todo \ {f} /\ j.get = job[p].get
    BY <1>1, <1>4 DEF PullJobs
  <2>. QED  BY <1>1, <1>2, <1>3, <2>1 DEF PullJobs, PullCheck, PullGet, files
<1>5. CASE /\ j = [[job[p] EXCEPT !.todo = @ \ {f}] EXCEPT !.get = @ \cup {f}] /\ f \in job[p].todo
           /\ f \notin remote \/ faults' = faults + 1
  <2>1. j.kind = "pull" /\ j.todo = job[p].todo \ {f} /\ j.get = job[p].get \cup {f}
    BY <1>1, <1>5 DEF PullJobs
  <2>2. faults' = 0 => faults = 0 /\ f \notin remote
    BY <1>1, <1>2, <1>5
  <2>. QED  BY <1>1, <1>3, <1>5, <2>1, <2>2 DEF PullJobs, PullCheck, PullGet, files
<1>6. CASE j = [job[p] EXCEPT !.get = @ \ {f}]
  <2>1. j.kind = "pull" /\ j.todo = job[p].todo /\ j.get = job[p].get \ {f}
    BY <1>1, <1>6 DEF PullJobs
  <2>. QED  BY <1>1, <1>2, <1>3, <2>1 DEF PullJobs, PullCheck, PullGet, files
<1>. QED  BY <1>2, <1>4, <1>5, <1>6

\* A build begins with an id of its own, a trace is finalized once.
LEMMA OneWriterKept ==
  ASSUME TraceInv, TraceNext
  PROVE  OneWriter'
<1>1. DOMAIN job = Commands /\ Grown
  BY TracesGrow DEF TraceInv, TraceTypes
<1>2. ASSUME NEW p \in Commands, NEW id \in TraceIds, StartBuild(p, id)  PROVE OneWriter'
  <2>1. job'[p] = [kind |-> "build", id |-> id, start |-> now] /\ \A q \in Commands : q # p => job'[q] = job[q]
    BY <1>1, <1>2, TurnTakes DEF StartBuild
  <2>2. \A q \in Commands : Collects(q) => job[q].id # id
    BY <1>2 DEF StartBuild, Written, Collects, Does
  <2>3. id \notin DOMAIN traces /\ traces' = traces
    BY <1>2 DEF StartBuild
  <2>. QED  BY <2>1, <2>2, <2>3 DEF OneWriter, TraceInv, Collects, Does
<1>3. ASSUME NEW p \in Commands, FinalizeTrace(p)  PROVE OneWriter'
  <2>1. job'[p] = Writes(job[p].id, "builds") /\ \A q \in Commands : q # p => job'[q] = job[q]
    BY <1>1, <1>3, TurnTakes DEF FinalizeTrace
  <2>2. DOMAIN traces' = DOMAIN traces \cup {job[p].id}
    BY <1>3 DEF FinalizeTrace
  <2>. QED  BY <1>3, <2>1, <2>2 DEF OneWriter, TraceInv, Collects, Does, Writes, FinalizeTrace
<1>4. ASSUME NEW p \in Commands, traces' = traces, \A q \in Commands : q # p => job'[q] = job[q],
             job'[p].kind \in {"build", "write"} => /\ job[p].kind = job'[p].kind
                                                     /\ job[p].id = job'[p].id
      PROVE  OneWriter'
  BY <1>4 DEF OneWriter, TraceInv, Collects, Does
<1>5. ASSUME NEW p \in Commands, NEW side, Put(p, side)  PROVE OneWriter'
  BY <1>4, <1>5, PutFields DEF Put
<1>6. ASSUME NEW p \in Commands, NextFile(p)  PROVE OneWriter'
  <2>1. /\ job'[p] \in {Idle, Writes(job[p].id, "spans")} /\ job[p].kind = "write"
        /\ \A q \in Commands : q # p => job'[q] = job[q]
    BY <1>1, <1>6, TurnTakes DEF NextFile, Does
  <2>. QED  BY <1>4, <1>6, <2>1 DEF NextFile, Writes, Idle
<1>7. ASSUME NEW p \in Commands, NEW j, Turn(p, j), j.kind \in {"idle", "prune", "pull"}, traces' = traces
      PROVE  OneWriter'
  BY <1>1, <1>4, <1>7, TurnTakes
<1>8. ASSUME NEW p \in Commands, StartPrune(p) \/ EndPrune(p) \/ Pull(p) \/ EndPull(p) \/ Killed(p)  PROVE OneWriter'
  <2>1. traces' = traces /\ \E j : Turn(p, j) /\ j.kind \in {"idle", "prune", "pull"}
    <3>1. CASE StartPrune(p)
      BY <3>1 DEF StartPrune
    <3>. QED  BY <1>8, <3>1 DEF EndPrune, Pull, EndPull, Killed, Idle
  <2>. QED  BY <1>7, <2>1
<1>9. ASSUME NEW p \in Commands, NEW id, PruneTrace(p, id)  PROVE OneWriter'
  BY <1>4, <1>9, PruneTraceFields DEF PruneTrace
<1>10. ASSUME NEW p \in Commands, NEW d \in job[p].at, Delete(p, d)  PROVE OneWriter'
  BY <1>4, <1>10, DeleteFields DEF Delete
<1>11. ASSUME NEW p \in Commands, NEW f, PullCheck(p, f) \/ PullGet(p, f)  PROVE OneWriter'
  BY <1>4, <1>11, PullFields DEF PullCheck, PullGet
<1>12. CASE Tick
  BY <1>12 DEF Tick, OneWriter, TraceInv, Collects, Does
<1>. QED  BY <1>2, <1>3, <1>5, <1>6, <1>8, <1>9, <1>10, <1>11, <1>12 DEF TraceNext

\* Who collects did so before, for the same trace, or has a new id.
LEMMA Collectors ==
  ASSUME TraceInv, TraceNext, NEW q \in Commands, Collects(q)'
  PROVE  (Collects(q) /\ job'[q].id = job[q].id) \/ job'[q].id \notin DOMAIN traces
<1>1. DOMAIN job = Commands
  BY DEF TraceInv, TraceTypes
<1>2. ASSUME NEW p \in Commands, NEW j, Turn(p, j),
             j.kind \in {"idle", "prune", "pull"} \/ (Collects(p) /\ j.id = job[p].id) \/ j.id \notin DOMAIN traces
      PROVE  (Collects(q) /\ job'[q].id = job[q].id) \/ job'[q].id \notin DOMAIN traces
  BY <1>1, <1>2, TurnTakes DEF Collects, Does
<1>3. ASSUME NEW p \in Commands, NEW id \in TraceIds, StartBuild(p, id)  PROVE \E j : Turn(p, j) /\ j.id \notin DOMAIN traces
  BY <1>3 DEF StartBuild
<1>4. ASSUME NEW p \in Commands, FinalizeTrace(p) \/ NextFile(p)
      PROVE  Collects(p) /\ \E j : Turn(p, j) /\ (j.kind = "idle" \/ j.id = job[p].id)
  BY <1>4 DEF FinalizeTrace, NextFile, Writes, Idle, Collects
<1>5. ASSUME NEW p \in Commands, NEW side, Put(p, side)  PROVE Collects(q) /\ job'[q].id = job[q].id
  BY <1>5, PutFields DEF Collects, Does
<1>6. ASSUME NEW p \in Commands, StartPrune(p) \/ EndPrune(p) \/ Pull(p) \/ EndPull(p) \/ Killed(p)
      PROVE  \E j : Turn(p, j) /\ j.kind \in {"idle", "prune", "pull"}
  <2>1. CASE StartPrune(p)
    BY <2>1 DEF StartPrune
  <2>. QED  BY <1>6, <2>1 DEF EndPrune, Pull, EndPull, Killed, Idle
<1>7. ASSUME NEW p \in Commands, NEW id, PruneTrace(p, id)  PROVE Collects(q) /\ job'[q].id = job[q].id
  BY <1>7, PruneTraceFields DEF Collects, Does
<1>8. ASSUME NEW p \in Commands, NEW d \in job[p].at, Delete(p, d)  PROVE Collects(q) /\ job'[q].id = job[q].id
  BY <1>8, DeleteFields DEF Collects, Does
<1>9. ASSUME NEW p \in Commands, NEW f, PullCheck(p, f) \/ PullGet(p, f)  PROVE Collects(q) /\ job'[q].id = job[q].id
  BY <1>9, PullFields DEF Collects, Does
<1>10. CASE Tick
  BY <1>10 DEF Tick, Collects, Does
<1>. QED  BY <1>2, <1>3, <1>4, <1>5, <1>6, <1>7, <1>8, <1>9, <1>10 DEF TraceNext

\* What appears in a store is a file of a trace that is being written, or a pull has
\* copied it after a failed call.
LEMMA Gains ==
  ASSUME TraceInv, TraceNext
  PROVE  /\ on' = on /\ (faults' = 0 => faults = 0)
         /\ \A f \in remote' : f \in remote \/ \E p \in Commands : Ahead(p, f) /\ Collects(p)
         /\ faults' = 0 => \A m \in Machines : \A f \in local'[m] :
              f \in local[m] \/ \E p \in Commands : Collects(p) /\ f.id = job[p].id
<1>1. faults \in Nat /\ DOMAIN job = Commands
  BY DEF TraceInv, TraceTypes
<1>2. ASSUME NEW p \in Commands, NEW side \in Sides, Put(p, side)
      PROVE  /\ \A f \in remote' : f \in remote \/ (Ahead(p, f) /\ Collects(p))
             /\ \A m \in Machines : \A f \in local'[m] : f \in local[m] \/ (Collects(p) /\ f.id = job[p].id)
  <2>1. FileOf(job[p]).id = job[p].id /\ FileOf(job[p]).table = job[p].table /\ on[p] \in Machines
    BY <1>2, WhatIsPut DEF Put, TraceInv, TraceTypes
  <2>2. Collects(p) /\ side \in job[p].left
    BY <1>2 DEF Put, Collects
  <2>3. remote' = remote \/ (side = "remote" /\ remote' = remote \cup {FileOf(job[p])})
    BY <1>2 DEF Put, files
  <2>4. local' = local \/ local' = [local EXCEPT ![on[p]] = @ \cup {FileOf(job[p])}]
    BY <1>2 DEF Put, files
  <2>5. \A m \in Machines : \A f \in local'[m] : f \in local[m] \/ f = FileOf(job[p])
    BY <2>1, <2>4 DEF TraceInv, TraceTypes
  <2>6. side = "remote" => Ahead(p, FileOf(job[p]))
    BY <1>2, <2>1, <2>2 DEF Ahead, Put
  <2>. QED  BY <2>1, <2>2, <2>3, <2>5, <2>6
<1>3. ASSUME NEW p \in Commands, NEW d \in job[p].at, Delete(p, d)
      PROVE  remote' \subseteq remote /\ \A m \in Machines : local'[m] \subseteq local[m]
  <2>1. on[p] \in Machines
    BY DEF TraceInv, TraceTypes
  <2>. QED  BY <1>3, <2>1 DEF Delete, TraceInv, TraceTypes, files
<1>4. ASSUME NEW p \in Commands, NEW f, PullGet(p, f)
      PROVE  remote' = remote /\ (faults' = 0 => \A m \in Machines : local'[m] = local[m])
  <2>1. on[p] \in Machines /\ (faults = 0 => f \notin remote)
    BY <1>4 DEF PullGet, TraceInv, TraceTypes, PullsOK
  <2>2. faults' \in {faults, faults + 1} /\ remote' = remote
    BY <1>4 DEF PullGet, Fault
  <2>3. local' = local \/ local' = [local EXCEPT ![on[p]] = @ \cup ({f} \cap remote)]
    BY <1>4 DEF PullGet
  <2>4. f \notin remote => local' = local
    BY <2>1, <2>3 DEF TraceInv, TraceTypes
  <2>. QED  BY <1>1, <2>1, <2>2, <2>4
<1>5. on' = on /\ (faults' = 0 => faults = 0)
  <2>1. on' = on /\ (faults' = faults \/ Fault)
    <3>1. ASSUME NEW p \in Commands, NEW x, StartBuild(p, x) \/ Put(p, x) \/ PruneTrace(p, x)
          PROVE  on' = on /\ (faults' = faults \/ Fault)
      BY <3>1 DEF StartBuild, Put, PruneTrace, world
    <3>2. ASSUME NEW p \in Commands, NEW x, Delete(p, x) \/ PullCheck(p, x) \/ PullGet(p, x)
          PROVE  on' = on /\ (faults' = faults \/ Fault)
      BY <3>2 DEF Delete, PullCheck, PullGet, world
    <3>3. ASSUME NEW p \in Commands, FinalizeTrace(p) \/ NextFile(p) \/ StartPrune(p) \/ EndPrune(p) \/ Pull(p) \/ EndPull(p)
                                      \/ Killed(p)
          PROVE  on' = on /\ (faults' = faults \/ Fault)
      BY <3>3 DEF FinalizeTrace, NextFile, StartPrune, EndPrune, Pull, EndPull, Killed, world
    <3>. QED  BY <3>1, <3>2, <3>3 DEF TraceNext, Tick
  <2>. QED  BY <1>1, <2>1 DEF Fault
<1>6. \/ UNCHANGED files
      \/ \E p \in Commands : (\E side \in Sides : Put(p, side)) \/ (\E d \in job[p].at : Delete(p, d)) \/ \E f : PullGet(p, f)
  BY DEF TraceNext, Tick, StartBuild, FinalizeTrace, NextFile, StartPrune, EndPrune, Pull, EndPull, Killed, PruneTrace,
         PullCheck, Sides, files
<1>7. CASE UNCHANGED files
  BY <1>5, <1>7 DEF files
<1>. QED  BY <1>2, <1>3, <1>4, <1>5, <1>6, <1>7

\* A command writes ever less.
LEMMA AheadShrinks ==
  ASSUME TraceInv, TraceNext, NEW q \in Commands, NEW f, f.id \in DOMAIN traces, Ahead(q, f)'
  PROVE  Ahead(q, f)
<1>1. DOMAIN job = Commands
  BY DEF TraceInv, TraceTypes
<1>2. ASSUME NEW p \in Commands, NEW j, Turn(p, j), j.kind \in {"idle", "prune", "pull"}
      PROVE  Ahead(q, f)
  BY <1>1, <1>2, TurnTakes DEF Ahead, Does
<1>3. ASSUME NEW p \in Commands, NEW id \in TraceIds, StartBuild(p, id)  PROVE Ahead(q, f)
  <2>1. Turn(p, [kind |-> "build", id |-> id, start |-> now]) /\ id \notin DOMAIN traces
    BY <1>3 DEF StartBuild
  <2>2. job'[p].kind = "build" /\ job'[p].id = id /\ \A x \in Commands : x # p => job'[x] = job[x]
    BY <1>1, <2>1, TurnTakes
  <2>. QED  BY <2>1, <2>2 DEF Ahead, Does
<1>4. ASSUME NEW p \in Commands, FinalizeTrace(p)  PROVE Ahead(q, f)
  <2>1. job'[p] = Writes(job[p].id, "builds") /\ \A x \in Commands : x # p => job'[x] = job[x]
    BY <1>1, <1>4, TurnTakes DEF FinalizeTrace
  <2>. QED  BY <1>4, <2>1 DEF Ahead, Does, Writes, FinalizeTrace
<1>5. ASSUME NEW p \in Commands, NextFile(p)  PROVE Ahead(q, f)
  <2>1. /\ \/ job'[p] = Idle
           \/ job'[p] = Writes(job[p].id, "spans") /\ job[p].table = "builds"
        /\ \A x \in Commands : x # p => job'[x] = job[x]
    BY <1>1, <1>5, TurnTakes DEF NextFile
  <2>. QED  BY <1>5, <2>1 DEF Ahead, Does, Writes, NextFile, Idle
<1>6. ASSUME NEW p \in Commands, NEW side, Put(p, side)  PROVE Ahead(q, f)
  BY <1>6, PutFields DEF Ahead, Does
<1>7. ASSUME NEW p \in Commands, StartPrune(p) \/ EndPrune(p) \/ Pull(p) \/ EndPull(p) \/ Killed(p)  PROVE Ahead(q, f)
  <2>1. \E j : Turn(p, j) /\ j.kind \in {"idle", "prune", "pull"}
    <3>1. CASE StartPrune(p)
      BY <3>1 DEF StartPrune
    <3>. QED  BY <1>7, <3>1 DEF EndPrune, Pull, EndPull, Killed, Idle
  <2>. QED  BY <1>2, <2>1
<1>8. ASSUME NEW p \in Commands, NEW id, PruneTrace(p, id)  PROVE Ahead(q, f)
  BY <1>8, PruneTraceFields DEF Ahead, Does
<1>9. ASSUME NEW p \in Commands, NEW d \in job[p].at, Delete(p, d)  PROVE Ahead(q, f)
  BY <1>9, DeleteFields DEF Ahead, Does
<1>10. ASSUME NEW p \in Commands, NEW g, PullCheck(p, g) \/ PullGet(p, g)  PROVE Ahead(q, f)
  BY <1>10, PullFields DEF Ahead, Does
<1>11. CASE Tick
  BY <1>11 DEF Tick, Ahead, Does
<1>. QED  BY <1>3, <1>4, <1>5, <1>6, <1>7, <1>8, <1>9, <1>10, <1>11 DEF TraceNext

\* A prune keeps to old traces.
LEMMA PrunesOldKept ==
  ASSUME TraceInv, TraceNext, NEW q \in Commands
  PROVE  PrunesOld(q)'
<1>1. DOMAIN job = Commands /\ Grown /\ PrunesOld(q)
  BY TracesGrow DEF TraceInv, TraceTypes
<1>2. ASSUME NEW id, NEW c, IsOld(id, c)  PROVE IsOld(id, c)'
  BY <1>1, <1>2 DEF IsOld, Grown
<1>3. CASE job'[q] = job[q]
  BY <1>1, <1>2, <1>3 DEF PrunesOld, Does
<1>4. ASSUME NEW p \in Commands, NEW j, Turn(p, j), j.kind # "prune"  PROVE PrunesOld(q)'
  BY <1>1, <1>3, <1>4, TurnTakes DEF PrunesOld, Does
<1>5. ASSUME NEW p \in Commands, StartPrune(p)  PROVE PrunesOld(q)'
  <2>1. PICK cutoff \in 1 .. now :
          LET old == {id \in Rows(on[p]) : traces[id].start < cutoff}
          IN  Turn(p, [kind |-> "prune", cutoff |-> cutoff, todo |-> old, seen |-> old \ Written,
                       at |-> {}, ok |-> TRUE])
    BY <1>5 DEF StartPrune
  <2>2. \A id \in Rows(on[p]) : traces[id].start < cutoff => IsOld(id, cutoff)
    BY DEF Rows, TraceInv, TraceTypes, FilesDated, Dated, IsOld
  <2>. QED  BY <1>1, <1>2, <1>3, <2>1, <2>2, TurnTakes DEF PrunesOld, Does
<1>6. ASSUME NEW p \in Commands, NEW id, PruneTrace(p, id)  PROVE PrunesOld(q)'
  <2>1. PrunesOld(p) /\ id \in job[p].todo /\ Does(p, "prune")
    BY <1>6 DEF TraceInv, PruneTrace
  <2>2. Deletion(id, "builds", "local").id = id
    BY DEF Deletion
  <2>. QED  BY <1>2, <1>3, <1>6, <2>1, <2>2, PruneTraceFields DEF PrunesOld, Does
<1>7. ASSUME NEW p \in Commands, NEW d \in job[p].at, Delete(p, d)  PROVE PrunesOld(q)'
  <2>1. PrunesOld(p) /\ Does(p, "prune")
    BY <1>7 DEF TraceInv, Delete
  <2>2. /\ \A e \in job'[p].at : e.id = d.id
        /\ \A e, g \in job'[p].at : e = g
    <3>1. \A table, side : Deletion(d.id, table, side).id = d.id
      BY DEF Deletion
    <3>2. AfterDeletion(d) = {} \/ AfterDeletion(d) = {Deletion(d.id, "spans", "local")}
      BY DEF AfterDeletion
    <3>3. job'[p].at = {Deletion(d.id, d.table, "remote")} \/ job'[p].at = AfterDeletion(d)
      BY <1>7, DeleteFields
    <3>. QED  BY <3>1, <3>2, <3>3
  <2>. QED  BY <1>2, <1>3, <1>7, <2>1, <2>2, DeleteFields DEF PrunesOld, Does
<1>8. ASSUME NEW p \in Commands, FinalizeTrace(p) \/ NextFile(p) \/ EndPrune(p) \/ Pull(p)
                                 \/ EndPull(p) \/ Killed(p)
      PROVE  PrunesOld(q)'
  <2>1. \E j : Turn(p, j) /\ j.kind # "prune"
    BY <1>8 DEF FinalizeTrace, NextFile, EndPrune, Pull, EndPull, Killed, Writes, Idle
  <2>. QED  BY <1>4, <2>1
<1>9. ASSUME NEW p \in Commands, NEW id, StartBuild(p, id)  PROVE PrunesOld(q)'
  BY <1>4, <1>9 DEF StartBuild
<1>10. ASSUME NEW p \in Commands, NEW side, Put(p, side)  PROVE PrunesOld(q)'
  BY <1>3, <1>10, PutFields DEF PrunesOld, Does
<1>11. ASSUME NEW p \in Commands, NEW f, PullCheck(p, f) \/ PullGet(p, f)  PROVE PrunesOld(q)'
  BY <1>3, <1>11, PullFields DEF PrunesOld, Does
<1>12. CASE Tick
  BY <1>3, <1>12 DEF Tick
<1>. QED  BY <1>5, <1>6, <1>7, <1>8, <1>9, <1>10, <1>11, <1>12 DEF TraceNext

\* What a prune has seen is nobody's to write, and what is gone stays away.
LEMMA SeenStaysAway ==
  ASSUME TraceInv, TraceNext, NEW q \in Commands, Does(q, "prune"), NEW id \in job[q].seen
  PROVE  /\ id \in DOMAIN traces' /\ \A p \in Commands : Collects(p)' => job'[p].id # id
         /\ GoneHere(q, id) => GoneHere(q, id)'
         /\ GoneRemotely(id) => GoneRemotely(id)'
<1>1. id \in DOMAIN traces /\ \A p \in Commands : Collects(p) => job[p].id # id
  BY DEF TraceInv, SeenIsPruned
<1>2. id \in DOMAIN traces' /\ \A p \in Commands : Collects(p)' => job'[p].id # id
  BY <1>1, TracesGrow, Collectors DEF Grown
<1>3. \A p \in Commands : \A f : Ahead(p, f) => f.id = job[p].id
  BY DEF Ahead
<1>4. on[q] \in Machines
  BY DEF TraceInv, TraceTypes
<1>. QED  BY <1>1, <1>2, <1>3, <1>4, Gains DEF GoneHere, GoneRemotely, IsRow

\* A row that is deleted is gone.
LEMMA DeletionRemoves ==
  ASSUME TraceInv, NEW p \in Commands, NEW d \in job[p].at, Delete(p, d), d.table = "builds"
  PROVE  /\ d.side = "local" /\ local' = [local EXCEPT ![on[p]] = @ \ {FileAt(d)}] =>
              \A f \in local'[on[p]] : ~IsRow(f, d.id)
         /\ remote' = remote \ {FileAt(d)} => \A f \in remote' : ~IsRow(f, d.id)
<1>1. ASSUME NEW f \in TraceFiles, Dated(f), IsRow(f, d.id)  PROVE f = FileAt(d)
  BY <1>1 DEF TraceFiles, Dated, IsRow, FileAt, File
<1>2. on[p] \in Machines
  BY DEF TraceInv, TraceTypes
<1>3. /\ \A f \in local[on[p]] : f \in TraceFiles /\ Dated(f)
      /\ \A f \in remote : f \in TraceFiles /\ Dated(f)
  BY <1>2 DEF TraceInv, TraceTypes, FilesDated
<1>. QED  BY <1>1, <1>2, <1>3 DEF TraceInv, TraceTypes

\* A prune without an error loses sight of no row.
LEMMA SeenIsPrunedKept ==
  ASSUME TraceInv, TraceNext, NEW q \in Commands
  PROVE  SeenIsPruned(q)'
<1>1. DOMAIN job = Commands /\ Grown /\ SeenIsPruned(q) /\ PrunesOld(q) /\ on' = on /\ on[q] \in Machines
  BY TracesGrow, Gains DEF TraceInv, TraceTypes
<1>2. CASE job'[q] = job[q]
  BY <1>1, <1>2, SeenStaysAway DEF SeenIsPruned, Does, Pruned
<1>3. ASSUME NEW p \in Commands, NEW j, Turn(p, j), j.kind # "prune"  PROVE SeenIsPruned(q)'
  BY <1>1, <1>2, <1>3, TurnTakes DEF SeenIsPruned, Does
<1>4. ASSUME NEW p \in Commands, StartPrune(p)  PROVE SeenIsPruned(q)'
  <2>1. PICK cutoff \in 1 .. now :
          LET old == {id \in Rows(on[p]) : traces[id].start < cutoff}
          IN  Turn(p, [kind |-> "prune", cutoff |-> cutoff, todo |-> old, seen |-> old \ Written,
                       at |-> {}, ok |-> TRUE])
    BY <1>4 DEF StartPrune
  <2>2. \A id \in Rows(on[p]) : id \in DOMAIN traces /\ id \in DOMAIN traces'
    BY <1>1 DEF Rows, TraceInv, TraceTypes, FilesDated, Dated, Grown
  <2>3. \A id \in Rows(on[p]) \ Written : \A x \in Commands : Collects(x)' => job'[x].id # id
    BY <2>2, Collectors DEF Written, Collects, Does
  <2>4. job'[p].kind = "prune" /\ job'[p].todo \subseteq Rows(on[p]) /\ job'[p].seen = job'[p].todo \ Written
    BY <1>1, <2>1, TurnTakes
  <2>5. SeenIsPruned(p)'
    BY <2>2, <2>3, <2>4 DEF SeenIsPruned, Pruned
  <2>. QED  BY <1>1, <1>2, <2>1, <2>5, TurnTakes
<1>5. ASSUME NEW id, PruneTrace(q, id)  PROVE SeenIsPruned(q)'
  <2>1. Does(q, "prune") /\ job[q].at = {}
    BY <1>5 DEF PruneTrace
  <2>2. ASSUME NEW i \in job[q].seen, Pruned(q, i)  PROVE Pruned(q, i)'
    <3>1. i \in job[q].todo \/ (GoneHere(q, i) /\ GoneRemotely(i))
      BY <2>1, <2>2 DEF Pruned
    <3>. QED  BY <1>5, <2>1, <3>1, PruneTraceFields, SeenStaysAway DEF Pruned
  <2>. QED  BY <1>1, <1>5, <2>1, <2>2, PruneTraceFields, SeenStaysAway DEF SeenIsPruned, Does
<1>6. ASSUME NEW d \in job[q].at, Delete(q, d)  PROVE SeenIsPruned(q)'
  <2>1. Does(q, "prune") /\ d \in Deletions /\ \A e \in job[q].at : e = d
    BY <1>1, <1>6, DeleteFields DEF Delete, PrunesOld
  <2>2. ASSUME NEW i \in job[q].seen, Pruned(q, i), job'[q].ok # FALSE  PROVE Pruned(q, i)'
    <3>1. GoneHere(q, i) => GoneHere(q, i)'
      BY <2>1, SeenStaysAway
    <3>2. GoneRemotely(i) => GoneRemotely(i)'
      BY <2>1, SeenStaysAway
    <3>3. CASE i \in job[q].todo
      BY <1>6, <3>3, DeleteFields DEF Pruned
    <3>4. CASE Deletion(i, "builds", "local") \in job[q].at
      <4>1. d = Deletion(i, "builds", "local")
        BY <2>1, <3>4
      <4>2. d.id = i /\ d.table = "builds" /\ d.side = "local"
        BY <4>1 DEF Deletion
      <4>3. local' = [local EXCEPT ![on[q]] = @ \ {FileAt(d)}] /\ job'[q].at = {Deletion(i, "builds", "remote")}
        BY <1>6, <2>2, <4>2, DeleteFields
      <4>4. GoneHere(q, i)'
        BY <1>1, <1>6, <4>2, <4>3, DeletionRemoves DEF GoneHere
      <4>. QED  BY <4>3, <4>4 DEF Pruned
    <3>5. CASE GoneHere(q, i) /\ Deletion(i, "builds", "remote") \in job[q].at
      <4>1. d = Deletion(i, "builds", "remote")
        BY <2>1, <3>5
      <4>2. d.id = i /\ d.table = "builds" /\ d.side = "remote"
        BY <4>1 DEF Deletion
      <4>3. remote' = remote \ {FileAt(d)}
        BY <1>6, <2>2, <4>2, DeleteFields
      <4>4. GoneRemotely(i)'
        BY <1>6, <4>2, <4>3, DeletionRemoves DEF GoneRemotely
      <4>. QED  BY <3>1, <3>5, <4>4 DEF Pruned
    <3>6. CASE GoneHere(q, i) /\ GoneRemotely(i)
      BY <3>1, <3>2, <3>6 DEF Pruned
    <3>. QED  BY <2>2, <3>3, <3>4, <3>5, <3>6 DEF Pruned
  <2>. QED  BY <1>1, <1>6, <2>1, <2>2, DeleteFields, SeenStaysAway DEF SeenIsPruned, Does
<1>7. ASSUME NEW p \in Commands, NEW id, PruneTrace(p, id)  PROVE SeenIsPruned(q)'
  BY <1>2, <1>5, <1>7, PruneTraceFields
<1>8. ASSUME NEW p \in Commands, NEW d \in job[p].at, Delete(p, d)  PROVE SeenIsPruned(q)'
  BY <1>2, <1>6, <1>8, DeleteFields
<1>9. ASSUME NEW p \in Commands, FinalizeTrace(p) \/ NextFile(p) \/ EndPrune(p) \/ Pull(p) \/ EndPull(p) \/ Killed(p)
      PROVE  SeenIsPruned(q)'
  <2>1. \E j : Turn(p, j) /\ j.kind # "prune"
    BY <1>9 DEF FinalizeTrace, NextFile, EndPrune, Pull, EndPull, Killed, Writes, Idle
  <2>. QED  BY <1>3, <2>1
<1>10. ASSUME NEW p \in Commands, NEW id, StartBuild(p, id)  PROVE SeenIsPruned(q)'
  BY <1>3, <1>10 DEF StartBuild
<1>11. ASSUME NEW p \in Commands, NEW side, Put(p, side)  PROVE SeenIsPruned(q)'
  BY <1>2, <1>11, PutFields DEF SeenIsPruned, Does
<1>12. ASSUME NEW p \in Commands, NEW f, PullCheck(p, f) \/ PullGet(p, f)  PROVE SeenIsPruned(q)'
  BY <1>2, <1>12, PullFields DEF SeenIsPruned, Does
<1>13. CASE Tick
  BY <1>2, <1>13 DEF Tick
<1>. QED  BY <1>4, <1>7, <1>8, <1>9, <1>10, <1>11, <1>12, <1>13 DEF TraceNext

\* What is stored remotely is not stored again,
LEMMA NotAheadKept ==
  ASSUME TraceInv, TraceNext, OneWriter', NEW f
  PROVE  /\ NotAhead(f) => NotAhead(f)'
         /\ f \in remote' => NotAhead(f)'
<1>1. NotAhead(f) => NotAhead(f)'
  BY TracesGrow, AheadShrinks DEF NotAhead, Grown
<1>2. ASSUME f \in remote', f \notin remote  PROVE NotAhead(f)'
  <2>1. PICK p \in Commands : Put(p, "remote") /\ f = FileOf(job[p])
    <3>1. ASSUME NEW p \in Commands, NEW side \in Sides, Put(p, side)  PROVE side = "remote" /\ f = FileOf(job[p])
      BY <1>2, <3>1 DEF Put, files
    <3>2. ~UNCHANGED files
      BY <1>2 DEF files
    <3>3. \E p \in Commands : (\E side \in Sides : Put(p, side)) \/ (\E d : Delete(p, d)) \/ \E g : PullGet(p, g)
      BY <3>2 DEF TraceNext, Tick, StartBuild, FinalizeTrace, NextFile, StartPrune, EndPrune, Pull, EndPull, Killed,
                  PruneTrace, PullCheck, Sides, files
    <3>4. ASSUME NEW p \in Commands, NEW d, Delete(p, d)  PROVE FALSE
      BY <1>2, <3>4 DEF Delete, files
    <3>5. ASSUME NEW p \in Commands, NEW g, PullGet(p, g)  PROVE FALSE
      BY <1>2, <3>5 DEF PullGet
    <3>. QED  BY <3>1, <3>3, <3>4, <3>5
  <2>2. Dated(f) /\ f.table = job[p].table /\ f.id = job[p].id
    BY <2>1, WhatIsPut DEF Put, TraceInv
  <2>3. f.id \in DOMAIN traces'
    BY <2>2, TracesGrow DEF Dated, Grown
  <2>4. job'[p].kind = "write" /\ job'[p].id = f.id /\ job'[p].table = f.table /\ "remote" \notin job'[p].left
    BY <2>1, <2>2, PutFields
  <2>5. ~Ahead(p, f)'
    BY <2>4 DEF Ahead, Does
  <2>6. ASSUME NEW q \in Commands, Ahead(q, f)'  PROVE q = p
    BY <2>4, <2>6 DEF Ahead, OneWriter, Collects, Does
  <2>. QED  BY <2>3, <2>5, <2>6 DEF NotAhead
<1>3. f \in remote => NotAhead(f)
  BY DEF TraceInv
<1>. QED  BY <1>1, <1>2, <1>3

\* so that a pull, without an error, fetches nothing.
LEMMA PullsOKKept ==
  ASSUME TraceInv, TraceNext, OneWriter', NEW q \in Commands
  PROVE  PullsOK(q)'
<1>1. DOMAIN job = Commands /\ PullsOK(q) /\ (faults' = 0 => faults = 0)
  BY Gains DEF TraceInv, TraceTypes
<1>2. \A f : f \in remote' /\ f \notin remote => ~NotAhead(f)
  BY Gains DEF NotAhead
<1>3. CASE job'[q] = job[q]
  BY <1>1, <1>2, <1>3, NotAheadKept DEF PullsOK, Does
<1>4. ASSUME NEW p \in Commands, NEW j, Turn(p, j), j.kind # "pull"  PROVE PullsOK(q)'
  BY <1>1, <1>3, <1>4, TurnTakes DEF PullsOK, Does
<1>5. ASSUME NEW p \in Commands, Pull(p)  PROVE PullsOK(q)'
  <2>1. Turn(p, [kind |-> "pull", todo |-> remote, get |-> {}])
    BY <1>5 DEF Pull
  <2>2. \A f \in remote : NotAhead(f)'
    BY NotAheadKept DEF TraceInv
  <2>. QED  BY <1>1, <1>3, <2>1, <2>2, TurnTakes DEF PullsOK, Does
<1>6. ASSUME NEW p \in Commands, NEW f, PullCheck(p, f) \/ PullGet(p, f)  PROVE PullsOK(q)'
  <2>1. Does(p, "pull")
    BY <1>6 DEF PullCheck, PullGet
  <2>2. PullsOK(p)
    BY DEF TraceInv
  <2>3. PullsOK(p)'
    BY <1>6, <2>1, <2>2, PullFields, NotAheadKept DEF PullsOK, Does
  <2>. QED  BY <1>3, <1>6, <2>3, PullFields
<1>7. ASSUME NEW p \in Commands, FinalizeTrace(p) \/ NextFile(p) \/ EndPrune(p) \/ EndPull(p) \/ Killed(p)
      PROVE  PullsOK(q)'
  <2>1. \E j : Turn(p, j) /\ j.kind # "pull"
    BY <1>7 DEF FinalizeTrace, NextFile, EndPrune, EndPull, Killed, Writes, Idle
  <2>. QED  BY <1>4, <2>1
<1>8. ASSUME NEW p \in Commands, NEW id, StartBuild(p, id)  PROVE PullsOK(q)'
  BY <1>4, <1>8 DEF StartBuild
<1>9. ASSUME NEW p \in Commands, StartPrune(p)  PROVE PullsOK(q)'
  BY <1>4, <1>9 DEF StartPrune
<1>10. ASSUME NEW p \in Commands, NEW side, Put(p, side)  PROVE PullsOK(q)'
  BY <1>3, <1>10, PutFields DEF PullsOK, Does
<1>11. ASSUME NEW p \in Commands, NEW id, PruneTrace(p, id)  PROVE PullsOK(q)'
  BY <1>3, <1>11, PruneTraceFields DEF PullsOK, Does
<1>12. ASSUME NEW p \in Commands, NEW d \in job[p].at, Delete(p, d)  PROVE PullsOK(q)'
  BY <1>3, <1>12, DeleteFields DEF PullsOK, Does
<1>13. CASE Tick
  BY <1>3, <1>13 DEF Tick
<1>. QED  BY <1>5, <1>6, <1>7, <1>8, <1>9, <1>10, <1>11, <1>12, <1>13 DEF TraceNext

\* The invariant of the traces
THEOREM TraceInvariant == TraceSpec => []TraceInv
<1>1. TraceInit => TraceInv
  <2>. SUFFICES ASSUME TraceInit  PROVE TraceInv
    OBVIOUS
  <2>1. TraceTypes
    BY FS_EmptySet DEF TraceInit, TraceTypes
  <2>2. \A p \in Commands : job[p].kind = "idle"
    BY DEF TraceInit, Idle
  <2>3. RowsMade /\ FilesDated
    BY DEF TraceInit, RowsMade, FilesDated
  <2>. QED  BY <2>1, <2>2, <2>3 DEF TraceInit, TraceInv, OneWriter, Collects, Does, PrunesOld, SeenIsPruned, PullsOK
<1>2. TraceInv /\ [TraceNext]_traceVars => TraceInv'
  <2>1. CASE TraceInv /\ TraceNext
    <3>1. TraceTypes' /\ RowsMade' /\ FilesDated' /\ OneWriter'
      BY <2>1, TraceTypesKept, TracesGrow, FilesDatedKept, OneWriterKept
    <3>2. \A p \in Commands : PrunesOld(p)' /\ SeenIsPruned(p)' /\ PullsOK(p)'
      BY <2>1, <3>1, PrunesOldKept, SeenIsPrunedKept, PullsOKKept
    <3>3. \A f \in remote' : NotAhead(f)'
      BY <2>1, <3>1, NotAheadKept
    <3>. QED  BY <3>1, <3>2, <3>3 DEF TraceInv
  <2>2. CASE TraceInv /\ UNCHANGED traceVars
    BY <2>2 DEF traceVars, TraceInv, TraceTypes, RowsMade, FilesDated, Dated, OneWriter, Collects, Does, PrunesOld, IsOld,
                SeenIsPruned, Pruned, GoneHere, GoneRemotely, PullsOK, NotAhead, Ahead
  <2>. QED  BY <2>1, <2>2
<1>. QED  BY <1>1, <1>2, PTL DEF TraceSpec

\* What a prune removes is old.
LEMMA RemovedIsOld ==
  ASSUME TraceInv, TraceNext, NEW p \in Commands, Does(p, "prune"), job'[p] # job[p],
         NEW f \in (local[on[p]] \ local'[on[p]]) \cup (remote \ remote')
  PROVE  traces[f.id].start < job[p].cutoff
<1>1. on[p] \in Machines /\ DOMAIN job = Commands
  BY DEF TraceInv, TraceTypes
<1>2. PICK q \in Commands : \E d \in job[q].at : Delete(q, d)
  <2>1. ASSUME NEW q \in Commands, NEW side, Put(q, side)  PROVE FALSE
    <3>1. remote \subseteq remote' /\ local[on[p]] \subseteq local'[on[p]]
      BY <1>1, <2>1 DEF Put, files, TraceInv, TraceTypes
    <3>. QED  BY <3>1
  <2>2. ASSUME NEW q \in Commands, NEW g, PullGet(q, g)  PROVE FALSE
    <3>1. remote \subseteq remote' /\ local[on[p]] \subseteq local'[on[p]]
      BY <1>1, <2>2 DEF PullGet, TraceInv, TraceTypes
    <3>. QED  BY <3>1
  <2>3. ~UNCHANGED files
    BY DEF files
  <2>4. \E q \in Commands : (\E side \in Sides : Put(q, side)) \/ (\E d \in job[q].at : Delete(q, d)) \/ \E g : PullGet(q, g)
    BY <2>3 DEF TraceNext, Tick, StartBuild, FinalizeTrace, NextFile, StartPrune, EndPrune, Pull, EndPull, Killed,
                PruneTrace, PullCheck, Sides, files
  <2>. QED  BY <2>1, <2>2, <2>4
<1>3. PICK d \in job[p].at : Delete(p, d)
  <2>1. PICK e \in job[q].at : Delete(q, e)
    BY <1>2
  <2>2. q = p
    BY <2>1, DeleteFields
  <2>. QED  BY <2>1, <2>2
<1>4. IsOld(d.id, job[p].cutoff)
  BY DEF TraceInv, PrunesOld
<1>5. f = FileAt(d)
  <2>1. /\ local' = local \/ local' = [local EXCEPT ![on[p]] = @ \ {FileAt(d)}]
        /\ remote' = remote \/ remote' = remote \ {FileAt(d)}
    BY <1>3, DeleteFields
  <2>2. local'[on[p]] = local[on[p]] \/ local'[on[p]] = local[on[p]] \ {FileAt(d)}
    BY <1>1, <2>1 DEF TraceInv, TraceTypes
  <2>. QED  BY <2>1, <2>2
<1>. QED  BY <1>4, <1>5 DEF IsOld, FileAt, File

\* A prune deletes old traces and no others, and what it has deleted without an error
\* is gone, for any number of machines, commands and traces.
THEOREM PrunesKeepTheirWord == TraceSpec => PruneKeepsItsWord
<1>1. ASSUME TraceInv, [TraceNext]_traceVars
      PROVE  [\A p \in Commands : Does(p, "prune") /\ job'[p] # job[p] =>
                /\ \A f \in (local[on[p]] \ local'[on[p]]) \cup (remote \ remote') :
                     traces[f.id].start < job[p].cutoff
                /\ EndPrune(p) /\ job[p].ok =>
                     \A id \in job[p].seen : \A f \in remote \cup (IF faults = 0 THEN local[on[p]] ELSE {}) :
                       ~(f.table = "builds" /\ f.id = id)]_traceVars
  <2>. SUFFICES ASSUME TraceNext, NEW p \in Commands, Does(p, "prune"), job'[p] # job[p]
                PROVE  /\ \A f \in (local[on[p]] \ local'[on[p]]) \cup (remote \ remote') :
                            traces[f.id].start < job[p].cutoff
                       /\ EndPrune(p) /\ job[p].ok =>
                            \A id \in job[p].seen : \A f \in remote \cup (IF faults = 0 THEN local[on[p]] ELSE {}) :
                              ~(f.table = "builds" /\ f.id = id)
    BY <1>1
  <2>1. \A f \in (local[on[p]] \ local'[on[p]]) \cup (remote \ remote') : traces[f.id].start < job[p].cutoff
    BY <1>1, RemovedIsOld
  <2>2. ASSUME EndPrune(p), job[p].ok, NEW id \in job[p].seen  PROVE GoneHere(p, id) /\ GoneRemotely(id)
    <3>1. job[p].todo = {} /\ job[p].at = {}
      BY <2>2 DEF EndPrune
    <3>2. Pruned(p, id)
      BY <1>1, <2>2 DEF TraceInv, SeenIsPruned
    <3>. QED  BY <3>1, <3>2 DEF Pruned
  <2>. QED  BY <2>1, <2>2 DEF GoneHere, GoneRemotely, IsRow
<1>. QED  BY <1>1, TraceInvariant, PTL DEF TraceSpec, PruneKeepsItsWord

-----------------------------------------------------------------------------
(* Reports                                                                 *)

\* The spans of a build that is finalized are as many as its completions.
LEMMA SpansAreCounted ==
  ASSUME NEW start, NEW C \in Completions
  PROVE  LET row == Finalize(start, C)
         IN  /\ IsFiniteSet(row.spans) /\ Cardinality(row.spans) = row.total
             /\ row.total \in Nat /\ row.hits \in Nat /\ row.failures \in Nat /\ row.hits <= row.total
             /\ \A s \in row.spans : s.status = "FAILURE" => row.failures > 0
<1>1. IsFiniteSet(C) /\ \A c, d \in C : c.label = d.label => c = d
  BY CompletionsAssumption
<1>2. {buildSpan(c) : c \in C} = Finalize(start, C).spans
  BY DEF Finalize
<1>3. Finalize(start, C).total = Cardinality(C)
  BY DEF Finalize
<1>4. DEFINE f == [c \in C |-> buildSpan(c)]
<1>5. f \in Bijection(C, Finalize(start, C).spans)
  <2>1. \A c, d \in C : buildSpan(c) = buildSpan(d) => c = d
    BY <1>1 DEF buildSpan
  <2>2. f \in [C -> Finalize(start, C).spans]
    BY <1>2
  <2>. QED  BY <1>2, <2>1, <2>2 DEF Bijection, Injection, Surjection, IsInjective
<1>6. IsFiniteSet(Finalize(start, C).spans) /\ Cardinality(Finalize(start, C).spans) = Cardinality(C)
  BY <1>1, <1>5, FS_Bijection DEF ExistsBijection
<1>7. Cardinality(C) \in Nat
  BY <1>1, FS_CardinalityType
<1>8. ASSUME NEW S \in SUBSET C  PROVE IsFiniteSet(S) /\ Cardinality(S) \in Nat /\ Cardinality(S) <= Cardinality(C)
  BY <1>1, FS_Subset, FS_CardinalityType
<1>9. /\ Finalize(start, C).hits = Cardinality({c \in C : c.outcome = "ok" /\ c.hit})
      /\ Finalize(start, C).failures = Cardinality({c \in C : c.outcome # "ok"})
  BY DEF Finalize
<1>10. ASSUME NEW s \in Finalize(start, C).spans, s.status = "FAILURE"  PROVE Finalize(start, C).failures > 0
  <2>1. PICK c \in C : s = buildSpan(c)
    BY <1>2
  <2>2. c.outcome = "error"
    BY <1>10, <2>1 DEF buildSpan, Status
  <2>3. {d \in C : d.outcome # "ok"} # {}
    BY <2>2
  <2>4. IsFiniteSet({d \in C : d.outcome # "ok"})
    BY <1>8
  <2>. QED  BY <1>8, <1>9, <2>3, <2>4, FS_EmptySet, FS_CardinalityType
<1>. QED  BY <1>3, <1>6, <1>7, <1>8, <1>9, <1>10

\* The units of a field
Units(R, field) == UNION {{id} \X (1 .. traces[id][field]) : id \in R}

\* SUM(field) counts them, if the rows are finitely many.
LEMMA SumsCount ==
  ASSUME NEW R, IsFiniteSet(R), NEW field, \A id \in R : traces[id][field] \in Nat
  PROVE  /\ IsFiniteSet(Units(R, field))
         /\ Sum(R, field) = Cardinality(Units(R, field)) /\ Sum(R, field) \in Nat
<1>1. DEFINE U(id) == {id} \X (1 .. traces[id][field])
             f == [id \in R |-> U(id)]
<1>2. ASSUME NEW id \in R  PROVE IsFiniteSet(U(id))
  <2>1. IsFiniteSet({id}) /\ IsFiniteSet(1 .. traces[id][field])
    <3>1. 1 \in Int /\ traces[id][field] \in Int
      OBVIOUS
    <3>. QED  BY <3>1, FS_Singleton, FS_Interval
  <2>. QED  BY <2>1, FS_Product
<1>3. f \in Surjection(R, {U(id) : id \in R})
  BY DEF Surjection
<1>4. IsFiniteSet({U(id) : id \in R})
  BY <1>3, FS_Surjection
<1>5. IsFiniteSet(UNION {U(id) : id \in R})
  BY <1>2, <1>4, FS_UNION
<1>6. Units(R, field) = UNION {U(id) : id \in R} /\ Sum(R, field) = Cardinality(Units(R, field))
  BY DEF Units, Sum
<1>. QED  BY <1>5, <1>6, FS_CardinalityType

\* A part of the rows that has a unit in each is no larger than the sum.
LEMMA PartIsCounted ==
  ASSUME NEW R, IsFiniteSet(R), NEW field, \A id \in R : traces[id][field] \in Nat,
         NEW S \in SUBSET R, \A id \in S : traces[id][field] > 0
  PROVE  Cardinality(S) <= Sum(R, field)
<1>1. DEFINE f == [id \in S |-> <<id, 1>>]
<1>2. \A id \in S : <<id, 1>> \in {id} \X (1 .. traces[id][field])
  OBVIOUS
<1>3. f \in Injection(S, Units(R, field))
  <2>1. f \in [S -> Units(R, field)]
    BY <1>2 DEF Units
  <2>. QED  BY <2>1 DEF Injection, IsInjective
<1>4. IsFiniteSet(Units(R, field)) /\ Sum(R, field) = Cardinality(Units(R, field))
  BY SumsCount
<1>. QED  BY <1>3, <1>4, FS_Injection

\* The rows of a machine are finitely many, and each is the row of a build.
LEMMA RowsAreMade ==
  ASSUME TraceInv, NEW m \in Machines
  PROVE  /\ IsFiniteSet(Rows(m))
         /\ \A id \in Rows(m) :
              /\ id \in DOMAIN traces
              /\ IsFiniteSet(traces[id].spans) /\ Cardinality(traces[id].spans) = traces[id].total
              /\ traces[id].total \in Nat /\ traces[id].hits \in Nat /\ traces[id].failures \in Nat
              /\ traces[id].hits <= traces[id].total
              /\ \A s \in traces[id].spans : s.status = "FAILURE" => traces[id].failures > 0
<1>1. DEFINE B == {g \in local[m] : g.table = "builds"}
             f == [g \in B |-> g.id]
<1>2. IsFiniteSet(B)
  BY FS_Subset DEF TraceInv, TraceTypes
<1>3. f \in Surjection(B, Rows(m))
  BY DEF Surjection, Rows
<1>4. IsFiniteSet(Rows(m))
  BY <1>2, <1>3, FS_Surjection
<1>5. \A id \in Rows(m) : id \in DOMAIN traces
  BY DEF Rows, TraceInv, FilesDated, Dated
<1>6. ASSUME NEW id \in Rows(m)
      PROVE  \E start \in Nat, C \in Completions : traces[id] = Finalize(start, C)
  BY <1>5 DEF TraceInv, RowsMade
<1>. QED  BY <1>4, <1>5, <1>6, SpansAreCounted

\* The reports of a machine agree with each other, for any number of builds.
THEOREM ReportsAlwaysAgree == TraceSpec => []ReportsAgree
<1>1. TraceInv => ReportsAgree
  <2>. SUFFICES ASSUME TraceInv, NEW m \in Machines, NEW n \in 1 .. Limit, NEW R \in Recent(m, n)
                PROVE  /\ Stats(R).hits <= Stats(R).targets
                       /\ \A b \in Bottlenecks(m, R) : b.n <= Stats(R).count /\ b.failures <= Stats(R).fails
                       /\ \A e \in Exported(m, List(m, 0, TRUE)) :
                            ~e.ok /\ (e.spans # {} => Cardinality(e.spans) = traces[e.id].total)
    BY DEF ReportsAgree
  <2>1. R \subseteq Rows(m) /\ IsFiniteSet(R)
    BY RowsAreMade, FS_Subset DEF Recent
  <2>2. /\ \A id \in R : traces[id].hits \in Nat /\ traces[id].total \in Nat /\ traces[id].failures \in Nat
        /\ \A id \in R : traces[id].hits <= traces[id].total
    BY <2>1, RowsAreMade
  <2>3. /\ Stats(R).hits = Sum(R, "hits") /\ Stats(R).targets = Sum(R, "total")
        /\ Stats(R).fails = Sum(R, "failures") /\ Stats(R).count = Cardinality(R)
    BY DEF Stats
  <2>4. Sum(R, "hits") <= Sum(R, "total")
    <3>1. \A id \in R : traces[id]["hits"] \in Nat /\ traces[id]["total"] \in Nat
      BY <2>2
    <3>2. Units(R, "hits") \subseteq Units(R, "total")
      <4>1. \A id \in R : {id} \X (1 .. traces[id]["hits"]) \subseteq {id} \X (1 .. traces[id]["total"])
        BY <2>2
      <4>. QED  BY <4>1 DEF Units
    <3>. QED  BY <2>1, <3>1, <3>2, SumsCount, FS_Subset
  <2>5. ASSUME NEW b \in Bottlenecks(m, R)  PROVE b.n <= Cardinality(R) /\ b.failures <= Sum(R, "failures")
    <3>1. PICK l : b = [label |-> l, n |-> Cardinality({id \in R : \E s \in SpansOf(m, id) : s.label = l}),
                        failures |-> Cardinality({id \in R : \E s \in SpansOf(m, id) : s.label = l /\ s.status = "FAILURE"})]
      BY <2>5 DEF Bottlenecks
    <3>2. \A id \in R : \A s \in SpansOf(m, id) : s.status = "FAILURE" => traces[id]["failures"] > 0
      BY <2>1, RowsAreMade DEF SpansOf
    <3>3. \A id \in R : traces[id]["failures"] \in Nat
      BY <2>2
    <3>4. Cardinality({id \in R : \E s \in SpansOf(m, id) : s.label = l /\ s.status = "FAILURE"}) <= Sum(R, "failures")
      BY <2>1, <3>2, <3>3, PartIsCounted
    <3>5. Cardinality({id \in R : \E s \in SpansOf(m, id) : s.label = l}) <= Cardinality(R)
      BY <2>1, FS_Subset
    <3>. QED  BY <3>1, <3>4, <3>5
  <2>6. ASSUME NEW e \in Exported(m, List(m, 0, TRUE))
        PROVE  ~e.ok /\ (e.spans # {} => Cardinality(e.spans) = traces[e.id].total)
    <3>1. PICK id \in List(m, 0, TRUE) : e = [id |-> id, ok |-> traces[id].failures = 0, spans |-> SpansOf(m, id)]
      BY DEF Exported
    <3>2. id \in Rows(m) /\ traces[id].failures > 0
      BY DEF List
    <3>3. traces[id].failures \in Nat /\ Cardinality(traces[id].spans) = traces[id].total
      BY <3>2, RowsAreMade
    <3>4. e.id = id /\ e.spans = SpansOf(m, id) /\ (e.ok <=> traces[id].failures = 0)
      BY <3>1
    <3>5. ~e.ok
      BY <3>2, <3>3, <3>4
    <3>. QED  BY <3>3, <3>4, <3>5 DEF SpansOf
  <2>. QED  BY <2>3, <2>4, <2>5, <2>6
<1>. QED  BY <1>1, TraceInvariant, PTL
=============================================================================
