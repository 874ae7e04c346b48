------------------------------ MODULE MutexMap ------------------------------
(***************************************************************************)
(* A mutex per name (internal/maps), made by the first caller of Lock and  *)
(* deleted by the last of Unlock.  The output registry and the hasher      *)
(* serialize the work on a target with it: whoever finds the work done     *)
(* returns.  Steps under the mutex of the map are atomic.                  *)
(***************************************************************************)
CONSTANTS
  Callers, Names,
  Mutexes,   \* the addresses of wrappedMutex values
  NoOne

ASSUME NoOneAssumption == NoOne \notin Mutexes /\ NoOne \notin Names /\ NoOne \notin Callers

VARIABLES
  locks,     \* name -> its mutex, or NoOne
  owner,     \* of a mutex, or NoOne
  waiters,   \* of a mutex: the callers that it counts
  pc, name, mutex,   \* of a caller
  done       \* the names whose work is done (OutputsLoaded)

mutexVars == <<locks, owner, waiters, pc, name, mutex, done>>

MutexInit ==
  /\ locks = [n \in Names |-> NoOne]
  /\ owner = [m \in Mutexes |-> NoOne] /\ waiters = [m \in Mutexes |-> {}]
  /\ pc = [c \in Callers |-> "out"]
  /\ name = [c \in Callers |-> NoOne] /\ mutex = [c \in Callers |-> NoOne]
  /\ done = {}

\* A new mutex is one that nobody has a reference to.
Unused(m) == (\A n \in Names : locks[n] # m) /\ (\A c \in Callers : mutex[c] # m)

\* Lock: the entry is found or made, and the caller is counted, in one.
Lookup(c, n) ==
  /\ pc[c] = "out"
  /\ \E m \in Mutexes :
       /\ IF locks[n] = NoOne THEN Unused(m) ELSE m = locks[n]
       /\ locks' = [locks EXCEPT ![n] = m]
       /\ waiters' = [waiters EXCEPT ![m] = @ \cup {c}]
       /\ mutex' = [mutex EXCEPT ![c] = m]
  /\ pc' = [pc EXCEPT ![c] = "waiting"]
  /\ name' = [name EXCEPT ![c] = n]
  /\ UNCHANGED <<owner, done>>

Acquire(c) ==
  /\ pc[c] = "waiting" /\ owner[mutex[c]] = NoOne
  /\ owner' = [owner EXCEPT ![mutex[c]] = c]
  /\ pc' = [pc EXCEPT ![c] = "counted"]
  /\ UNCHANGED <<locks, waiters, name, mutex, done>>

Uncount(c) ==
  /\ pc[c] = "counted"
  /\ waiters' = [waiters EXCEPT ![mutex[c]] = @ \ {c}]
  /\ pc' = [pc EXCEPT ![c] = "inside"]
  /\ UNCHANGED <<locks, owner, name, mutex, done>>

\* LoadOutputs, SetTargetChangeHash: the work is done unless it has been, or fails.
Work(c) ==
  /\ pc[c] = "inside"
  /\ done' \in {done, done \cup {name[c]}}
  /\ pc' = [pc EXCEPT ![c] = "leaving"]
  /\ UNCHANGED <<locks, owner, waiters, name, mutex>>

\* Mutant: the waiters are not counted.
UnlockAlwaysDeletes(c) ==
  /\ pc[c] = "leaving"
  /\ locks' = [locks EXCEPT ![name[c]] = NoOne]
  /\ owner' = [owner EXCEPT ![mutex[c]] = NoOne]
  /\ pc' = [pc EXCEPT ![c] = "out"]
  /\ name' = [name EXCEPT ![c] = NoOne] /\ mutex' = [mutex EXCEPT ![c] = NoOne]
  /\ UNCHANGED <<waiters, done>>

\* Unlock: of the entry that the name has now, which goes if nobody is counted
Unlock(c) ==
  /\ pc[c] = "leaving" /\ locks[name[c]] # NoOne
  /\ LET m == locks[name[c]] IN
       /\ locks' = [locks EXCEPT ![name[c]] = IF waiters[m] = {} THEN NoOne ELSE m]
       /\ owner' = [owner EXCEPT ![m] = NoOne]
  /\ pc' = [pc EXCEPT ![c] = "out"]
  /\ name' = [name EXCEPT ![c] = NoOne] /\ mutex' = [mutex EXCEPT ![c] = NoOne]
  /\ UNCHANGED <<waiters, done>>

MutexNext == \E c \in Callers :
  \/ \E n \in Names : Lookup(c, n)
  \/ Acquire(c) \/ Uncount(c) \/ Work(c) \/ Unlock(c)

MutexSpec == MutexInit /\ [][MutexNext]_mutexVars

Working(c, n) == pc[c] \in {"counted", "inside", "leaving"} /\ name[c] = n

\* Two callers never work on the same name, and a name has an entry exactly while
\* somebody holds its mutex or waits for it: a caller between the lookup and the
\* lock is not forgotten, and no entry stays behind.
OneHolder ==
  \A n \in Names :
    /\ \A c, d \in Callers : Working(c, n) /\ Working(d, n) => c = d
    /\ locks[n] # NoOne <=> \E c \in Callers : pc[c] # "out" /\ name[c] = n
=============================================================================
