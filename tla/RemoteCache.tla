---------------------------- MODULE RemoteCache -----------------------------
(***************************************************************************)
(* The build cache of machines that share a bucket: Cas and                *)
(* TargetResultCache (internal/caching) over BoundedBackend, RemoteWrapper *)
(* and FileSystemCache (internal/caching/backends).                        *)
(*                                                                         *)
(* A client is a goroutine of the grog process of a machine.  A writing    *)
(* job stores the blobs of a target, each with Cas.Write or, as the image  *)
(* push of the loopback registry does, with a staged writer, and then the  *)
(* target result (execution/cache_writer.go, PersistPreparedTarget).  A    *)
(* reading job loads the result and then the blobs.  Any step may fail,    *)
(* and a process may die.                                                  *)
(***************************************************************************)
EXTENDS Integers, FiniteSets, ObjectStores

CONSTANTS
  Machines, Clients,
  At,          \* At[c]: the machine of client c
  Does,        \* Does[c]: the jobs it may be given, "write" and "read"
  Writes,      \* Writes[c]: how it writes blobs, by Cas.Write ("exists": files)
               \* or by a staged writer ("begin": images)
  Blobs, Results,
  Capacity,    \* num_io_workers: the slots of the I/O semaphore of a process
  Backends,    \* the vendors the bucket may be of
  MaxJobs,     \* jobs of a client
  MaxCrashes   \* processes that die

Keys == Blobs \cup Results

ASSUME CacheAssumption ==
  /\ At \in [Clients -> Machines]
  /\ Does \in [Clients -> SUBSET {"write", "read"}]
  /\ Writes \in [Clients -> (SUBSET {"exists", "begin"}) \ {{}}]
  /\ Blobs \cap Results = {}
  /\ Capacity \in Nat \ {0}
  /\ Backends \subseteq Vendors /\ Backends # {}
  /\ MaxJobs \in Nat /\ MaxCrashes \in Nat

VARIABLES
  vendor,    \* the configured backend
  fs,        \* fs[m][k]: the file of key k in the cache directory of m
  remote,    \* remote[k]: the object of key k in the bucket
  known,     \* known[m]: keyExistsCache of the process on m
  free,      \* free[m]: the slots of globalIOSem that are not taken
  op,        \* op[c]: what client c is doing
  staged,    \* staged[c]: its staging file and its staging object
  published, \* machines that have written a result
  jobs, crashes

vars == <<vendor, fs, remote, known, free, op, staged, published, jobs, crashes>>

Jobs == {"none", "write", "read"}
Sides == {"open", "ok", "failed"}
Calls == {"idle", "next", "exists", "set", "setting", "begin", "session", "commit", "upload",
          "copy", "copying", "cleanup", "get", "fill", "reading"}

Open == [end |-> "open", whole |-> FALSE]
Idle == [job |-> "none", todo |-> {}, at |-> "idle", key |-> "none",
         stream |-> Open, local |-> "open", far |-> "open"]
NotStaged == [file |-> "none", object |-> "none"]

TypeOK ==
  /\ vendor \in Backends
  /\ fs \in [Machines -> [Keys -> {"none", "partial", "full"}]]
  /\ remote \in [Keys -> Objects]
  /\ known \in [Machines -> SUBSET Blobs]
  /\ free \in [Machines -> 0..Capacity]
  /\ op \in [Clients -> [job : Jobs, todo : SUBSET Keys, at : Calls, key : Keys \cup {"none"},
                         stream : Streams, local : Sides, far : Sides]]
  /\ staged \in [Clients -> [file : {"none", "partial", "full"}, object : Objects]]
  /\ published \subseteq Machines
  /\ jobs \in [Clients -> 0..MaxJobs] /\ crashes \in 0..MaxCrashes

Init ==
  /\ vendor \in Backends
  /\ fs = [m \in Machines |-> [k \in Keys |-> "none"]]
  /\ remote = [k \in Keys |-> "none"]
  /\ known = [m \in Machines |-> {}]
  /\ free = [m \in Machines |-> Capacity]
  /\ op = [c \in Clients |-> Idle]
  /\ staged = [c \in Clients |-> NotStaged]
  /\ published = {}
  /\ jobs = [c \in Clients |-> 0] /\ crashes = 0

store == <<fs, remote, known, published>>
bounds == <<vendor, jobs, crashes>>
Local(c) == fs[At[c]][op[c].key]
Far(c) == remote[op[c].key]
Goto(c, place) == op' = [op EXCEPT ![c].at = place]
Succeed(c) ==
  op' = [op EXCEPT ![c] = [Idle EXCEPT !.job = op[c].job, !.todo = op[c].todo \ {op[c].key},
                                       !.at = "next"]]
Fail(c) == op' = [op EXCEPT ![c] = Idle]
\* acquireForBackend and the release it returns
Acquire(c) == free[At[c]] > 0 /\ free' = [free EXCEPT ![At[c]] = @ - 1]
Release(c) == free' = [free EXCEPT ![At[c]] = @ + 1]
\* a call that takes a slot and returns it in one step
Brief(c) == free[At[c]] > 0 /\ UNCHANGED free

-----------------------------------------------------------------------------
(* Jobs                                                                    *)

Begin(c, job) ==
  /\ op[c].at = "idle" /\ jobs[c] < MaxJobs /\ job \in Does[c]
  /\ jobs' = [jobs EXCEPT ![c] = @ + 1]
  /\ op' = [op EXCEPT ![c] = [Idle EXCEPT !.job = job, !.todo = Keys, !.at = "next"]]
  /\ UNCHANGED <<vendor, crashes, staged, free, store>>

\* PersistPreparedTarget: the write plans first, then TargetResultCache.Write,
\* which does not ask whether the entry exists.
WriteNext(c) ==
  \E k \in op[c].todo, place \in Writes[c] \cup {"set"} :
     /\ IF op[c].todo \subseteq Results THEN place = "set" ELSE k \in Blobs /\ place # "set"
     /\ op' = [op EXCEPT ![c].at = place, ![c].key = k]

\* TargetResultCache.Load, then Cas.Load for its outputs
ReadNext(c) ==
  \E k \in op[c].todo :
     /\ op[c].todo \cap Results # {} => k \in Results
     /\ op' = [op EXCEPT ![c].at = "get", ![c].key = k]

NextKey(c) ==
  /\ op[c].at = "next"
  /\ \/ op[c].todo # {} /\ op[c].job = "write" /\ WriteNext(c) /\ UNCHANGED published
     \/ op[c].todo # {} /\ op[c].job = "read" /\ ReadNext(c) /\ UNCHANGED published
     \/ /\ op[c].todo = {} /\ Fail(c)
        /\ published' = IF op[c].job = "write" THEN published \cup {At[c]} ELSE published
  /\ UNCHANGED <<bounds, staged, free, fs, remote, known>>

-----------------------------------------------------------------------------
(* Cas.Write                                                               *)

\* RemoteWrapper.Exists: the cache directory first, then the bucket
Answers(c) == IF Local(c) # "none" THEN {"yes"} ELSE Exists(vendor, Far(c))

\* Mutant: an error is taken for yes.
AskOnceTrusting(c) ==
  /\ op[c].at = "exists" /\ op[c].key \notin known[At[c]]
  /\ Brief(c)
  /\ \E answer \in Answers(c) :
       IF answer # "no"
       THEN Succeed(c) /\ known' = [known EXCEPT ![At[c]] = @ \cup {op[c].key}]
       ELSE Goto(c, "set") /\ UNCHANGED known
  /\ UNCHANGED <<bounds, staged, fs, remote, published>>

\* Cas.Exists caches the answer yes; Cas.Write goes on after an error.
AskOnce(c) ==
  /\ op[c].at = "exists" /\ op[c].key \notin known[At[c]]
  /\ Brief(c)
  /\ \E answer \in Answers(c) :
       IF answer = "yes"
       THEN Succeed(c) /\ known' = [known EXCEPT ![At[c]] = @ \cup {op[c].key}]
       ELSE Goto(c, "set") /\ UNCHANGED known
  /\ UNCHANGED <<bounds, staged, fs, remote, published>>

AskKnown(c) ==
  /\ op[c].at = "exists" /\ op[c].key \in known[At[c]]
  /\ Succeed(c)
  /\ UNCHANGED <<bounds, staged, free, store>>

\* BoundedBackend.Set and the three goroutines of RemoteWrapper.Set
StartSet(c) ==
  /\ op[c].at = "set"
  /\ Acquire(c)
  /\ op' = [op EXCEPT ![c].at = "setting", ![c].stream = Open, ![c].local = "open", ![c].far = "open"]
  /\ UNCHANGED <<bounds, staged, store>>

\* Mutant: the pipes are closed, not closed with the error.
StreamEndsInEof(c) ==
  /\ op[c].at \in {"setting", "session"} /\ op[c].stream = Open
  /\ \E whole \in BOOLEAN : op' = [op EXCEPT ![c].stream = [end |-> "eof", whole |-> whole]]
  /\ UNCHANGED <<bounds, staged, free, store>>

\* The copy ends: with the content, or with an error of its source or of a side
\* that has closed its pipe, in which case both pipes are closed with it.
StreamEnds(c) ==
  /\ op[c].at \in {"setting", "session"} /\ op[c].stream = Open
  /\ \E end \in {"eof", "error"} :
        op' = [op EXCEPT ![c].stream = [end |-> end, whole |-> end = "eof"]]
  /\ UNCHANGED <<bounds, staged, free, store>>

\* FileSystemCache.Set: a temporary file, renamed after a complete copy
FsSet(old, stream) ==
  IF stream.end = "eof" THEN {Outcome(Received(stream), TRUE), Outcome(old, FALSE)}
  ELSE {Outcome(old, FALSE)}

SetLocal(c) ==
  /\ op[c].at = "setting" /\ op[c].local = "open"
  /\ \E out \in FsSet(Local(c), op[c].stream) :
       /\ fs' = [fs EXCEPT ![At[c]][op[c].key] = out.object]
       /\ op' = [op EXCEPT ![c].local = IF out.ok THEN "ok" ELSE "failed"]
  /\ UNCHANGED <<bounds, staged, free, remote, known, published>>

SetRemote(c) ==
  /\ op[c].at = "setting" /\ op[c].far = "open"
  /\ \E out \in Set(vendor, Far(c), op[c].stream) :
       /\ remote' = [remote EXCEPT ![op[c].key] = out.object]
       /\ op' = [op EXCEPT ![c].far = IF out.ok THEN "ok" ELSE "failed"]
  /\ UNCHANGED <<bounds, staged, free, fs, known, published>>

\* wg.Wait, the slot is released, and Cas.Write notes the digest
SetReturns(c) ==
  /\ op[c].at = "setting"
  /\ op[c].stream # Open /\ op[c].local # "open" /\ op[c].far # "open"
  /\ Release(c)
  /\ IF op[c].local = "ok" /\ op[c].far = "ok"
     THEN /\ Succeed(c)
          /\ known' = [known EXCEPT ![At[c]] = @ \cup ({op[c].key} \cap Blobs)]
     ELSE Fail(c) /\ UNCHANGED known
  /\ UNCHANGED <<bounds, staged, fs, remote, published>>

CasWrite(c) ==
  \/ AskOnce(c) \/ AskKnown(c) \/ StartSet(c) \/ StreamEnds(c)
  \/ SetLocal(c) \/ SetRemote(c) \/ SetReturns(c)

-----------------------------------------------------------------------------
(* Staged writers: fanoutStagedWriter over one of the cache directory and  *)
(* one of the bucket.  They take no I/O slot.                              *)

\* BeginWrite: the staging file; no backend's BeginWrite fails.
BeginWrite(c) ==
  /\ op[c].at = "begin"
  /\ \/ Goto(c, "session") /\ staged' = [staged EXCEPT ![c] = [file |-> "partial", object |-> "none"]]
     \/ Fail(c) /\ UNCHANGED staged
  /\ UNCHANGED <<bounds, free, store>>

\* fanoutStagedWriter.Cancel: both sides, whatever the first returns
Cancel(c) ==
  /\ \E left \in Abort(vendor, "none") : \E out \in Delete(vendor, left) :
       staged' = [staged EXCEPT ![c] = [file |-> "none", object |-> out.object]]
  /\ Fail(c)

\* The content has arrived and the registry commits, or it has not and the
\* registry cancels.  Commit cancels as well when a copy into a side failed.
EndSession(c) ==
  /\ op[c].at = "session" /\ op[c].stream # Open
  /\ \/ /\ op[c].stream.end = "eof"
        /\ staged' = [staged EXCEPT ![c].file = Received(op[c].stream)]
        /\ Goto(c, "commit")
     \/ Cancel(c)
  /\ UNCHANGED <<bounds, free, store>>

\* fsStagedWriter.Commit: rename, or remove the file and cancel the bucket's
CommitFile(c) ==
  /\ op[c].at = "commit"
  /\ \/ /\ fs' = [fs EXCEPT ![At[c]][op[c].key] = staged[c].file]
        /\ staged' = [staged EXCEPT ![c].file = "none"]
        /\ Goto(c, "upload")
     \/ Cancel(c) /\ UNCHANGED fs
  /\ UNCHANGED <<bounds, free, remote, known, published>>

\* The upload to the staging key ends.
EndUpload(c) ==
  /\ op[c].at = "upload"
  /\ \E out \in Put(vendor, "none", op[c].stream) :
       /\ staged' = [staged EXCEPT ![c].object = out.object]
       /\ op' = [op EXCEPT ![c].at = IF out.ok THEN "copy" ELSE "cleanup", ![c].far = "failed"]
  /\ UNCHANGED <<bounds, free, store>>

S3Commit(c) ==
  \E out \in S3Copy(staged[c].object, Far(c)) :
     /\ remote' = [remote EXCEPT ![op[c].key] = out.object]
     /\ op' = [op EXCEPT ![c].at = "cleanup", ![c].far = IF out.ok THEN "ok" ELSE "failed"]

GcsCommit(c) ==
  \E out \in GcsCopy(staged[c].object, Far(c)) :
     /\ remote' = [remote EXCEPT ![op[c].key] = out.object]
     /\ op' = [op EXCEPT ![c].at = "cleanup", ![c].far = IF out.ok THEN "ok" ELSE "failed"]

AzureCommit(c) ==
  \E out \in AzureStartCopy(Far(c)) :
     /\ remote' = [remote EXCEPT ![op[c].key] = out.object]
     /\ op' = [op EXCEPT ![c].at = IF out.ok THEN "copying" ELSE "cleanup"]

Copy(c) ==
  /\ op[c].at = "copy"
  /\ \/ vendor = "s3" /\ S3Commit(c)
     \/ vendor = "gcs" /\ GcsCommit(c)
     \/ vendor = "azure" /\ AzureCommit(c)
  /\ UNCHANGED <<bounds, staged, free, fs, known, published>>

\* CopyBlob polls the destination until its copy has ended, or gives up.
PollCopy(c) ==
  /\ op[c].at = "copying"
  /\ \E far \in (IF Far(c) = "full" THEN {"ok"} ELSE {}) \cup {"failed"} :
        op' = [op EXCEPT ![c].at = "cleanup", ![c].far = far]
  /\ UNCHANGED <<bounds, staged, free, store>>

\* Mutant: after a failed commit of the bucket's side the file is removed.
CleanupRollsBack(c) ==
  /\ op[c].at = "cleanup"
  /\ \E out \in Delete(vendor, staged[c].object) :
        staged' = [staged EXCEPT ![c].object = out.object]
  /\ IF op[c].far = "ok" THEN Succeed(c) /\ UNCHANGED fs
     ELSE Fail(c) /\ fs' = [fs EXCEPT ![At[c]][op[c].key] = "none"]
  /\ UNCHANGED <<bounds, free, remote, known, published>>

\* cleanupStaging, whose error is dropped.  The committed file stays.
Cleanup(c) ==
  /\ op[c].at = "cleanup"
  /\ \E out \in Delete(vendor, staged[c].object) :
        staged' = [staged EXCEPT ![c].object = out.object]
  /\ IF op[c].far = "ok" THEN Succeed(c) ELSE Fail(c)
  /\ UNCHANGED <<bounds, free, store>>

StagedWrite(c) ==
  \/ BeginWrite(c) \/ EndSession(c) \/ CommitFile(c) \/ EndUpload(c)
  \/ Copy(c) \/ PollCopy(c) \/ Cleanup(c)

-----------------------------------------------------------------------------
(* Get: BoundedBackend keeps the slot until the reader is closed           *)

GetLocal(c) ==
  /\ op[c].at = "get" /\ Local(c) # "none"
  /\ Acquire(c)
  /\ Goto(c, "reading")
  /\ UNCHANGED <<bounds, staged, store>>

GetRemote(c) ==
  /\ op[c].at = "get" /\ Local(c) = "none"
  /\ Get(vendor, Far(c)) # {}
  /\ Acquire(c)
  /\ Goto(c, "fill")
  /\ UNCHANGED <<bounds, staged, store>>

\* Mutant: the slot stays taken.
GetFailsHolding(c) ==
  /\ op[c].at = "get" /\ Local(c) = "none"
  /\ Acquire(c)
  /\ Fail(c)
  /\ UNCHANGED <<bounds, staged, store>>

\* The object is not there, or the bucket returns an error.
GetFails(c) ==
  /\ op[c].at = "get" /\ Local(c) = "none"
  /\ Brief(c)
  /\ Fail(c)
  /\ UNCHANGED <<bounds, staged, store>>

\* What the reader of c may receive of the object: all there is, or an error, as
\* when a copy onto the object has begun meanwhile.
Downloads(c) ==
  {[end |-> "error", whole |-> FALSE]} \cup
  {[end |-> "eof", whole |-> far = "full"] : far \in Get(vendor, Far(c))}

\* RemoteWrapper.Get copies the object into the cache directory and reads that.
Fill(c) ==
  /\ op[c].at = "fill"
  /\ \E stream \in Downloads(c) : \E out \in FsSet(Local(c), stream) :
        /\ fs' = [fs EXCEPT ![At[c]][op[c].key] = out.object]
        /\ IF out.ok THEN Goto(c, "reading") /\ UNCHANGED free ELSE Fail(c) /\ Release(c)
  /\ UNCHANGED <<bounds, staged, remote, known, published>>

Close(c) ==
  /\ op[c].at = "reading"
  /\ Release(c)
  /\ Succeed(c)
  /\ UNCHANGED <<bounds, staged, store>>

Load(c) == GetLocal(c) \/ GetRemote(c) \/ GetFails(c) \/ Fill(c) \/ Close(c)

-----------------------------------------------------------------------------
(* The process and the bucket                                              *)

\* Staging files and objects of a dead process stay behind; nothing looks at
\* them again, and they are forgotten here.
Crash(m) ==
  /\ crashes < MaxCrashes
  /\ \E c \in Clients : At[c] = m /\ op[c].at # "idle"
  /\ crashes' = crashes + 1
  /\ op' = [c \in Clients |-> IF At[c] = m THEN Idle ELSE op[c]]
  /\ staged' = [c \in Clients |-> IF At[c] = m THEN NotStaged ELSE staged[c]]
  /\ known' = [known EXCEPT ![m] = {}]
  /\ free' = [free EXCEPT ![m] = Capacity]
  /\ UNCHANGED <<vendor, fs, remote, published, jobs>>

\* Azure ends a copy.
CopyEnds(k) ==
  /\ remote[k] = "pending"
  /\ \E end \in {"full", "failed"} : remote' = [remote EXCEPT ![k] = end]
  /\ UNCHANGED <<bounds, staged, free, op, fs, known, published>>

Step(c) == NextKey(c) \/ CasWrite(c) \/ StagedWrite(c) \/ Load(c)

Next ==
  \/ \E c \in Clients : Step(c) \/ \E job \in {"write", "read"} : Begin(c, job)
  \/ \E m \in Machines : Crash(m)
  \/ \E k \in Keys : CopyEnds(k)

Spec == Init /\ [][Next]_vars

\* Calls of the backends return: the clients' contexts end those that hang.
FairSpec == Spec /\ \A c \in Clients : WF_vars(Step(c))

-----------------------------------------------------------------------------
(* Properties                                                              *)

\* Machine m can read blob k: from its own directory or from the bucket.
Readable(m, k) == fs[m][k] = "full" \/ Get(vendor, remote[k]) # {}

\* The key is the destination of an Azure copy that goes on or has failed.
Copied(k) == vendor = "azure" /\ remote[k] \in {"pending", "failed"}

\* A machine that has written a target result can read the blobs it names, however
\* writers of other targets, machines and failures interleave: no half-written
\* entry was skipped over by Cas.Write.  The exception are the destinations of
\* Azure copies: Cas.Exists takes one that is pending or failed for stored, and a
\* copy takes the content of a blob that was there (BlobExists, CopyBlob).  Nor
\* does anyone find a part of an entry: one who took the end of a broken stream
\* for its end would store it.
PublisherFindsBlobs ==
  /\ \A m \in published, k \in Blobs : Readable(m, k) \/ Copied(k)
  /\ \A k \in Keys : remote[k] # "partial" /\ \A m \in Machines : fs[m][k] # "partial"

\* Every job ends, whatever fails, even with a single I/O slot for all of a
\* process: no client waits for a slot while it holds one, and none is lost.
\* (Jobs are bounded, so all of them have ended again and again.)
JobsEnd == []<>(\A c \in Clients : op[c].at = "idle")

\* The detailed cache is a shared store.
Store == INSTANCE SharedStore WITH
  here <- [m \in Machines |-> {k \in Keys : fs[m][k] = "full"}],
  there <- {k \in Keys : Listed(remote[k])}
\* Every step of the calls of RemoteWrapper and its backends keeps or shares an
\* entry or leaves the stores alone: no entry goes out of the listing, and a
\* result comes after blobs that its writer has or finds listed.  (Listed is not
\* readable: see Copied.)
ImplementsStore == Store!StoreSpec
=============================================================================
