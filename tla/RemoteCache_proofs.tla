------------------------- MODULE RemoteCache_proofs -------------------------
(***************************************************************************)
(* Proofs about module RemoteCache, for any number of machines, clients,   *)
(* blobs, results, slots, jobs and crashes, and whatever the vendor: its   *)
(* types, that the slots of a process are accounted for, that whoever has  *)
(* published a result finds its blobs, and that the cache implements       *)
(* SharedStore.                                                            *)
(***************************************************************************)
EXTENDS RemoteCache, FiniteSetTheorems, TLAPS

Entries == {"none", "partial", "full"}
Ops == [job : Jobs, todo : SUBSET Keys, at : Calls, key : Keys \cup {"none"},
        stream : Streams, local : Sides, far : Sides]
Stagings == [file : Entries, object : Objects]

-----------------------------------------------------------------------------
(* The inductive invariant                                                 *)

\* No entry is a part of itself.
Whole ==
  /\ \A k \in Keys : remote[k] # "partial"
  /\ \A m \in Machines, k \in Keys : fs[m][k] # "partial"

\* Machine m has blob k, or the bucket lists it.
Found(m, k) == fs[m][k] # "none" \/ Listed(remote[k])

BlobCalls == {"exists", "begin", "session", "commit", "upload", "copy", "copying", "cleanup"}
Reads == {"get", "fill", "reading"}

\* The key in hand is one still to do; results come last when writing.
Position(c) ==
  /\ op[c].at \notin {"idle", "next"} => op[c].key \in op[c].todo
  /\ op[c].at \in BlobCalls \cup {"set", "setting"} => op[c].job = "write"
  /\ op[c].at \in Reads => op[c].job = "read"
  /\ op[c].at \in BlobCalls => op[c].key \in Blobs
  /\ op[c].at \in {"set", "setting"} =>
       op[c].key \in Blobs \/ op[c].todo \subseteq Results

\* A reader that sees the end of a stream has seen all of it, and a commit has
\* the whole content to move, to send and to copy.
Content(c) ==
  /\ op[c].stream.whole <=> op[c].stream.end = "eof"
  /\ op[c].at \in {"commit", "upload"} => op[c].stream.end = "eof"
  /\ op[c].at = "commit" => staged[c].file = "full"
  /\ op[c].at = "copy" => staged[c].object = "full"

\* A writer finds the blobs it has done with, and has the file it has committed.
Written(c) ==
  /\ op[c].job = "write" => \A b \in Blobs \ op[c].todo : Found(At[c], b)
  /\ op[c].at = "setting" /\ op[c].local = "ok" => fs[At[c]][op[c].key] # "none"
  /\ op[c].at \in {"upload", "copy", "copying", "cleanup"} => fs[At[c]][op[c].key] # "none"

ClientOK(c) == Position(c) /\ Content(c) /\ Written(c)

KnownFound == \A m \in Machines : \A b \in known[m] : Found(m, b)
PublishedFound == \A m \in published : \A b \in Blobs : Found(m, b)

\* The calls that hold a slot, and the clients of m that are in one
Holding == {"setting", "fill", "reading"}
Holders(m) == {c \in Clients : At[c] = m /\ op[c].at \in Holding}

\* A slot that is not free is held by exactly one client of the process.
Slots ==
  \A m \in Machines :
     IsFiniteSet(Holders(m)) /\ free[m] = Capacity - Cardinality(Holders(m))

IInv ==
  /\ TypeOK
  /\ Whole
  /\ \A c \in Clients : ClientOK(c)
  /\ KnownFound
  /\ PublishedFound
  /\ Slots

-----------------------------------------------------------------------------
(* One call of a backend                                                   *)

\* The fields of an outcome
LEMMA OutcomeFields ==
  /\ \A object, ok : Outcome(object, ok).object = object
  /\ \A object : Outcome(object, TRUE).ok = TRUE /\ Outcome(object, FALSE).ok = FALSE
BY DEF Outcome

\* A request leaves what was there or what it asks for, and this if it succeeds.
LEMMA RequestOutcome ==
  ASSUME NEW old, NEW new, NEW out \in Request(old, new)
  PROVE  /\ out.object \in {old, new} /\ out.ok \in BOOLEAN
         /\ out.ok => out.object = new
<1>1. \/ out = Outcome(new, TRUE) \/ out = Outcome(new, FALSE) \/ out = Outcome(old, FALSE)
  BY DEF Request
<1>. QED  BY <1>1, OutcomeFields

\* A Set leaves what was there, or the whole content it was given.
LEMMA SetOutcome ==
  ASSUME NEW v \in Vendors, NEW old \in Objects, NEW s \in Streams,
         s.whole <=> s.end = "eof", NEW out \in Set(v, old, s)
  PROVE  out.object \in {old, "full"} /\ out.ok \in BOOLEAN
<1>1. (s.end = "eof" /\ out \in Request(old, Received(s))) \/ out = Outcome(old, FALSE)
  BY DEF Set, S3Set, AzureSet, S3Put, GcsPut, AzurePut, Vendors
<1>2. s.end = "eof" => Received(s) = "full"
  BY DEF Received
<1>3. CASE s.end = "eof" /\ out \in Request(old, Received(s))
  BY <1>2, <1>3, RequestOutcome
<1>4. CASE out = Outcome(old, FALSE)
  BY <1>4, OutcomeFields
<1>. QED  BY <1>1, <1>3, <1>4

\* So does an upload, and one that succeeds leaves the content.
LEMMA PutOutcome ==
  ASSUME NEW v \in Vendors, NEW old \in Objects, NEW s \in Streams,
         s.whole <=> s.end = "eof", NEW out \in Put(v, old, s)
  PROVE  /\ out.object \in {old, "full"} /\ out.ok \in BOOLEAN
         /\ out.ok => out.object = "full"
<1>1. (s.end = "eof" /\ out \in Request(old, Received(s))) \/ out = Outcome(old, FALSE)
  BY DEF Put, S3Put, GcsPut, AzurePut, Vendors
<1>2. s.end = "eof" => Received(s) = "full"
  BY DEF Received
<1>3. CASE s.end = "eof" /\ out \in Request(old, Received(s))
  BY <1>2, <1>3, RequestOutcome
<1>4. CASE out = Outcome(old, FALSE)
  BY <1>4, OutcomeFields
<1>. QED  BY <1>1, <1>3, <1>4

\* So does a write to the cache directory.
LEMMA FsSetOutcome ==
  ASSUME NEW old \in Entries, NEW s, s.whole = TRUE \/ s.end # "eof", NEW out \in FsSet(old, s)
  PROVE  /\ out.object \in {old, "full"} /\ out.ok \in BOOLEAN
         /\ out.ok => out.object = "full"
<1>1. (s.end = "eof" /\ out = Outcome(Received(s), TRUE)) \/ out = Outcome(old, FALSE)
  BY DEF FsSet
<1>2. s.end = "eof" => Received(s) = "full"
  BY DEF Received
<1>3. CASE s.end = "eof" /\ out = Outcome(Received(s), TRUE)
  BY <1>2, <1>3, OutcomeFields
<1>4. CASE out = Outcome(old, FALSE)
  BY <1>4, OutcomeFields
<1>. QED  BY <1>1, <1>3, <1>4

\* A reader is opened on content, and only the answer yes needs an object.
LEMMA ReadOutcome ==
  ASSUME NEW v \in Vendors, NEW object \in Objects
  PROVE  /\ \A far \in Get(v, object) : far = object /\ object \in {"partial", "full"}
         /\ "yes" \in Exists(v, object) => Listed(object)
BY DEF Get, S3Get, GcsGet, AzureGet, Exists, S3Exists, GcsExists, AzureExists, Vendors

\* Deleting and aborting leave nothing but what was there or a part of it.
LEMMA RemovalOutcome ==
  ASSUME NEW v \in Vendors, NEW old \in Objects
  PROVE  /\ \A out \in Delete(v, old) : out.object \in {old, "none"}
         /\ Abort(v, "none") \subseteq {"none", "partial"}
BY DEF Delete, S3Delete, GcsDelete, AzureDelete, Request, Outcome,
       Abort, S3Abort, GcsAbort, AzureAbort, Vendors

\* Copying whole staged content loses no object and stores no part of one.
LEMMA CopyOutcome ==
  ASSUME NEW old \in Objects,
         NEW out \in S3Copy("full", old) \cup GcsCopy("full", old) \cup AzureStartCopy(old)
  PROVE  out.object \in {old, "full", "pending"} /\ out.ok \in BOOLEAN
<1>1. out \in Request(old, "full") \/ out \in Request(old, "pending") \/ out = Outcome(old, FALSE)
  BY DEF S3Copy, GcsCopy, AzureStartCopy
<1>2. CASE out \in Request(old, "full") \/ out \in Request(old, "pending")
  BY <1>2, RequestOutcome
<1>. QED  BY <1>1, <1>2, OutcomeFields

-----------------------------------------------------------------------------
(* What a step does to the stores                                          *)

Quiet == fs' = fs /\ remote' = remote
Kept(m, k) ==
  /\ fs' = [fs EXCEPT ![m][k] = "full"] /\ remote' = remote
  /\ k \in Blobs \/ Listed(remote[k]) \/ \A b \in Blobs : Found(m, b)
Shared(m, k) ==
  /\ \E object \in {"full", "pending", "failed"} : remote' = [remote EXCEPT ![k] = object]
  /\ fs' = fs
  /\ k \in Blobs \/ \A b \in Blobs : Found(m, b)
\* Azure has ended a copy: the object was listed and is.
Ended(k) ==
  /\ \E object \in {"full", "failed"} : remote' = [remote EXCEPT ![k] = object]
  /\ fs' = fs /\ Listed(remote[k])
StoreStep ==
  \/ Quiet
  \/ \E m \in Machines, k \in Keys : Kept(m, k) \/ Shared(m, k)
  \/ \E k \in Keys : Ended(k)

StoreTypes == fs \in [Machines -> [Keys -> Entries]] /\ remote \in [Keys -> Objects]
\* Entries and listed objects stay.
Grow ==
  /\ \A m \in Machines, k \in Keys : fs[m][k] # "none" => fs'[m][k] # "none"
  /\ \A k \in Keys : Listed(remote[k]) => Listed(remote'[k])

\* Such a step stores whole entries and loses none.
LEMMA StoresGrow ==
  ASSUME StoreTypes, Whole, StoreStep
  PROVE  StoreTypes' /\ Whole' /\ Grow
<1>1. CASE Quiet
  BY <1>1 DEF Quiet, StoreTypes, Whole, Grow, Listed
<1>2. ASSUME NEW m \in Machines, NEW k \in Keys, Kept(m, k)
      PROVE  StoreTypes' /\ Whole' /\ Grow
  BY <1>2 DEF Kept, StoreTypes, Whole, Grow, Listed, Entries
<1>3. ASSUME NEW m \in Machines, NEW k \in Keys, Shared(m, k)
      PROVE  StoreTypes' /\ Whole' /\ Grow
  BY <1>3 DEF Shared, StoreTypes, Whole, Grow, Listed, Objects
<1>4. ASSUME NEW k \in Keys, Ended(k)
      PROVE  StoreTypes' /\ Whole' /\ Grow
  BY <1>4 DEF Ended, StoreTypes, Whole, Grow, Listed, Objects
<1>. QED  BY <1>1, <1>2, <1>3, <1>4 DEF StoreStep

\* Such a step is one of the shared store, or leaves it as it is.
LEMMA StoresImplement ==
  ASSUME StoreTypes, Whole, StoreStep
  PROVE  [Store!StoreNext]_(Store!storeVars)
<1>. DEFINE here == [m \in Machines |-> {k \in Keys : fs[m][k] = "full"}]
            there == {k \in Keys : Listed(remote[k])}
<1>. SUFFICES [\E m \in Machines, k \in Keys :
                 \/ /\ k \in Blobs \/ k \in there \/ Blobs \subseteq here[m] \cup there
                    /\ here' = [here EXCEPT ![m] = @ \cup {k}] /\ UNCHANGED there
                 \/ /\ k \in Blobs \/ Blobs \subseteq here[m] \cup there
                    /\ there' = there \cup {k} /\ UNCHANGED here]_<<here, there>>
  BY DEF Store!StoreNext, Store!storeVars, Store!Keep, Store!Share, Store!Complete, Keys
<1>1. ASSUME NEW m \in Machines, \A b \in Blobs : Found(m, b)
      PROVE  Blobs \subseteq here[m] \cup there
  BY <1>1 DEF Found, StoreTypes, Whole, Entries, Keys
<1>2. CASE Quiet
  BY <1>2 DEF Quiet
<1>3. ASSUME NEW m \in Machines, NEW k \in Keys, Kept(m, k)
      PROVE  /\ k \in Blobs \/ k \in there \/ Blobs \subseteq here[m] \cup there
             /\ here' = [here EXCEPT ![m] = @ \cup {k}] /\ UNCHANGED there
  <2>1. \A n \in Machines, j \in Keys :
           fs'[n][j] = IF n = m /\ j = k THEN "full" ELSE fs[n][j]
    BY <1>3 DEF Kept, StoreTypes
  <2>2. \A n \in Machines : here'[n] = IF n = m THEN here[n] \cup {k} ELSE here[n]
    BY <2>1
  <2>. QED  BY <1>1, <1>3, <2>2 DEF Kept
<1>4. ASSUME NEW m \in Machines, NEW k \in Keys, Shared(m, k)
      PROVE  /\ k \in Blobs \/ Blobs \subseteq here[m] \cup there
             /\ there' = there \cup {k} /\ UNCHANGED here
  <2>1. \A j \in Keys : Listed(remote'[j]) <=> j = k \/ Listed(remote[j])
    BY <1>4 DEF Shared, StoreTypes, Listed
  <2>2. there' = there \cup {k}
    BY <2>1
  <2>. QED  BY <1>1, <1>4, <2>2 DEF Shared
<1>5. ASSUME NEW k \in Keys, Ended(k)
      PROVE  UNCHANGED <<here, there>>
  <2>1. \A j \in Keys : Listed(remote'[j]) <=> Listed(remote[j])
    BY <1>5 DEF Ended, StoreTypes, Listed
  <2>. QED  BY <1>5, <2>1 DEF Ended
<1>. HIDE DEF here, there
<1>. QED  BY <1>2, <1>3, <1>4, <1>5 DEF StoreStep, Quiet

-----------------------------------------------------------------------------
(* What a step of one client does to the others and to the slots           *)

\* Only client c has moved.
Only(c) ==
  /\ op' \in [Clients -> Ops] /\ staged' \in [Clients -> Stagings]
  /\ \A d \in Clients \ {c} : op'[d] = op[d] /\ staged'[d] = staged[d]

\* What is found stays found.
LEMMA StillFound ==
  ASSUME Grow
  PROVE  \A m \in Machines, k \in Keys : Found(m, k) => Found(m, k)'
BY DEF Grow, Found

\* What is true of a client that does not move stays true.
LEMMA Untouched ==
  ASSUME CacheAssumption, TypeOK, Grow, NEW d \in Clients, ClientOK(d),
         op'[d] = op[d], staged'[d] = staged[d]
  PROVE  ClientOK(d)'
<1>1. At[d] \in Machines /\ op[d].todo \subseteq Keys
  BY DEF CacheAssumption, TypeOK
<1>2. Position(d)' /\ Content(d)'
  BY DEF ClientOK, Position, Content
<1>3. op[d].at \notin {"idle", "next"} => op[d].key \in Keys
  BY <1>1 DEF ClientOK, Position
<1>4. Written(d)'
  BY <1>1, <1>3, StillFound DEF ClientOK, Written, Grow, Keys
<1>. QED  BY <1>2, <1>4 DEF ClientOK

\* The invariant of the clients and of what is found, after a step of client c
\* that notes the keys of more and publishes for the machines in by.
LEMMA ClientSteps ==
  ASSUME CacheAssumption, IInv, Grow, NEW c \in Clients, Only(c), ClientOK(c)',
         NEW more, NEW by,
         known' = known \/ known' = [known EXCEPT ![At[c]] = @ \cup more],
         more \subseteq Blobs, \A b \in more : Found(At[c], b)',
         published' = published \cup by, by \subseteq {At[c]},
         by # {} => \A b \in Blobs : Found(At[c], b)
  PROVE  /\ \A d \in Clients : ClientOK(d)'
         /\ KnownFound' /\ PublishedFound'
         /\ known' \in [Machines -> SUBSET Blobs] /\ published' \subseteq Machines
<1>1. At[c] \in Machines /\ TypeOK
  BY DEF CacheAssumption, IInv
<1>2. \A d \in Clients : ClientOK(d)'
  BY <1>1, Untouched DEF IInv, Only
<1>3. known \in [Machines -> SUBSET Blobs] /\ published \subseteq Machines
  BY <1>1 DEF TypeOK
<1>4. known' \in [Machines -> SUBSET Blobs] /\ published' \subseteq Machines
  BY <1>1, <1>3
<1>5. \A m \in Machines : \A b \in known'[m] : b \in known[m] \/ (m = At[c] /\ b \in more)
  BY <1>1, <1>3
<1>6. KnownFound'
  BY <1>3, <1>4, <1>5, StillFound DEF IInv, KnownFound, Keys
<1>7. PublishedFound'
  BY <1>3, <1>4, StillFound DEF IInv, PublishedFound, Keys
<1>. QED  BY <1>2, <1>4, <1>6, <1>7

\* Slots stay accounted for when the moving client neither takes nor returns one,
LEMMA SlotsKept ==
  ASSUME CacheAssumption, TypeOK, Slots, NEW c \in Clients, Only(c), free' = free,
         op'[c].at \in Holding <=> op[c].at \in Holding
  PROVE  Slots' /\ free' \in [Machines -> 0..Capacity]
<1>1. \A m \in Machines : \A d : d \in Holders(m)' <=> d \in Holders(m)
  BY DEF Holders, Only
<1>2. \A m \in Machines : Holders(m)' = Holders(m)
  BY ONLY <1>1
<1>. QED  BY <1>2 DEF Slots, TypeOK

\* when it takes one,
LEMMA SlotTaken ==
  ASSUME CacheAssumption, TypeOK, Slots, NEW c \in Clients, Only(c), Acquire(c),
         op'[c].at \in Holding, op[c].at \notin Holding
  PROVE  Slots' /\ free' \in [Machines -> 0..Capacity]
<1>1. At[c] \in Machines /\ free \in [Machines -> 0..Capacity] /\ Capacity \in Nat
  BY DEF CacheAssumption, TypeOK
<1>2. \A d : d \in Holders(At[c])' <=> d \in Holders(At[c]) \cup {c}
  BY DEF Holders, Only
<1>3. Holders(At[c])' = Holders(At[c]) \cup {c} /\ c \notin Holders(At[c])
  BY <1>2 DEF Holders
<1>4. \A m \in Machines \ {At[c]} : \A d : d \in Holders(m)' <=> d \in Holders(m)
  BY DEF Holders, Only
<1>5. \A m \in Machines \ {At[c]} : Holders(m)' = Holders(m)
  BY ONLY <1>4
<1>6. \A m \in Machines : free'[m] = IF m = At[c] THEN free[m] - 1 ELSE free[m]
  BY <1>1 DEF Acquire
<1>7. free' \in [Machines -> 0..Capacity]
  BY <1>1 DEF Acquire
<1>8. IsFiniteSet(Holders(At[c])) /\ free[At[c]] = Capacity - Cardinality(Holders(At[c]))
  BY <1>1 DEF Slots
<1>9. /\ IsFiniteSet(Holders(At[c])')
      /\ Cardinality(Holders(At[c])') = Cardinality(Holders(At[c])) + 1
      /\ Cardinality(Holders(At[c])) \in Nat
  BY <1>3, <1>8, FS_AddElement, FS_CardinalityType
<1>10. free'[At[c]] = Capacity - Cardinality(Holders(At[c])')
  BY <1>1, <1>6, <1>8, <1>9
<1>. QED  BY <1>1, <1>5, <1>6, <1>7, <1>9, <1>10 DEF Slots

\* and when it returns one.
LEMMA SlotReturned ==
  ASSUME CacheAssumption, TypeOK, Slots, NEW c \in Clients, Only(c), Release(c),
         op'[c].at \notin Holding, op[c].at \in Holding
  PROVE  Slots' /\ free' \in [Machines -> 0..Capacity]
<1>1. At[c] \in Machines /\ free \in [Machines -> 0..Capacity] /\ Capacity \in Nat
  BY DEF CacheAssumption, TypeOK
<1>2. \A d : d \in Holders(At[c])' <=> d \in Holders(At[c]) \ {c}
  BY DEF Holders, Only
<1>3. Holders(At[c])' = Holders(At[c]) \ {c} /\ c \in Holders(At[c])
  BY <1>2 DEF Holders
<1>4. \A m \in Machines \ {At[c]} : \A d : d \in Holders(m)' <=> d \in Holders(m)
  BY DEF Holders, Only
<1>5. \A m \in Machines \ {At[c]} : Holders(m)' = Holders(m)
  BY ONLY <1>4
<1>6. \A m \in Machines : free'[m] = IF m = At[c] THEN free[m] + 1 ELSE free[m]
  BY <1>1 DEF Release
<1>8. IsFiniteSet(Holders(At[c])) /\ free[At[c]] = Capacity - Cardinality(Holders(At[c]))
  BY <1>1 DEF Slots
<1>9. /\ IsFiniteSet(Holders(At[c])')
      /\ Cardinality(Holders(At[c])') = Cardinality(Holders(At[c])) - 1
      /\ Cardinality(Holders(At[c])) \in Nat /\ Cardinality(Holders(At[c])') \in Nat
  BY <1>3, <1>8, FS_RemoveElement, FS_CardinalityType
<1>10. free'[At[c]] = Capacity - Cardinality(Holders(At[c])') /\ free'[At[c]] \in 0..Capacity
  BY <1>1, <1>6, <1>8, <1>9
<1>11. free' \in [Machines -> 0..Capacity]
  <2>1. free' = [m \in Machines |-> IF m = At[c] THEN free[m] + 1 ELSE free[m]]
    BY <1>1 DEF Release
  <2>2. \A m \in Machines : free'[m] \in 0..Capacity
    BY <1>1, <1>6, <1>10
  <2>. QED  BY <2>1, <2>2
<1>. QED  BY <1>1, <1>5, <1>6, <1>9, <1>10, <1>11 DEF Slots

-----------------------------------------------------------------------------
(* What the steps of a client have in common                               *)

\* What the invariant says of client c and of the entry in its hand
LEMMA Facts ==
  ASSUME CacheAssumption, IInv, NEW c \in Clients
  PROVE  /\ At[c] \in Machines /\ vendor \in Vendors /\ StoreTypes /\ Whole
         /\ op \in [Clients -> Ops] /\ op[c] \in Ops
         /\ staged \in [Clients -> Stagings] /\ staged[c] \in Stagings
         /\ ClientOK(c)
         /\ op[c].at \notin {"idle", "next"} =>
              /\ op[c].key \in Keys /\ op[c].key \in op[c].todo
              /\ Local(c) \in {"none", "full"} /\ Far(c) \in Objects /\ Far(c) # "partial"
<1>1. At[c] \in Machines /\ vendor \in Vendors
  BY DEF CacheAssumption, IInv, TypeOK
<1>2. op \in [Clients -> Ops] /\ staged \in [Clients -> Stagings]
  BY DEF IInv, TypeOK, Ops, Stagings, Entries
<1>3. StoreTypes /\ Whole /\ ClientOK(c)
  BY DEF IInv, TypeOK, StoreTypes, Entries
<1>4. op[c].todo \subseteq Keys
  BY <1>2 DEF Ops
<1>5. ASSUME op[c].at \notin {"idle", "next"}
      PROVE  /\ op[c].key \in Keys /\ op[c].key \in op[c].todo
             /\ Local(c) \in {"none", "full"} /\ Far(c) \in Objects /\ Far(c) # "partial"
  BY <1>1, <1>3, <1>4, <1>5 DEF ClientOK, Position, StoreTypes, Whole, Entries, Local, Far
<1>. QED  BY <1>1, <1>2, <1>3, <1>5

\* The staging of no other client has changed.
OthersStaged(c) ==
  staged' \in [Clients -> Stagings] /\ \A d \in Clients \ {c} : staged'[d] = staged[d]

\* A client that fails gives up its job,
LEMMA Failing ==
  ASSUME CacheAssumption, IInv, NEW c \in Clients, Fail(c), OthersStaged(c)
  PROVE  Only(c) /\ ClientOK(c)' /\ op'[c].at = "idle"
<1>1. op \in [Clients -> Ops]
  BY Facts
<1>2. Idle \in Ops
  BY DEF Idle, Open, Ops, Jobs, Calls, Streams, Sides
<1>3. op'[c] = Idle /\ \A d \in Clients \ {c} : op'[d] = op[d]
  BY <1>1 DEF Fail
<1>4. op' \in [Clients -> Ops]
  BY <1>1, <1>2 DEF Fail
<1>5. ClientOK(c)'
  BY <1>3 DEF ClientOK, Position, Content, Written, Idle, Open, BlobCalls, Reads
<1>. QED  BY <1>3, <1>4, <1>5 DEF Only, OthersStaged, Idle

\* A client at rest
LEMMA IdleOp == Idle \in Ops /\ Idle.stream = Open /\ {"idle", "next"} \subseteq Calls
BY DEF Idle, Open, Ops, Jobs, Calls, Streams, Sides

\* and one that succeeds has done with its key, which it finds if it wrote it.
LEMMA Succeeding ==
  ASSUME CacheAssumption, IInv, Grow, NEW c \in Clients, Succeed(c), OthersStaged(c),
         op[c].job = "write" => \A b \in Blobs : b = op[c].key => Found(At[c], b)'
  PROVE  Only(c) /\ ClientOK(c)' /\ op'[c].at = "next"
<1>1. op \in [Clients -> Ops] /\ op[c] \in Ops /\ At[c] \in Machines /\ ClientOK(c)
  BY Facts
<1>. DEFINE done == [Idle EXCEPT !.job = op[c].job, !.todo = op[c].todo \ {op[c].key},
                                 !.at = "next"]
<1>2. /\ done.job = op[c].job /\ done.todo = op[c].todo \ {op[c].key} /\ done.at = "next"
      /\ done.stream = Open
      /\ done \in Ops
  <2>1. op[c].job \in Jobs /\ op[c].todo \ {op[c].key} \in SUBSET Keys
    BY <1>1 DEF Ops
  <2>2. done \in Ops
    BY <2>1, IdleOp DEF Ops
  <2>3. done.job = op[c].job /\ done.todo = op[c].todo \ {op[c].key} /\ done.at = "next"
    BY DEF Idle
  <2>. QED  BY <2>2, <2>3, IdleOp DEF Idle
<1>. HIDE DEF done
<1>4. op'[c] = done /\ \A d \in Clients \ {c} : op'[d] = op[d]
  BY <1>1 DEF Succeed, done
<1>5. op' \in [Clients -> Ops]
  BY <1>1, <1>2 DEF Succeed, done
<1>6. /\ op'[c].job = op[c].job /\ op'[c].todo = op[c].todo \ {op[c].key}
      /\ op'[c].at = "next" /\ op'[c].stream = Open
  BY <1>2, <1>4
<1>7. Position(c)' /\ Content(c)'
  BY <1>6 DEF Position, Content, Open, BlobCalls, Reads
<1>8. ASSUME op[c].job = "write", NEW b \in Blobs, b \notin op[c].todo \ {op[c].key}
      PROVE  Found(At[c], b)'
  <2>1. CASE b = op[c].key
    BY <1>8, <2>1
  <2>2. CASE b \notin op[c].todo
    <3>1. Found(At[c], b) /\ b \in Keys
      BY <1>1, <1>8, <2>2 DEF ClientOK, Written, Keys
    <3>. QED  BY <1>1, <3>1, StillFound
  <2>. QED  BY <1>8, <2>1, <2>2
<1>9. Written(c)'
  BY <1>6, <1>8 DEF Written
<1>. QED  BY <1>4, <1>5, <1>6, <1>7, <1>9 DEF Only, OthersStaged, ClientOK

\* A client that moves on has still written what it had.
LEMMA Moving ==
  ASSUME CacheAssumption, IInv, Grow, NEW c \in Clients,
         op'[c].job = op[c].job, op'[c].todo = op[c].todo
  PROVE  op'[c].job = "write" => \A b \in Blobs \ op'[c].todo : Found(At[c], b)'
<1>1. At[c] \in Machines /\ ClientOK(c)
  BY Facts
<1>. QED  BY <1>1, StillFound DEF ClientOK, Written, Keys

\* A step of one client keeps the invariant if each of its parts is kept.
LEMMA OneStep ==
  ASSUME CacheAssumption, IInv, NEW c \in Clients, StoreStep,
         Only(c), ClientOK(c)', Slots', free' \in [Machines -> 0..Capacity],
         NEW more, NEW by,
         known' = known \/ known' = [known EXCEPT ![At[c]] = @ \cup more],
         more \subseteq Blobs, \A b \in more : Found(At[c], b)',
         published' = published \cup by, by \subseteq {At[c]},
         by # {} => \A b \in Blobs : Found(At[c], b),
         vendor' = vendor, crashes' = crashes, jobs' \in [Clients -> 0..MaxJobs]
  PROVE  IInv'
<1>1. StoreTypes' /\ Whole' /\ Grow
  BY Facts, StoresGrow
<1>2. /\ \A d \in Clients : ClientOK(d)'
      /\ KnownFound' /\ PublishedFound'
      /\ known' \in [Machines -> SUBSET Blobs] /\ published' \subseteq Machines
  BY <1>1, ClientSteps
<1>3. vendor \in Backends /\ crashes \in 0..MaxCrashes
  BY DEF IInv, TypeOK
<1>4. TypeOK'
  BY <1>1, <1>2, <1>3 DEF TypeOK, StoreTypes, Only, Ops, Stagings, Entries
<1>. QED  BY <1>1, <1>2, <1>4 DEF IInv

\* The same for a step that notes no key and publishes nothing
LEMMA OnePrivateStep ==
  ASSUME CacheAssumption, IInv, NEW c \in Clients, StoreStep,
         Only(c), ClientOK(c)', Slots', free' \in [Machines -> 0..Capacity],
         known' = known, published' = published,
         vendor' = vendor, crashes' = crashes, jobs' = jobs
  PROVE  IInv'
<1>1. jobs' \in [Clients -> 0..MaxJobs]
  BY DEF IInv, TypeOK
<1>2. published' = published \cup {}
  OBVIOUS
<1>. QED  BY <1>1, <1>2, OneStep, Zenon

\* A step that leaves the stores alone loses nothing.
LEMMA QuietGrows ==
  ASSUME Quiet
  PROVE  StoreStep /\ Grow
BY DEF Quiet, StoreStep, Grow

-----------------------------------------------------------------------------
(* The steps of a job                                                      *)

\* Begin keeps the invariant: nothing is done yet.
LEMMA BeginKeeps ==
  ASSUME CacheAssumption, IInv, NEW c \in Clients, NEW job \in {"write", "read"}, Begin(c, job)
  PROVE  IInv' /\ StoreStep
<1>1. op \in [Clients -> Ops] /\ op[c] \in Ops /\ staged \in [Clients -> Stagings]
  BY Facts
<1>2. StoreStep /\ Grow
  BY QuietGrows DEF Begin, store, Quiet
<1>. DEFINE new == [Idle EXCEPT !.job = job, !.todo = Keys, !.at = "next"]
<1>3. /\ new \in Ops
      /\ new.todo = Keys /\ new.at = "next" /\ new.stream = Open
  BY IdleOp DEF Ops, Jobs, Idle
<1>. HIDE DEF new
<1>4. op'[c] = new /\ op' \in [Clients -> Ops] /\ \A d \in Clients \ {c} : op'[d] = op[d]
  BY <1>1, <1>3 DEF Begin, new
<1>5. Only(c)
  BY <1>1, <1>4 DEF Only, Begin
<1>6. ClientOK(c)'
  BY <1>3, <1>4 DEF ClientOK, Position, Content, Written, Open, BlobCalls, Reads, Keys
<1>7. Slots' /\ free' \in [Machines -> 0..Capacity]
  BY <1>3, <1>4, <1>5, SlotsKept DEF IInv, Begin, Holding
<1>8. jobs' \in [Clients -> 0..MaxJobs]
  BY DEF Begin, IInv, TypeOK, CacheAssumption
<1>9. published' = published \cup {} /\ known' = known /\ vendor' = vendor /\ crashes' = crashes
  BY DEF Begin, store
<1>. QED  BY <1>2, <1>5, <1>6, <1>7, <1>8, <1>9, OneStep, Zenon

\* NextKey keeps it: a client that has nothing left to do finds all blobs.
LEMMA NextKeyKeeps ==
  ASSUME CacheAssumption, IInv, NEW c \in Clients, NextKey(c)
  PROVE  IInv' /\ StoreStep
<1>1. /\ op \in [Clients -> Ops] /\ op[c] \in Ops /\ staged \in [Clients -> Stagings]
      /\ ClientOK(c) /\ op[c].todo \subseteq Keys
  BY Facts DEF Ops
<1>2. StoreStep /\ Grow
  BY QuietGrows DEF NextKey, Quiet
<1>3. OthersStaged(c)
  BY <1>1 DEF OthersStaged, NextKey
<1>4. ASSUME NEW k \in op[c].todo, NEW place \in {"exists", "begin", "set", "get"},
             op' = [op EXCEPT ![c].at = place, ![c].key = k], published' = published,
             op[c].job = IF place = "get" THEN "read" ELSE "write",
             place \in {"exists", "begin"} => k \in Blobs,
             place = "set" => op[c].todo \subseteq Results
      PROVE  IInv'
  <2>1. /\ op'[c].at = place /\ op'[c].key = k /\ op'[c].todo = op[c].todo
        /\ op'[c].job = op[c].job /\ op'[c].stream = op[c].stream
    BY <1>1, <1>4 DEF Ops
  <2>2. Only(c)
    <3>1. place \in Calls
      BY <1>4 DEF Calls
    <3>. QED  BY <1>1, <1>3, <1>4, <3>1 DEF Only, OthersStaged, Ops
  <2>3. Position(c)'
    BY <1>4, <2>1 DEF Position, BlobCalls, Reads
  <2>4. Content(c)'
    BY <1>1, <1>4, <2>1 DEF ClientOK, Content
  <2>5. Written(c)'
    BY <1>2, <1>4, <2>1, Moving DEF Written, Holding
  <2>6. Slots' /\ free' \in [Machines -> 0..Capacity]
    BY <1>4, <2>1, <2>2, SlotsKept DEF IInv, NextKey, Holding
  <2>7. known' = known /\ vendor' = vendor /\ jobs' = jobs /\ crashes' = crashes
    BY DEF NextKey, bounds
  <2>. QED  BY <1>2, <1>4, <2>2, <2>3, <2>4, <2>5, <2>6, <2>7, OnePrivateStep DEF ClientOK
<1>5. CASE op[c].job = "write" /\ WriteNext(c) /\ UNCHANGED published
  <2>1. PICK k \in op[c].todo, place \in Writes[c] \cup {"set"} :
           /\ IF op[c].todo \subseteq Results THEN place = "set" ELSE k \in Blobs /\ place # "set"
           /\ op' = [op EXCEPT ![c].at = place, ![c].key = k]
    BY <1>5 DEF WriteNext
  <2>2. place \in {"exists", "begin", "set"}
    BY DEF CacheAssumption
  <2>3. /\ place \in {"exists", "begin"} => k \in Blobs
        /\ place = "set" => op[c].todo \subseteq Results
    BY <2>1, <2>2
  <2>4. IInv'
    BY <1>4, <1>5, <2>1, <2>2, <2>3
  <2>. QED  BY <1>2, <2>4
<1>6. CASE op[c].job = "read" /\ ReadNext(c) /\ UNCHANGED published
  <2>1. PICK k \in op[c].todo : op' = [op EXCEPT ![c].at = "get", ![c].key = k]
    BY <1>6 DEF ReadNext
  <2>. QED  BY <1>2, <1>4, <1>6, <2>1
<1>7. CASE /\ op[c].todo = {} /\ Fail(c)
           /\ published' = IF op[c].job = "write" THEN published \cup {At[c]} ELSE published
  <2>1. Only(c) /\ ClientOK(c)' /\ op'[c].at = "idle" /\ op[c].at = "next"
    BY <1>3, <1>7, Failing DEF NextKey
  <2>2. Slots' /\ free' \in [Machines -> 0..Capacity]
    BY <2>1, SlotsKept DEF IInv, NextKey, Holding
  <2>. DEFINE by == IF op[c].job = "write" THEN {At[c]} ELSE {}
  <2>3. published' = published \cup by /\ by \subseteq {At[c]}
    BY <1>7
  <2>4. by # {} => \A b \in Blobs : Found(At[c], b)
    BY <1>1, <1>7 DEF ClientOK, Written
  <2>. HIDE DEF by
  <2>5. /\ known' = known /\ vendor' = vendor /\ crashes' = crashes
        /\ jobs' \in [Clients -> 0..MaxJobs]
    BY DEF NextKey, bounds, IInv, TypeOK
  <2>. QED  BY <1>2, <2>1, <2>2, <2>3, <2>4, <2>5, OneStep
<1>. QED  BY <1>2, <1>5, <1>6, <1>7 DEF NextKey

-----------------------------------------------------------------------------
(* The steps of Cas.Write                                                  *)

\* AskOnce keeps the invariant: only an object that is found is noted.
LEMMA AskOnceKeeps ==
  ASSUME CacheAssumption, IInv, NEW c \in Clients, AskOnce(c)
  PROVE  IInv' /\ StoreStep
<1>1. /\ op \in [Clients -> Ops] /\ op[c] \in Ops /\ staged \in [Clients -> Stagings]
      /\ ClientOK(c) /\ op[c].at = "exists" /\ op[c].key \in op[c].todo
      /\ op[c].key \in Keys /\ vendor \in Vendors /\ Far(c) \in Objects /\ At[c] \in Machines
  BY Facts DEF AskOnce
<1>2. op[c].key \in Blobs /\ op[c].job = "write"
  BY <1>1 DEF ClientOK, Position, BlobCalls
<1>3. StoreStep /\ Grow /\ fs' = fs /\ remote' = remote
  BY QuietGrows DEF AskOnce, Quiet
<1>4. OthersStaged(c)
  BY <1>1 DEF OthersStaged, AskOnce
<1>5. /\ free' = free /\ published' = published
      /\ vendor' = vendor /\ jobs' = jobs /\ crashes' = crashes
  BY DEF AskOnce, Brief, bounds
<1>6. CASE "yes" \in Answers(c) /\ Succeed(c) /\ known' = [known EXCEPT ![At[c]] = @ \cup {op[c].key}]
  <2>1. Local(c) # "none" \/ Listed(Far(c))
    BY <1>1, <1>6, ReadOutcome DEF Answers
  <2>2. \A b \in {op[c].key} : Found(At[c], b)'
    BY <1>3, <2>1 DEF Found, Local, Far
  <2>3. Only(c) /\ ClientOK(c)' /\ op'[c].at = "next"
    BY <1>3, <1>4, <1>6, <2>2, Succeeding
  <2>4. Slots' /\ free' \in [Machines -> 0..Capacity]
    BY <1>1, <1>5, <2>3, SlotsKept DEF IInv, Holding
  <2>. DEFINE more == {op[c].key}
  <2>5. known' = [known EXCEPT ![At[c]] = @ \cup more] /\ more \subseteq Blobs
    BY <1>2, <1>6
  <2>6. \A b \in more : Found(At[c], b)'
    BY <2>2
  <2>7. published' = published \cup {} /\ jobs' \in [Clients -> 0..MaxJobs]
    BY <1>5 DEF IInv, TypeOK
  <2>. HIDE DEF more
  <2>8. IInv'
    BY <1>3, <1>5, <2>3, <2>4, <2>5, <2>6, <2>7, OneStep
  <2>. QED  BY <1>3, <2>8
<1>7. CASE Goto(c, "set") /\ UNCHANGED known
  <2>1. /\ op'[c].at = "set" /\ op'[c].job = op[c].job /\ op'[c].todo = op[c].todo
        /\ op'[c].key = op[c].key /\ op'[c].stream = op[c].stream
    BY <1>1, <1>7 DEF Goto, Ops
  <2>2. Only(c)
    BY <1>1, <1>4, <1>7 DEF Goto, Only, OthersStaged, Ops, Calls
  <2>3. ClientOK(c)'
    BY <1>1, <1>2, <1>3, <2>1, Moving DEF ClientOK, Position, Content, Written, BlobCalls, Reads
  <2>4. Slots' /\ free' \in [Machines -> 0..Capacity]
    BY <1>1, <1>5, <2>1, <2>2, SlotsKept DEF IInv, Holding
  <2>. QED  BY <1>3, <1>5, <1>7, <2>2, <2>3, <2>4, OnePrivateStep
<1>. QED  BY <1>6, <1>7 DEF AskOnce

\* AskKnown keeps it: what is noted is found.
LEMMA AskKnownKeeps ==
  ASSUME CacheAssumption, IInv, NEW c \in Clients, AskKnown(c)
  PROVE  IInv' /\ StoreStep
<1>1. /\ staged \in [Clients -> Stagings] /\ At[c] \in Machines /\ op[c].at = "exists"
      /\ op[c].key \in Keys
  BY Facts DEF AskKnown
<1>2. StoreStep /\ Grow
  BY QuietGrows DEF AskKnown, store, Quiet
<1>3. OthersStaged(c)
  BY <1>1 DEF OthersStaged, AskKnown
<1>4. Found(At[c], op[c].key)
  BY <1>1 DEF AskKnown, IInv, KnownFound
<1>5. \A b \in Blobs : b = op[c].key => Found(At[c], b)'
  BY <1>1, <1>2, <1>4, StillFound
<1>6. Only(c) /\ ClientOK(c)' /\ op'[c].at = "next"
  BY <1>2, <1>3, <1>5, Succeeding DEF AskKnown
<1>7. Slots' /\ free' \in [Machines -> 0..Capacity]
  BY <1>1, <1>6, SlotsKept DEF IInv, AskKnown, Holding
<1>8. known' = known /\ published' = published /\ vendor' = vendor /\ jobs' = jobs /\ crashes' = crashes
  BY DEF AskKnown, store, bounds
<1>. QED  BY <1>2, <1>6, <1>7, <1>8, OnePrivateStep

\* StartSet keeps it: it takes a slot.
LEMMA StartSetKeeps ==
  ASSUME CacheAssumption, IInv, NEW c \in Clients, StartSet(c)
  PROVE  IInv' /\ StoreStep
<1>1. /\ op \in [Clients -> Ops] /\ op[c] \in Ops /\ staged \in [Clients -> Stagings]
      /\ ClientOK(c) /\ op[c].at = "set"
  BY Facts DEF StartSet
<1>2. StoreStep /\ Grow
  BY QuietGrows DEF StartSet, store, Quiet
<1>3. /\ op'[c].at = "setting" /\ op'[c].job = op[c].job /\ op'[c].todo = op[c].todo
      /\ op'[c].key = op[c].key /\ op'[c].stream = Open /\ op'[c].local = "open"
  BY <1>1 DEF StartSet, Ops
<1>4. Only(c)
  <2>1. "setting" \in Calls /\ Open \in Streams /\ "open" \in Sides
    BY DEF Calls, Open, Streams, Sides
  <2>. QED  BY <1>1, <2>1 DEF StartSet, Only, Ops
<1>5. ClientOK(c)'
  BY <1>1, <1>2, <1>3, Moving DEF ClientOK, Position, Content, Written, BlobCalls, Reads, Open
<1>6. Slots' /\ free' \in [Machines -> 0..Capacity]
  BY <1>1, <1>3, <1>4, SlotTaken DEF IInv, StartSet, Holding
<1>7. known' = known /\ published' = published /\ vendor' = vendor /\ jobs' = jobs /\ crashes' = crashes
  BY DEF StartSet, store, bounds
<1>. QED  BY <1>2, <1>4, <1>5, <1>6, <1>7, OnePrivateStep

\* StreamEnds keeps it: the end of a stream is seen only after all of it.
LEMMA StreamEndsKeeps ==
  ASSUME CacheAssumption, IInv, NEW c \in Clients, StreamEnds(c)
  PROVE  IInv' /\ StoreStep
<1>1. /\ op \in [Clients -> Ops] /\ op[c] \in Ops /\ staged \in [Clients -> Stagings]
      /\ ClientOK(c) /\ op[c].at \in {"setting", "session"}
      /\ op[c].key \in Keys /\ At[c] \in Machines
  BY Facts DEF StreamEnds
<1>2. StoreStep /\ Grow /\ fs' = fs
  BY QuietGrows DEF StreamEnds, store, Quiet
<1>3. PICK end \in {"eof", "error"} :
         op' = [op EXCEPT ![c].stream = [end |-> end, whole |-> end = "eof"]]
  BY DEF StreamEnds
<1>. DEFINE stream == [end |-> end, whole |-> end = "eof"]
<1>4. stream \in Streams /\ (stream.whole <=> stream.end = "eof")
  BY DEF Streams
<1>. HIDE DEF stream
<1>5. /\ op'[c].at = op[c].at /\ op'[c].job = op[c].job /\ op'[c].todo = op[c].todo
      /\ op'[c].key = op[c].key /\ op'[c].stream = stream /\ op'[c].local = op[c].local
  BY <1>1, <1>3 DEF Ops, stream
<1>6. Only(c)
  BY <1>1, <1>3, <1>4 DEF StreamEnds, Only, Ops, stream
<1>7. ClientOK(c)'
  BY <1>1, <1>2, <1>4, <1>5, Moving
  DEF ClientOK, Position, Content, Written, BlobCalls, Reads, Grow
<1>8. Slots' /\ free' \in [Machines -> 0..Capacity]
  BY <1>5, <1>6, SlotsKept DEF IInv, StreamEnds
<1>9. known' = known /\ published' = published /\ vendor' = vendor /\ jobs' = jobs /\ crashes' = crashes
  BY DEF StreamEnds, store, bounds
<1>. QED  BY <1>2, <1>6, <1>7, <1>8, <1>9, OnePrivateStep

\* Who stores a result finds the blobs it names.
LEMMA ResultsComeLast ==
  ASSUME CacheAssumption, IInv, NEW c \in Clients, op[c].at = "setting"
  PROVE  op[c].key \in Blobs \/ \A b \in Blobs : Found(At[c], b)
<1>1. ClientOK(c)
  BY Facts
<1>. QED  BY <1>1 DEF ClientOK, Position, Written, CacheAssumption

Stores(m, k, object) == fs' = [fs EXCEPT ![m][k] = object] /\ remote' = remote

\* Writing an entry of the cache directory in this way is a step of the stores.
LEMMA Keeping ==
  ASSUME CacheAssumption, IInv, NEW m \in Machines, NEW k \in Keys,
         NEW object, object = fs[m][k] \/ object = "full",
         Stores(m, k, object),
         k \in Blobs \/ Listed(remote[k]) \/ \A b \in Blobs : Found(m, b)
  PROVE  StoreStep /\ Grow /\ fs'[m][k] = object
<1>1. StoreTypes /\ Whole
  BY DEF IInv, TypeOK, StoreTypes, Entries
<1>2. fs'[m][k] = object
  BY <1>1 DEF StoreTypes, Stores
<1>3. CASE object = "full"
  <2>1. Kept(m, k)
    BY <1>3 DEF Kept, Stores
  <2>2. StoreStep
    BY <2>1 DEF StoreStep
  <2>. QED  BY <1>1, <1>2, <2>2, StoresGrow
<1>4. CASE object = fs[m][k]
  <2>1. fs' = fs
    BY <1>1, <1>4 DEF StoreTypes, Stores
  <2>. QED  BY <1>2, <2>1, QuietGrows DEF Quiet, Stores
<1>. QED  BY <1>3, <1>4

\* So is putting an object.
LEMMA Sharing ==
  ASSUME CacheAssumption, IInv, NEW m \in Machines, NEW k \in Keys,
         NEW object \in {remote[k], "full", "pending"},
         remote' = [remote EXCEPT ![k] = object], fs' = fs,
         k \in Blobs \/ \A b \in Blobs : Found(m, b)
  PROVE  StoreStep /\ Grow
<1>1. StoreTypes /\ Whole
  BY DEF IInv, TypeOK, StoreTypes, Entries
<1>2. CASE object \in {"full", "pending"}
  <2>1. Shared(m, k)
    BY <1>2 DEF Shared
  <2>2. StoreStep
    BY <2>1 DEF StoreStep
  <2>. QED  BY <1>1, <2>2, StoresGrow
<1>3. CASE object = remote[k]
  <2>1. remote' = remote
    BY <1>1, <1>3 DEF StoreTypes
  <2>. QED  BY <2>1, QuietGrows DEF Quiet
<1>. QED  BY <1>2, <1>3

\* SetLocal keeps the invariant: the rename comes after a whole copy.
LEMMA SetLocalKeeps ==
  ASSUME CacheAssumption, IInv, NEW c \in Clients, SetLocal(c)
  PROVE  IInv' /\ StoreStep
<1>1. /\ op \in [Clients -> Ops] /\ op[c] \in Ops /\ staged \in [Clients -> Stagings]
      /\ ClientOK(c) /\ op[c].at = "setting"
      /\ op[c].key \in Keys /\ At[c] \in Machines /\ Local(c) \in Entries
      /\ op[c].stream \in Streams
  BY Facts DEF SetLocal, Ops, Entries
<1>2. PICK out \in FsSet(Local(c), op[c].stream) :
        /\ fs' = [fs EXCEPT ![At[c]][op[c].key] = out.object]
        /\ op' = [op EXCEPT ![c].local = IF out.ok THEN "ok" ELSE "failed"]
  BY DEF SetLocal
<1>3. op[c].stream.whole = TRUE \/ op[c].stream.end # "eof"
  BY <1>1 DEF ClientOK, Content
<1>4. out.object \in {Local(c), "full"} /\ out.ok \in BOOLEAN /\ (out.ok => out.object = "full")
  BY <1>1, <1>3, FsSetOutcome
<1>5. StoreStep /\ Grow /\ fs'[At[c]][op[c].key] = out.object
  <2>1. op[c].key \in Blobs \/ \A b \in Blobs : Found(At[c], b)
    BY <1>1, ResultsComeLast
  <2>2. Stores(At[c], op[c].key, out.object)
    BY <1>2 DEF SetLocal, Stores
  <2>3. out.object = fs[At[c]][op[c].key] \/ out.object = "full"
    BY <1>4 DEF Local
  <2>. QED  BY <1>1, <2>1, <2>2, <2>3, Keeping
<1>. DEFINE local == IF out.ok THEN "ok" ELSE "failed"
<1>6. local \in Sides /\ (local = "ok" => out.object = "full")
  BY <1>4 DEF Sides
<1>. HIDE DEF local
<1>7. /\ op'[c].at = "setting" /\ op'[c].job = op[c].job /\ op'[c].todo = op[c].todo
      /\ op'[c].key = op[c].key /\ op'[c].stream = op[c].stream /\ op'[c].local = local
  BY <1>1, <1>2 DEF Ops, local
<1>8. Only(c)
  BY <1>1, <1>2, <1>6 DEF SetLocal, Only, Ops, local
<1>9. Position(c)' /\ Content(c)'
  BY <1>1, <1>7 DEF ClientOK, Position, Content, BlobCalls, Reads
<1>10. Written(c)'
  BY <1>5, <1>6, <1>7, Moving DEF Written
<1>11. Slots' /\ free' \in [Machines -> 0..Capacity]
  BY <1>1, <1>7, <1>8, SlotsKept DEF IInv, SetLocal
<1>12. known' = known /\ published' = published /\ vendor' = vendor /\ jobs' = jobs /\ crashes' = crashes
  BY DEF SetLocal, bounds
<1>. QED  BY <1>5, <1>8, <1>9, <1>10, <1>11, <1>12, OnePrivateStep DEF ClientOK

\* SetRemote keeps it: no backend stores a part, or a result too early.
LEMMA SetRemoteKeeps ==
  ASSUME CacheAssumption, IInv, NEW c \in Clients, SetRemote(c)
  PROVE  IInv' /\ StoreStep
<1>1. /\ op \in [Clients -> Ops] /\ op[c] \in Ops /\ staged \in [Clients -> Stagings]
      /\ ClientOK(c) /\ op[c].at = "setting"
      /\ op[c].key \in Keys /\ At[c] \in Machines /\ Far(c) \in Objects
      /\ op[c].stream \in Streams /\ vendor \in Vendors
  BY Facts DEF SetRemote, Ops
<1>2. PICK out \in Set(vendor, Far(c), op[c].stream) :
        /\ remote' = [remote EXCEPT ![op[c].key] = out.object]
        /\ op' = [op EXCEPT ![c].far = IF out.ok THEN "ok" ELSE "failed"]
  BY DEF SetRemote
<1>3. op[c].stream.whole <=> op[c].stream.end = "eof"
  BY <1>1 DEF ClientOK, Content
<1>4. out.object \in {Far(c), "full"} /\ out.ok \in BOOLEAN
  BY <1>1, <1>3, SetOutcome
<1>5. StoreStep /\ Grow /\ fs' = fs
  BY <1>1, <1>2, <1>4, ResultsComeLast, Sharing DEF Far, SetRemote
<1>. DEFINE far == IF out.ok THEN "ok" ELSE "failed"
<1>6. far \in Sides
  BY <1>4 DEF Sides
<1>. HIDE DEF far
<1>7. /\ op'[c].at = "setting" /\ op'[c].job = op[c].job /\ op'[c].todo = op[c].todo
      /\ op'[c].key = op[c].key /\ op'[c].stream = op[c].stream /\ op'[c].local = op[c].local
  BY <1>1, <1>2 DEF Ops
<1>8. Only(c)
  BY <1>1, <1>2, <1>6 DEF SetRemote, Only, Ops, far
<1>9. ClientOK(c)'
  BY <1>1, <1>5, <1>7, Moving
  DEF ClientOK, Position, Content, Written, BlobCalls, Reads
<1>10. Slots' /\ free' \in [Machines -> 0..Capacity]
  BY <1>1, <1>7, <1>8, SlotsKept DEF IInv, SetRemote
<1>11. known' = known /\ published' = published /\ vendor' = vendor /\ jobs' = jobs /\ crashes' = crashes
  BY DEF SetRemote, bounds
<1>. QED  BY <1>5, <1>8, <1>9, <1>10, <1>11, OnePrivateStep

\* SetReturns keeps it: what it notes is in the cache directory.
LEMMA SetReturnsKeeps ==
  ASSUME CacheAssumption, IInv, NEW c \in Clients, SetReturns(c)
  PROVE  IInv' /\ StoreStep
<1>1. /\ staged \in [Clients -> Stagings] /\ At[c] \in Machines /\ op[c].at = "setting"
      /\ ClientOK(c) /\ known \in [Machines -> SUBSET Blobs] /\ jobs \in [Clients -> 0..MaxJobs]
  BY Facts DEF SetReturns, IInv, TypeOK
<1>2. StoreStep /\ Grow /\ fs' = fs /\ remote' = remote
  BY QuietGrows DEF SetReturns, Quiet
<1>3. OthersStaged(c)
  BY <1>1 DEF OthersStaged, SetReturns
<1>4. published' = published \cup {} /\ vendor' = vendor /\ jobs' = jobs /\ crashes' = crashes
  BY DEF SetReturns, bounds
<1>. DEFINE more == {op[c].key} \cap Blobs
<1>5. CASE /\ op[c].local = "ok" /\ Succeed(c)
           /\ known' = [known EXCEPT ![At[c]] = @ \cup more]
  <2>1. \A b \in Blobs : b = op[c].key => Found(At[c], b)'
    BY <1>1, <1>2, <1>5 DEF ClientOK, Written, Found
  <2>2. Only(c) /\ ClientOK(c)' /\ op'[c].at = "next"
    BY <1>2, <1>3, <1>5, <2>1, Succeeding
  <2>3. Slots' /\ free' \in [Machines -> 0..Capacity]
    BY <1>1, <2>2, SlotReturned DEF IInv, SetReturns, Holding
  <2>4. more \subseteq Blobs /\ \A b \in more : Found(At[c], b)'
    BY <2>1
  <2>5. known' = [known EXCEPT ![At[c]] = @ \cup more]
    BY <1>5
  <2>. HIDE DEF more
  <2>6. IInv'
    BY <1>1, <1>2, <1>4, <2>2, <2>3, <2>4, <2>5, OneStep
  <2>. QED  BY <1>2, <2>6
<1>6. CASE Fail(c) /\ UNCHANGED known
  <2>1. Only(c) /\ ClientOK(c)' /\ op'[c].at = "idle"
    BY <1>3, <1>6, Failing
  <2>2. Slots' /\ free' \in [Machines -> 0..Capacity]
    BY <1>1, <2>1, SlotReturned DEF IInv, SetReturns, Holding
  <2>. QED  BY <1>2, <1>4, <1>6, <2>1, <2>2, OnePrivateStep
<1>. QED  BY <1>5, <1>6 DEF SetReturns

-----------------------------------------------------------------------------
(* The steps of a staged writer                                            *)

\* Cancelling gives up the job.
LEMMA Cancelling ==
  ASSUME CacheAssumption, IInv, NEW c \in Clients, Cancel(c)
  PROVE  Only(c) /\ ClientOK(c)' /\ op'[c].at = "idle"
<1>1. staged \in [Clients -> Stagings] /\ vendor \in Vendors
  BY Facts
<1>2. PICK left \in Abort(vendor, "none") : \E out \in Delete(vendor, left) :
         staged' = [staged EXCEPT ![c] = [file |-> "none", object |-> out.object]]
  BY DEF Cancel
<1>. PICK out \in Delete(vendor, left) :
         staged' = [staged EXCEPT ![c] = [file |-> "none", object |-> out.object]]
  BY <1>2
<1>3. left \in {"none", "partial"}
  BY <1>1, RemovalOutcome DEF Objects
<1>4. out.object \in Objects
  BY <1>1, <1>2, <1>3, RemovalOutcome DEF Objects
<1>5. OthersStaged(c)
  <2>1. [file |-> "none", object |-> out.object] \in Stagings
    BY <1>4 DEF Stagings, Entries
  <2>. QED  BY <1>1, <1>2, <2>1 DEF OthersStaged
<1>. QED  BY <1>5, Failing DEF Cancel

\* So a cancelled step that leaves the stores alone keeps the invariant.
LEMMA CancelKeeps ==
  ASSUME CacheAssumption, IInv, NEW c \in Clients, Cancel(c), op[c].at \notin Holding,
         UNCHANGED <<bounds, free, store>>
  PROVE  IInv' /\ StoreStep
<1>1. Only(c) /\ ClientOK(c)' /\ op'[c].at = "idle"
  BY Cancelling
<1>2. StoreStep /\ known' = known /\ published' = published /\ free' = free
  BY QuietGrows DEF store, Quiet
<1>3. Slots' /\ free' \in [Machines -> 0..Capacity]
  BY <1>1, <1>2, SlotsKept DEF IInv, Holding
<1>. QED  BY <1>1, <1>2, <1>3, OnePrivateStep DEF bounds

\* BeginWrite keeps it.
LEMMA BeginWriteKeeps ==
  ASSUME CacheAssumption, IInv, NEW c \in Clients, BeginWrite(c)
  PROVE  IInv' /\ StoreStep
<1>1. /\ op \in [Clients -> Ops] /\ op[c] \in Ops /\ staged \in [Clients -> Stagings]
      /\ ClientOK(c) /\ op[c].at = "begin"
  BY Facts DEF BeginWrite
<1>2. StoreStep /\ Grow
  BY QuietGrows DEF BeginWrite, store, Quiet
<1>3. /\ known' = known /\ published' = published /\ free' = free
      /\ vendor' = vendor /\ jobs' = jobs /\ crashes' = crashes
  BY DEF BeginWrite, store, bounds
<1>4. OthersStaged(c)
  <2>1. [file |-> "partial", object |-> "none"] \in Stagings
    BY DEF Stagings, Entries, Objects
  <2>. QED  BY <1>1, <2>1 DEF OthersStaged, BeginWrite
<1>5. CASE Goto(c, "session")
  <2>1. /\ op'[c].at = "session" /\ op'[c].job = op[c].job /\ op'[c].todo = op[c].todo
        /\ op'[c].key = op[c].key /\ op'[c].stream = op[c].stream
    BY <1>1, <1>5 DEF Goto, Ops
  <2>2. Only(c)
    BY <1>1, <1>4, <1>5 DEF Goto, Only, OthersStaged, Ops, Calls
  <2>3. ClientOK(c)'
    BY <1>1, <1>2, <2>1, Moving DEF ClientOK, Position, Content, Written, BlobCalls, Reads
  <2>4. Slots' /\ free' \in [Machines -> 0..Capacity]
    BY <1>1, <1>3, <2>1, <2>2, SlotsKept DEF IInv, Holding
  <2>. QED  BY <1>2, <1>3, <2>2, <2>3, <2>4, OnePrivateStep
<1>6. CASE Fail(c)
  <2>1. Only(c) /\ ClientOK(c)' /\ op'[c].at = "idle"
    BY <1>4, <1>6, Failing
  <2>2. Slots' /\ free' \in [Machines -> 0..Capacity]
    BY <1>1, <1>3, <2>1, SlotsKept DEF IInv, Holding
  <2>. QED  BY <1>2, <1>3, <2>1, <2>2, OnePrivateStep
<1>. QED  BY <1>5, <1>6 DEF BeginWrite

\* EndSession keeps it: what is committed has arrived whole.
LEMMA EndSessionKeeps ==
  ASSUME CacheAssumption, IInv, NEW c \in Clients, EndSession(c)
  PROVE  IInv' /\ StoreStep
<1>1. /\ op \in [Clients -> Ops] /\ op[c] \in Ops /\ staged \in [Clients -> Stagings]
      /\ staged[c] \in Stagings /\ ClientOK(c) /\ op[c].at = "session"
  BY Facts DEF EndSession
<1>2. StoreStep /\ Grow
  BY QuietGrows DEF EndSession, store, Quiet
<1>3. /\ known' = known /\ published' = published /\ free' = free
      /\ vendor' = vendor /\ jobs' = jobs /\ crashes' = crashes
  BY DEF EndSession, store, bounds
<1>4. CASE /\ op[c].stream.end = "eof"
           /\ staged' = [staged EXCEPT ![c].file = Received(op[c].stream)]
           /\ Goto(c, "commit")
  <2>1. /\ op'[c].at = "commit" /\ op'[c].job = op[c].job /\ op'[c].todo = op[c].todo
        /\ op'[c].key = op[c].key /\ op'[c].stream = op[c].stream
    BY <1>1, <1>4 DEF Goto, Ops
  <2>2. Received(op[c].stream) = "full"
    BY <1>1, <1>4 DEF ClientOK, Content, Received
  <2>3. OthersStaged(c) /\ staged'[c].file = "full"
    BY <1>1, <1>4, <2>2 DEF OthersStaged, Stagings, Entries
  <2>4. Only(c)
    BY <1>1, <1>4, <2>3 DEF Goto, Only, OthersStaged, Ops, Calls
  <2>5. ClientOK(c)'
    BY <1>1, <1>2, <1>4, <2>1, <2>3, Moving
    DEF ClientOK, Position, Content, Written, BlobCalls, Reads
  <2>6. Slots' /\ free' \in [Machines -> 0..Capacity]
    BY <1>1, <1>3, <2>1, <2>4, SlotsKept DEF IInv, Holding
  <2>. QED  BY <1>2, <1>3, <2>4, <2>5, <2>6, OnePrivateStep
<1>5. CASE Cancel(c)
  BY <1>1, <1>5, CancelKeeps DEF EndSession, Holding
<1>. QED  BY <1>4, <1>5 DEF EndSession

\* CommitFile keeps it: the renamed file is whole.
LEMMA CommitFileKeeps ==
  ASSUME CacheAssumption, IInv, NEW c \in Clients, CommitFile(c)
  PROVE  IInv' /\ StoreStep
<1>1. /\ op \in [Clients -> Ops] /\ op[c] \in Ops /\ staged \in [Clients -> Stagings]
      /\ staged[c] \in Stagings /\ ClientOK(c) /\ op[c].at = "commit"
      /\ op[c].key \in Keys /\ At[c] \in Machines
  BY Facts DEF CommitFile
<1>2. op[c].key \in Blobs /\ staged[c].file = "full"
  BY <1>1 DEF ClientOK, Position, Content, BlobCalls
<1>3. /\ known' = known /\ published' = published /\ free' = free /\ remote' = remote
      /\ vendor' = vendor /\ jobs' = jobs /\ crashes' = crashes
  BY DEF CommitFile, bounds
<1>4. CASE /\ fs' = [fs EXCEPT ![At[c]][op[c].key] = staged[c].file]
           /\ staged' = [staged EXCEPT ![c].file = "none"]
           /\ Goto(c, "upload")
  <2>1. StoreStep /\ Grow /\ fs'[At[c]][op[c].key] = "full"
    <3>1. Stores(At[c], op[c].key, staged[c].file)
      BY <1>3, <1>4 DEF Stores
    <3>. QED  BY <1>1, <1>2, <3>1, Keeping
  <2>2. /\ op'[c].at = "upload" /\ op'[c].job = op[c].job /\ op'[c].todo = op[c].todo
        /\ op'[c].key = op[c].key /\ op'[c].stream = op[c].stream
    BY <1>1, <1>4 DEF Goto, Ops
  <2>3. OthersStaged(c)
    BY <1>1, <1>4 DEF OthersStaged, Stagings, Entries
  <2>4. Only(c)
    BY <1>1, <1>4, <2>3 DEF Goto, Only, OthersStaged, Ops, Calls
  <2>5. ClientOK(c)'
    BY <1>1, <2>1, <2>2, Moving
    DEF ClientOK, Position, Content, Written, BlobCalls, Reads
  <2>6. Slots' /\ free' \in [Machines -> 0..Capacity]
    BY <1>1, <1>3, <2>2, <2>4, SlotsKept DEF IInv, Holding
  <2>. QED  BY <1>3, <2>1, <2>4, <2>5, <2>6, OnePrivateStep
<1>5. CASE Cancel(c) /\ UNCHANGED fs
  BY <1>1, <1>3, <1>5, CancelKeeps DEF bounds, store, Holding
<1>. QED  BY <1>4, <1>5 DEF CommitFile

\* EndUpload keeps it: an upload that succeeds has staged all of the content.
LEMMA EndUploadKeeps ==
  ASSUME CacheAssumption, IInv, NEW c \in Clients, EndUpload(c)
  PROVE  IInv' /\ StoreStep
<1>1. /\ op \in [Clients -> Ops] /\ op[c] \in Ops /\ staged \in [Clients -> Stagings]
      /\ staged[c] \in Stagings /\ ClientOK(c) /\ op[c].at = "upload"
      /\ op[c].stream \in Streams /\ vendor \in Vendors
      /\ op[c].key \in Keys /\ At[c] \in Machines
  BY Facts DEF EndUpload, Ops
<1>2. StoreStep /\ Grow /\ fs' = fs
  BY QuietGrows DEF EndUpload, store, Quiet
<1>3. PICK out \in Put(vendor, "none", op[c].stream) :
        /\ staged' = [staged EXCEPT ![c].object = out.object]
        /\ op' = [op EXCEPT ![c].at = IF out.ok THEN "copy" ELSE "cleanup", ![c].far = "failed"]
  BY DEF EndUpload
<1>4. out.object \in {"none", "full"} /\ out.ok \in BOOLEAN /\ (out.ok => out.object = "full")
  BY <1>1, PutOutcome DEF ClientOK, Content, Objects
<1>. DEFINE place == IF out.ok THEN "copy" ELSE "cleanup"
<1>5. place \in {"copy", "cleanup"} /\ (place = "copy" => out.object = "full")
  BY <1>4
<1>. HIDE DEF place
<1>6. /\ op'[c].at = place /\ op'[c].job = op[c].job /\ op'[c].todo = op[c].todo
      /\ op'[c].key = op[c].key /\ op'[c].stream = op[c].stream
  BY <1>1, <1>3 DEF Ops, place
<1>7. OthersStaged(c) /\ staged'[c].object = out.object
  BY <1>1, <1>3, <1>4 DEF OthersStaged, Stagings, Objects
<1>8. Only(c)
  <2>1. place \in Calls /\ "failed" \in Sides
    BY <1>5 DEF Calls, Sides
  <2>. QED  BY <1>1, <1>3, <1>7, <2>1 DEF Only, OthersStaged, Ops, place
<1>9. ClientOK(c)'
  BY <1>1, <1>2, <1>5, <1>6, <1>7, Moving
  DEF ClientOK, Position, Content, Written, BlobCalls, Reads
<1>10. Slots' /\ free' \in [Machines -> 0..Capacity]
  BY <1>1, <1>5, <1>6, <1>8, SlotsKept DEF IInv, EndUpload, Holding
<1>11. known' = known /\ published' = published /\ vendor' = vendor /\ jobs' = jobs /\ crashes' = crashes
  BY DEF EndUpload, store, bounds
<1>. QED  BY <1>2, <1>8, <1>9, <1>10, <1>11, OnePrivateStep

\* Copy keeps it: an object is replaced by whole content, or listed at least.
LEMMA CopyKeeps ==
  ASSUME CacheAssumption, IInv, NEW c \in Clients, Copy(c)
  PROVE  IInv' /\ StoreStep
<1>1. /\ op \in [Clients -> Ops] /\ op[c] \in Ops /\ staged \in [Clients -> Stagings]
      /\ ClientOK(c) /\ op[c].at = "copy" /\ op[c].key \in Keys /\ At[c] \in Machines
      /\ Far(c) \in Objects
  BY Facts DEF Copy
<1>2. op[c].key \in Blobs /\ staged[c].object = "full"
  BY <1>1 DEF ClientOK, Position, Content, BlobCalls
<1>3. PICK out \in S3Copy("full", Far(c)) \cup GcsCopy("full", Far(c)) \cup AzureStartCopy(Far(c)) :
        /\ remote' = [remote EXCEPT ![op[c].key] = out.object]
        /\ \/ op' = [op EXCEPT ![c].at = "cleanup", ![c].far = IF out.ok THEN "ok" ELSE "failed"]
           \/ op' = [op EXCEPT ![c].at = IF out.ok THEN "copying" ELSE "cleanup"]
  BY <1>2 DEF Copy, S3Commit, GcsCommit, AzureCommit
<1>4. out.object \in {Far(c), "full", "pending"} /\ out.ok \in BOOLEAN
  BY <1>1, CopyOutcome
<1>5. StoreStep /\ Grow /\ fs' = fs
  BY <1>1, <1>2, <1>3, <1>4, Sharing DEF Far, Copy
<1>6. PICK place \in {"copying", "cleanup"}, far \in Sides :
         op' = [op EXCEPT ![c].at = place, ![c].far = far]
  <2>1. CASE op' = [op EXCEPT ![c].at = "cleanup", ![c].far = IF out.ok THEN "ok" ELSE "failed"]
    BY <2>1 DEF Sides
  <2>2. CASE op' = [op EXCEPT ![c].at = IF out.ok THEN "copying" ELSE "cleanup"]
    <3>. DEFINE place == IF out.ok THEN "copying" ELSE "cleanup"
    <3>1. op' = [op EXCEPT ![c].at = place, ![c].far = op[c].far]
      BY <1>1, <2>2 DEF Ops
    <3>. QED  BY <1>1, <3>1 DEF Ops
  <2>. QED  BY <1>3, <2>1, <2>2
<1>7. /\ op'[c].at = place /\ op'[c].job = op[c].job /\ op'[c].todo = op[c].todo
      /\ op'[c].key = op[c].key /\ op'[c].stream = op[c].stream
  BY <1>1, <1>6 DEF Ops
<1>8. Only(c)
  <2>1. place \in Calls
    BY <1>6 DEF Calls
  <2>. QED  BY <1>1, <1>6, <2>1 DEF Only, Ops, Copy
<1>9. ClientOK(c)'
  BY <1>1, <1>5, <1>6, <1>7, Moving
  DEF ClientOK, Position, Content, Written, BlobCalls, Reads
<1>10. Slots' /\ free' \in [Machines -> 0..Capacity]
  BY <1>1, <1>6, <1>7, <1>8, SlotsKept DEF IInv, Copy, Holding
<1>11. known' = known /\ published' = published /\ vendor' = vendor /\ jobs' = jobs /\ crashes' = crashes
  BY DEF Copy, bounds
<1>. QED  BY <1>5, <1>8, <1>9, <1>10, <1>11, OnePrivateStep

\* PollCopy keeps it.
LEMMA PollCopyKeeps ==
  ASSUME CacheAssumption, IInv, NEW c \in Clients, PollCopy(c)
  PROVE  IInv' /\ StoreStep
<1>1. /\ op \in [Clients -> Ops] /\ op[c] \in Ops /\ staged \in [Clients -> Stagings]
      /\ ClientOK(c) /\ op[c].at = "copying"
  BY Facts DEF PollCopy
<1>2. StoreStep /\ Grow /\ fs' = fs
  BY QuietGrows DEF PollCopy, store, Quiet
<1>3. PICK far \in Sides : op' = [op EXCEPT ![c].at = "cleanup", ![c].far = far]
  BY DEF PollCopy, Sides
<1>4. /\ op'[c].at = "cleanup" /\ op'[c].job = op[c].job /\ op'[c].todo = op[c].todo
      /\ op'[c].key = op[c].key /\ op'[c].stream = op[c].stream
  BY <1>1, <1>3 DEF Ops
<1>5. Only(c)
  BY <1>1, <1>3 DEF Only, Ops, PollCopy, Calls
<1>6. ClientOK(c)'
  BY <1>1, <1>2, <1>4, Moving
  DEF ClientOK, Position, Content, Written, BlobCalls, Reads
<1>7. Slots' /\ free' \in [Machines -> 0..Capacity]
  BY <1>1, <1>4, <1>5, SlotsKept DEF IInv, PollCopy, Holding
<1>8. known' = known /\ published' = published /\ vendor' = vendor /\ jobs' = jobs /\ crashes' = crashes
  BY DEF PollCopy, store, bounds
<1>. QED  BY <1>2, <1>5, <1>6, <1>7, <1>8, OnePrivateStep

\* Cleanup keeps it: the committed file stays, whatever became of the bucket's.
LEMMA CleanupKeeps ==
  ASSUME CacheAssumption, IInv, NEW c \in Clients, Cleanup(c)
  PROVE  IInv' /\ StoreStep
<1>1. /\ staged \in [Clients -> Stagings] /\ staged[c] \in Stagings /\ vendor \in Vendors
      /\ ClientOK(c) /\ op[c].at = "cleanup"
      /\ op[c].key \in Keys /\ At[c] \in Machines
  BY Facts DEF Cleanup
<1>2. StoreStep /\ Grow /\ fs' = fs
  BY QuietGrows DEF Cleanup, store, Quiet
<1>3. PICK out \in Delete(vendor, staged[c].object) :
        staged' = [staged EXCEPT ![c].object = out.object]
  BY DEF Cleanup
<1>4. out.object \in Objects
  BY <1>1, RemovalOutcome DEF Stagings, Objects
<1>5. OthersStaged(c)
  BY <1>1, <1>3, <1>4 DEF OthersStaged, Stagings
<1>6. Only(c) /\ ClientOK(c)' /\ op'[c].at \in {"next", "idle"}
  <2>1. \A b \in Blobs : b = op[c].key => Found(At[c], b)'
    BY <1>1, <1>2 DEF ClientOK, Written, Found
  <2>2. CASE Succeed(c)
    BY <1>2, <1>5, <2>1, <2>2, Succeeding
  <2>3. CASE Fail(c)
    BY <1>5, <2>3, Failing
  <2>. QED  BY <2>2, <2>3 DEF Cleanup
<1>7. Slots' /\ free' \in [Machines -> 0..Capacity]
  BY <1>1, <1>6, SlotsKept DEF IInv, Cleanup, Holding
<1>8. known' = known /\ published' = published /\ vendor' = vendor /\ jobs' = jobs /\ crashes' = crashes
  BY DEF Cleanup, store, bounds
<1>. QED  BY <1>2, <1>6, <1>7, <1>8, OnePrivateStep

-----------------------------------------------------------------------------
(* The steps of a reader                                                   *)

\* Opening a reader takes a slot; nothing else changes.
LEMMA OpeningKeeps ==
  ASSUME CacheAssumption, IInv, NEW c \in Clients, NEW place \in {"reading", "fill"},
         op[c].at = "get", Acquire(c), Goto(c, place), UNCHANGED <<bounds, staged, store>>
  PROVE  IInv' /\ StoreStep
<1>1. /\ op \in [Clients -> Ops] /\ op[c] \in Ops /\ staged \in [Clients -> Stagings]
      /\ ClientOK(c)
  BY Facts
<1>2. StoreStep /\ Grow
  BY QuietGrows DEF store, Quiet
<1>3. /\ op'[c].at = place /\ op'[c].job = op[c].job /\ op'[c].todo = op[c].todo
      /\ op'[c].key = op[c].key /\ op'[c].stream = op[c].stream
  BY <1>1 DEF Ops, Goto
<1>4. Only(c)
  <2>1. place \in Calls
    BY DEF Calls
  <2>. QED  BY <1>1, <2>1 DEF Only, Ops, Goto
<1>5. ClientOK(c)'
  BY <1>1, <1>2, <1>3, Moving DEF ClientOK, Position, Content, Written, BlobCalls, Reads
<1>6. Slots' /\ free' \in [Machines -> 0..Capacity]
  BY <1>3, <1>4, SlotTaken DEF IInv, Holding
<1>. QED  BY <1>2, <1>4, <1>5, <1>6, OnePrivateStep DEF bounds, store

\* GetFails keeps the invariant.
LEMMA GetFailsKeeps ==
  ASSUME CacheAssumption, IInv, NEW c \in Clients, GetFails(c)
  PROVE  IInv' /\ StoreStep
<1>1. staged \in [Clients -> Stagings] /\ op[c].at = "get"
  BY Facts DEF GetFails
<1>2. StoreStep /\ Grow
  BY QuietGrows DEF GetFails, store, Quiet
<1>3. OthersStaged(c)
  BY <1>1 DEF OthersStaged, GetFails
<1>4. Only(c) /\ ClientOK(c)' /\ op'[c].at = "idle"
  BY <1>3, Failing DEF GetFails
<1>5. Slots' /\ free' \in [Machines -> 0..Capacity]
  BY <1>1, <1>4, SlotsKept DEF IInv, GetFails, Brief, Holding
<1>6. known' = known /\ published' = published /\ vendor' = vendor /\ jobs' = jobs /\ crashes' = crashes
  BY DEF GetFails, store, bounds
<1>. QED  BY <1>2, <1>4, <1>5, <1>6, OnePrivateStep

\* Fill keeps it: it stores only what the bucket has whole and lists.
LEMMA FillKeeps ==
  ASSUME CacheAssumption, IInv, NEW c \in Clients, Fill(c)
  PROVE  IInv' /\ StoreStep
<1>1. /\ op \in [Clients -> Ops] /\ op[c] \in Ops /\ staged \in [Clients -> Stagings]
      /\ ClientOK(c) /\ op[c].at = "fill" /\ vendor \in Vendors
      /\ op[c].key \in Keys /\ At[c] \in Machines
      /\ Local(c) \in Entries /\ Far(c) \in Objects /\ Far(c) # "partial"
  BY Facts DEF Fill, Entries
<1>2. PICK stream \in Downloads(c) : \E out \in FsSet(Local(c), stream) :
           /\ fs' = [fs EXCEPT ![At[c]][op[c].key] = out.object]
           /\ IF out.ok THEN Goto(c, "reading") /\ UNCHANGED free ELSE Fail(c) /\ Release(c)
  BY DEF Fill
<1>3. ASSUME NEW far \in Get(vendor, Far(c)) PROVE far = "full" /\ Far(c) = "full"
  BY <1>1, <1>3, ReadOutcome
<1>4. stream.end = "eof" => stream.whole = TRUE /\ Far(c) = "full"
  <2>1. \/ stream.end = "error"
        \/ \E far \in Get(vendor, Far(c)) : stream = [end |-> "eof", whole |-> far = "full"]
    BY DEF Downloads
  <2>2. ASSUME NEW far \in Get(vendor, Far(c)), stream = [end |-> "eof", whole |-> far = "full"]
        PROVE  stream.whole = TRUE /\ Far(c) = "full"
    BY <1>3, <2>2
  <2>. QED  BY <2>1, <2>2
<1>5. PICK out \in FsSet(Local(c), stream) :
           /\ fs' = [fs EXCEPT ![At[c]][op[c].key] = out.object]
           /\ IF out.ok THEN Goto(c, "reading") /\ UNCHANGED free ELSE Fail(c) /\ Release(c)
  BY <1>2
<1>6. out.object = Local(c) \/ out.object = "full"
  BY <1>1, <1>4, FsSetOutcome
<1>7. StoreStep /\ Grow
  <2>1. Stores(At[c], op[c].key, out.object)
    BY <1>5 DEF Stores, Fill
  <2>2. out.object = fs[At[c]][op[c].key] \/ out.object = "full"
    BY <1>6 DEF Local
  <2>3. CASE stream.end = "eof"
    <3>1. Listed(remote[op[c].key])
      BY <1>4, <2>3 DEF Far, Listed
    <3>. QED  BY <1>1, <2>1, <2>2, <3>1, Keeping
  <2>4. CASE stream.end # "eof"
    <3>1. out.object = Local(c)
      BY <2>4, OutcomeFields DEF FsSet
    <3>2. fs \in [Machines -> [Keys -> Entries]]
      BY DEF IInv, TypeOK, Entries
    <3>3. fs' = fs
      BY <1>1, <1>5, <3>1, <3>2 DEF Local
    <3>. QED  BY <3>3, QuietGrows DEF Quiet, Fill
  <2>. QED  BY <2>3, <2>4
<1>8. known' = known /\ published' = published /\ vendor' = vendor /\ jobs' = jobs /\ crashes' = crashes
  BY DEF Fill, bounds
<1>9. OthersStaged(c) /\ staged' = staged
  BY <1>1 DEF OthersStaged, Fill
<1>10. CASE Goto(c, "reading") /\ UNCHANGED free
  <2>1. /\ op'[c].at = "reading" /\ op'[c].job = op[c].job /\ op'[c].todo = op[c].todo
        /\ op'[c].key = op[c].key /\ op'[c].stream = op[c].stream
    BY <1>1, <1>10 DEF Ops, Goto
  <2>2. Only(c)
    BY <1>1, <1>9, <1>10 DEF Only, OthersStaged, Ops, Goto, Calls
  <2>3. ClientOK(c)'
    BY <1>1, <1>7, <2>1, Moving DEF ClientOK, Position, Content, Written, BlobCalls, Reads
  <2>4. Slots' /\ free' \in [Machines -> 0..Capacity]
    BY <1>1, <1>10, <2>1, <2>2, SlotsKept DEF IInv, Holding
  <2>. QED  BY <1>7, <1>8, <2>2, <2>3, <2>4, OnePrivateStep
<1>11. CASE Fail(c) /\ Release(c)
  <2>1. Only(c) /\ ClientOK(c)' /\ op'[c].at = "idle"
    BY <1>9, <1>11, Failing
  <2>2. Slots' /\ free' \in [Machines -> 0..Capacity]
    BY <1>1, <1>11, <2>1, SlotReturned DEF IInv, Holding
  <2>. QED  BY <1>7, <1>8, <2>1, <2>2, OnePrivateStep
<1>. QED  BY <1>5, <1>10, <1>11

\* Close keeps it: the slot comes back.
LEMMA CloseKeeps ==
  ASSUME CacheAssumption, IInv, NEW c \in Clients, Close(c)
  PROVE  IInv' /\ StoreStep
<1>1. staged \in [Clients -> Stagings] /\ op[c].at = "reading" /\ ClientOK(c)
  BY Facts DEF Close
<1>2. StoreStep /\ Grow
  BY QuietGrows DEF Close, store, Quiet
<1>3. OthersStaged(c) /\ op[c].job = "read"
  BY <1>1 DEF OthersStaged, Close, ClientOK, Position, Reads
<1>4. Only(c) /\ ClientOK(c)' /\ op'[c].at = "next"
  BY <1>2, <1>3, Succeeding DEF Close
<1>5. Slots' /\ free' \in [Machines -> 0..Capacity]
  BY <1>1, <1>4, SlotReturned DEF IInv, Close, Holding
<1>6. known' = known /\ published' = published /\ vendor' = vendor /\ jobs' = jobs /\ crashes' = crashes
  BY DEF Close, store, bounds
<1>. QED  BY <1>2, <1>4, <1>5, <1>6, OnePrivateStep

-----------------------------------------------------------------------------
(* The process and the bucket                                              *)

\* A crash keeps the invariant: what is found does not need the process.
LEMMA CrashKeeps ==
  ASSUME CacheAssumption, IInv, NEW m \in Machines, Crash(m)
  PROVE  IInv' /\ StoreStep
<1>1. /\ op \in [Clients -> Ops] /\ staged \in [Clients -> Stagings]
      /\ known \in [Machines -> SUBSET Blobs] /\ free \in [Machines -> 0..Capacity]
      /\ crashes \in 0..MaxCrashes /\ Capacity \in Nat /\ MaxCrashes \in Nat
      /\ vendor \in Backends /\ published \subseteq Machines /\ jobs \in [Clients -> 0..MaxJobs]
      /\ TypeOK
  BY DEF IInv, TypeOK, CacheAssumption, Ops, Stagings, Entries
<1>2. StoreStep /\ Grow
  BY QuietGrows DEF Crash, Quiet
<1>3. StoreTypes' /\ Whole'
  <2>1. StoreTypes /\ Whole
    BY DEF IInv, TypeOK, StoreTypes, Entries
  <2>. QED  BY <1>2, <2>1, StoresGrow
<1>4. \A c \in Clients : /\ op'[c] = IF At[c] = m THEN Idle ELSE op[c]
                         /\ staged'[c] = IF At[c] = m THEN NotStaged ELSE staged[c]
  BY DEF Crash
<1>5. NotStaged \in Stagings
  BY DEF NotStaged, Stagings, Entries, Objects
<1>6. op' \in [Clients -> Ops] /\ staged' \in [Clients -> Stagings]
  <2>1. op' = [c \in Clients |-> IF At[c] = m THEN Idle ELSE op[c]]
    BY DEF Crash
  <2>2. staged' = [c \in Clients |-> IF At[c] = m THEN NotStaged ELSE staged[c]]
    BY DEF Crash
  <2>. QED  BY <1>1, <1>5, <2>1, <2>2, IdleOp
<1>7. ASSUME NEW c \in Clients PROVE ClientOK(c)'
  <2>1. CASE At[c] = m
    <3>1. op'[c].at = "idle" /\ op'[c].job = "none" /\ op'[c].stream = Open
      BY <1>4, <2>1 DEF Idle
    <3>. QED  BY <3>1 DEF ClientOK, Position, Content, Written, Open, BlobCalls, Reads
  <2>2. CASE At[c] # m
    BY <1>1, <1>2, <1>4, <2>2, Untouched DEF IInv
  <2>. QED  BY <2>1, <2>2
<1>8. \A n \in Machines : /\ known'[n] = IF n = m THEN {} ELSE known[n]
                          /\ free'[n] = IF n = m THEN Capacity ELSE free[n]
  BY <1>1 DEF Crash
<1>9. known' \in [Machines -> SUBSET Blobs] /\ free' \in [Machines -> 0..Capacity]
  <2>1. Capacity \in 0..Capacity
    BY <1>1
  <2>. QED  BY <1>1, <2>1 DEF Crash
<1>10. crashes' \in 0..MaxCrashes /\ vendor' = vendor /\ published' = published /\ jobs' = jobs
  BY <1>1 DEF Crash
<1>11. TypeOK'
  BY <1>1, <1>3, <1>6, <1>9, <1>10 DEF TypeOK, StoreTypes, Ops, Stagings, Entries
<1>12. KnownFound' /\ PublishedFound'
  BY <1>1, <1>2, <1>8, <1>10, StillFound DEF IInv, KnownFound, PublishedFound, Keys
<1>13. Slots'
  <2>1. \A d : d \notin Holders(m)'
    BY <1>4 DEF Holders, Idle, Holding
  <2>2. Holders(m)' = {}
    BY ONLY <2>1
  <2>3. \A n \in Machines \ {m} : \A d : d \in Holders(n)' <=> d \in Holders(n)
    BY <1>4 DEF Holders
  <2>4. \A n \in Machines \ {m} : Holders(n)' = Holders(n)
    BY ONLY <2>3
  <2>5. IsFiniteSet(Holders(m)') /\ Capacity = Capacity - Cardinality(Holders(m)')
    BY <1>1, <2>2, FS_EmptySet
  <2>. QED  BY <1>8, <2>4, <2>5 DEF IInv, Slots
<1>. QED  BY <1>2, <1>3, <1>7, <1>11, <1>12, <1>13 DEF IInv

\* The end of a copy in Azure keeps it: the object stays listed.
LEMMA CopyEndsKeeps ==
  ASSUME CacheAssumption, IInv, NEW k \in Keys, CopyEnds(k)
  PROVE  IInv' /\ StoreStep
<1>1. StoreTypes /\ Whole /\ TypeOK
  BY DEF IInv, TypeOK, StoreTypes, Entries
<1>2. Ended(k)
  BY DEF CopyEnds, Ended, Listed
<1>3. StoreStep
  BY <1>2 DEF StoreStep
<1>4. StoreTypes' /\ Whole' /\ Grow
  BY <1>1, <1>3, StoresGrow
<1>5. UNCHANGED <<vendor, jobs, crashes, staged, free, op, fs, known, published>>
  BY DEF CopyEnds, bounds
<1>6. TypeOK'
  BY <1>1, <1>4, <1>5 DEF TypeOK, StoreTypes
<1>7. \A c \in Clients : ClientOK(c)'
  BY <1>1, <1>4, <1>5, Untouched DEF IInv
<1>8. KnownFound' /\ PublishedFound'
  BY <1>1, <1>4, <1>5, StillFound DEF IInv, TypeOK, KnownFound, PublishedFound, Keys
<1>9. Slots'
  BY <1>5 DEF IInv, Slots, Holders
<1>. QED  BY <1>3, <1>4, <1>6, <1>7, <1>8, <1>9 DEF IInv

-----------------------------------------------------------------------------
(* Theorems                                                                *)

\* The invariant holds at first.
LEMMA InitInv == ASSUME CacheAssumption, Init PROVE IInv
<1>1. Capacity \in Nat /\ MaxCrashes \in Nat /\ MaxJobs \in Nat
  BY DEF CacheAssumption
<1>2. TypeOK
  <2>1. NotStaged \in Stagings
    BY DEF NotStaged, Stagings, Entries, Objects
  <2>. QED  BY <1>1, <2>1, IdleOp DEF Init, TypeOK, Ops, Stagings, Entries, Objects
<1>3. Whole /\ KnownFound /\ PublishedFound
  BY DEF Init, Whole, KnownFound, PublishedFound
<1>4. ASSUME NEW c \in Clients PROVE ClientOK(c)
  <2>1. op[c].at = "idle" /\ op[c].job = "none" /\ op[c].stream = Open
    BY DEF Init, Idle
  <2>. QED  BY <2>1 DEF ClientOK, Position, Content, Written, Open, BlobCalls, Reads
<1>5. Slots
  <2>1. \A m \in Machines : \A d : d \notin Holders(m)
    BY DEF Init, Holders, Idle, Holding
  <2>2. \A m \in Machines : Holders(m) = {}
    BY ONLY <2>1
  <2>3. IsFiniteSet({}) /\ Cardinality({}) = 0
    BY FS_EmptySet
  <2>4. ASSUME NEW m \in Machines
        PROVE  IsFiniteSet(Holders(m)) /\ free[m] = Capacity - Cardinality(Holders(m))
    <3>1. free[m] = Capacity
      BY DEF Init
    <3>. QED  BY <1>1, <2>2, <2>3, <3>1
  <2>. QED  BY <2>4 DEF Slots
<1>. QED  BY <1>2, <1>3, <1>4, <1>5 DEF IInv

\* Every step keeps it, and is one of the stores or leaves them alone.
LEMMA NextInv == ASSUME CacheAssumption, IInv, [Next]_vars PROVE IInv' /\ StoreStep
<1>1. ASSUME NEW c \in Clients, NextKey(c) PROVE IInv' /\ StoreStep
  BY <1>1, NextKeyKeeps
<1>2. ASSUME NEW c \in Clients, CasWrite(c) PROVE IInv' /\ StoreStep
  BY <1>2, AskOnceKeeps, AskKnownKeeps, StartSetKeeps, StreamEndsKeeps, SetLocalKeeps,
     SetRemoteKeeps, SetReturnsKeeps DEF CasWrite
<1>3. ASSUME NEW c \in Clients, StagedWrite(c) PROVE IInv' /\ StoreStep
  BY <1>3, BeginWriteKeeps, EndSessionKeeps, CommitFileKeeps, EndUploadKeeps, CopyKeeps,
     PollCopyKeeps, CleanupKeeps DEF StagedWrite
<1>4. ASSUME NEW c \in Clients, Load(c) PROVE IInv' /\ StoreStep
  BY <1>4, OpeningKeeps, GetFailsKeeps, FillKeeps, CloseKeeps DEF Load, GetLocal, GetRemote
<1>5. ASSUME NEW c \in Clients, NEW job \in {"write", "read"}, Begin(c, job)
      PROVE  IInv' /\ StoreStep
  BY <1>5, BeginKeeps
<1>6. ASSUME NEW m \in Machines, Crash(m) PROVE IInv' /\ StoreStep
  BY <1>6, CrashKeeps
<1>7. ASSUME NEW k \in Keys, CopyEnds(k) PROVE IInv' /\ StoreStep
  BY <1>7, CopyEndsKeeps
<1>8. CASE UNCHANGED vars
  <2>1. Quiet /\ vars' = vars
    BY <1>8 DEF vars, Quiet
  <2>. QED  BY <2>1, QuietGrows DEF vars, IInv, TypeOK, Whole, ClientOK, Position, Content,
         Written, Found, KnownFound, PublishedFound, Slots, Holders
<1>. QED  BY <1>1, <1>2, <1>3, <1>4, <1>5, <1>6, <1>7, <1>8 DEF Next, Step

\* The inductive invariant holds always.
THEOREM CacheInvariant == Spec => []IInv
<1>1. Init => IInv
  BY InitInv, CacheAssumption
<1>2. IInv /\ [Next]_vars => IInv'
  BY NextInv, CacheAssumption
<1>. QED  BY <1>1, <1>2, PTL DEF Spec

\* The variables of the cache keep their types; no process has handed out more
\* slots of its I/O semaphore than it has, nor returned more than it has taken.
THEOREM CacheTypeCorrect == Spec => []TypeOK
<1>1. IInv => TypeOK
  BY DEF IInv
<1>. QED  BY <1>1, CacheInvariant, PTL

\* A slot of the I/O semaphore that is not free is held by exactly one call
\* that has not returned, or by one open reader.
THEOREM SlotsAreHeld == Spec => []Slots
<1>1. IInv => Slots
  BY DEF IInv
<1>. QED  BY <1>1, CacheInvariant, PTL

\* Only Azure copies while others look on.
AzureCopies == \A k \in Keys : remote[k] \in {"pending", "failed"} => vendor = "azure"

\* Objects of the other vendors are never the destination of a copy under way.
LEMMA CopiesAreAzures == Spec => []AzureCopies
<1>1. Init => AzureCopies
  BY DEF Init, AzureCopies
<1>2. ASSUME IInv, AzureCopies, [Next]_vars PROVE AzureCopies'
  <2>1. vendor' = vendor
    BY <1>2 DEF Next, Step, NextKey, CasWrite, AskOnce, AskKnown, StartSet, StreamEnds, SetLocal,
       SetRemote, SetReturns, StagedWrite, BeginWrite, EndSession, CommitFile, EndUpload, Copy,
       PollCopy, Cleanup, Load, GetLocal, GetRemote, GetFails, Fill, Close, Begin, Crash,
       CopyEnds, bounds, vars
  <2>2. remote \in [Keys -> Objects]
    BY <1>2 DEF IInv, TypeOK
  <2>3. ASSUME NEW k \in Keys, NEW object \in {remote[k], "full"}, remote' = [remote EXCEPT ![k] = object]
        PROVE  AzureCopies'
    BY <1>2, <2>1, <2>2, <2>3 DEF AzureCopies
  <2>4. ASSUME vendor = "azure" PROVE AzureCopies'
    BY <2>1, <2>4 DEF AzureCopies
  <2>5. ASSUME NEW c \in Clients, SetRemote(c) PROVE AzureCopies'
    <3>1. /\ op[c].key \in Keys /\ Far(c) \in Objects /\ op[c].stream \in Streams
          /\ vendor \in Vendors /\ ClientOK(c)
      BY <1>2, <2>5, Facts, CacheAssumption DEF SetRemote, Ops
    <3>2. PICK out \in Set(vendor, Far(c), op[c].stream) :
            remote' = [remote EXCEPT ![op[c].key] = out.object]
      BY <2>5 DEF SetRemote
    <3>3. out.object \in {Far(c), "full"}
      BY <3>1, <3>2, SetOutcome DEF ClientOK, Content
    <3>. QED  BY <2>3, <3>1, <3>2, <3>3 DEF Far
  <2>6. ASSUME NEW c \in Clients, Copy(c), vendor # "azure" PROVE AzureCopies'
    <3>1. op[c].key \in Keys /\ ClientOK(c) /\ op[c].at = "copy"
      BY <1>2, <2>6, Facts, CacheAssumption DEF Copy
    <3>2. PICK out \in Request(Far(c), "full") : remote' = [remote EXCEPT ![op[c].key] = out.object]
      BY <2>6, <3>1 DEF Copy, S3Commit, GcsCommit, S3Copy, GcsCopy, ClientOK, Content
    <3>3. out.object \in {Far(c), "full"}
      BY <3>2, RequestOutcome
    <3>. QED  BY <2>3, <3>1, <3>2, <3>3 DEF Far
  <2>7. ASSUME NEW k \in Keys, CopyEnds(k) PROVE AzureCopies'
    <3>1. vendor = "azure"
      BY <1>2, <2>7 DEF CopyEnds, AzureCopies
    <3>. QED  BY <2>4, <3>1
  <2>8. CASE remote' = remote
    BY <1>2, <2>1, <2>8 DEF AzureCopies
  <2>9. \/ remote' = remote
        \/ \E c \in Clients : SetRemote(c) \/ Copy(c)
        \/ \E k \in Keys : CopyEnds(k)
    BY <1>2 DEF Next, Step, NextKey, CasWrite, AskOnce, AskKnown, StartSet, StreamEnds, SetLocal,
       SetReturns, StagedWrite, BeginWrite, EndSession, CommitFile, EndUpload,
       PollCopy, Cleanup, Load, GetLocal, GetRemote, GetFails, Fill, Close, Begin, Crash,
       store, vars
  <2>. QED  BY <2>4, <2>5, <2>6, <2>7, <2>8, <2>9
<1>. QED  BY <1>1, <1>2, CacheInvariant, PTL DEF Spec

\* A machine that has published a result can read the blobs it names, whatever the
\* clients, machines and failures - but for those that an Azure copy goes over or
\* has failed on - and no store ever has a part of an entry.
THEOREM PublishersFindBlobs == Spec => []PublisherFindsBlobs
<1>1. ASSUME IInv, AzureCopies PROVE PublisherFindsBlobs
  <2>1. ASSUME NEW m \in published, NEW k \in Blobs PROVE Readable(m, k) \/ Copied(k)
    <3>1. /\ m \in Machines /\ k \in Keys /\ vendor \in Vendors
          /\ fs[m][k] \in {"none", "full"} /\ remote[k] \in {"none", "pending", "failed", "full"}
      BY <1>1, CacheAssumption DEF IInv, TypeOK, Whole, Keys, Objects
    <3>2. Found(m, k)
      BY <1>1 DEF IInv, PublishedFound
    <3>3. remote[k] = "full" => Get(vendor, remote[k]) # {}
      BY <3>1 DEF Get, S3Get, GcsGet, AzureGet, Vendors
    <3>. QED  BY <1>1, <3>1, <3>2, <3>3 DEF Found, Readable, Copied, Listed, AzureCopies
  <2>. QED  BY <1>1, <2>1 DEF IInv, Whole, PublisherFindsBlobs
<1>. QED  BY <1>1, CacheInvariant, CopiesAreAzures, PTL

\* The cache of RemoteWrapper and its backends is a shared store: it only gains
\* entries, and a result comes after blobs that its writer has or finds listed.
THEOREM CacheImplementsStore == Spec => ImplementsStore
<1>1. Init => Store!StoreInit
  BY DEF Init, Store!StoreInit, Listed
<1>2. IInv /\ [Next]_vars => [Store!StoreNext]_(Store!storeVars)
  <2>1. IInv => StoreTypes /\ Whole
    BY DEF IInv, TypeOK, StoreTypes, Entries
  <2>. QED  BY <2>1, NextInv, StoresImplement, CacheAssumption
<1>. QED  BY <1>1, <1>2, CacheInvariant, PTL DEF Spec, ImplementsStore, Store!StoreSpec
=============================================================================
