--------------------------- MODULE Outputs_proofs ---------------------------
(***************************************************************************)
(* Proofs about the two kinds of outputs, which have no state in common.   *)
(*                                                                         *)
(* Modules OciProxy and ImageOutputs, for any number of targets, pushes    *)
(* and upload sessions and any layer: staged writers have an owner, but    *)
(* for those that a late POST opens; what the CAS has under the digest of  *)
(* the layer is the layer; the results that are stored can be restored,    *)
(* and no push fails without a report.                                     *)
(*                                                                         *)
(* Module FileOutputs, for any trees that commands leave and any number of *)
(* builds and failures: what Load restores is what Write saw, but for the  *)
(* mode of a file.                                                         *)
(***************************************************************************)
EXTENDS ImageOutputs, FileOutputs, SequenceTheorems, TLAPS

Uploads == [push : Pushes \cup {None}, writer : {"none", "open", "closed"}, finished : BOOLEAN,
            content : Seq(Chunks), digest : Seq(Chunks), mu : Requests \cup {None}]
PushStages == {"idle", "checking", "missing", "uploading", "manifest", "pushed", "failed"}
Jobs == {"idle", "built", "queued", "caching", "shipping", "storing", "clean", "abort",
         "pulled", "tagged", "restored", "hit", "miss", "uncached", "done", "failed"}

\* The types of the registry's variables and of the daemon's
ProxyTypes ==
  /\ server \in {"up", "shutdown", "sweeping", "closed"} /\ late \subseteq Sessions
  /\ listed \subseteq Sessions
  /\ session \in [Sessions -> Uploads]
  /\ at \in [Sessions -> [Requests -> Places]]
  /\ body \in [Sessions -> [Requests -> Seq(Chunks)]]
  /\ layer \in {None, Layer}
  /\ manifest \in [stored : BOOLEAN, named : BOOLEAN]
  /\ push \in [Pushes -> PushStages]

\* The types of the build's variables
ImageTypes ==
  /\ mode \in {"layers", "registry"} /\ pushing \in BOOLEAN /\ loads \in {"all", "minimal"}
  /\ noCache \subseteq Targets /\ interrupted \in BOOLEAN
  /\ image \in BOOLEAN /\ cacheTag \in BOOLEAN /\ pullRef \in BOOLEAN /\ hub \in BOOLEAN
  /\ name \subseteq Targets /\ digest \subseteq Targets /\ result \subseteq Targets
  /\ reached \subseteq Targets /\ reports \subseteq Targets \X BOOLEAN
  /\ job \in [Targets -> Jobs]

-----------------------------------------------------------------------------
(* Images: the inductive invariant                                         *)

\* The daemon sends nothing before its POST has been answered.
Opening(s) ==
  at[s]["post"] \in {"off", "open", "list"} => \A r \in Requests \ {"post"} : at[s][r] = "off"

\* Whoever copies into a session has its lock.
Locked(s) == \A r \in Requests : at[s][r] = "copy" => session[s].mu = r

\* From the lock of PUT on nobody else copies into the session.
Finished(s) ==
  /\ at[s]["put"] \in {"copy", "drop", "finish"} => session[s].finished
  /\ session[s].finished => \A r \in Requests \ {"put"} : at[s][r] # "copy"

\* So the digest that PUT took is that of the content, unless the session has
\* been cancelled since; and an answer to PUT means that the layer is stored.
Digested(s) ==
  /\ at[s]["put"] \in {"drop", "finish"} /\ session[s].writer = "open" =>
       session[s].digest = session[s].content
  /\ at[s]["put"] = "sent" => layer = Layer

\* The last to list a session when Close is over are the POSTs it has not waited for.
Owned(s) ==
  /\ session[s].writer = "open" => Owns(s) \/ (s \in listed /\ (server # "closed" \/ s \in late))
  /\ server = "closed" /\ at[s]["post"] \in {"open", "list"} => s \in late

SessionOK(s) == Opening(s) /\ Locked(s) /\ Finished(s) /\ Digested(s) /\ Owned(s)

\* The daemon sends the manifest after the layer.
PushOK(p) ==
  /\ push[p] \in {"manifest", "pushed"} => layer = Layer
  /\ push[p] = "pushed" => manifest.stored

ProxyInv ==
  /\ ProxyTypes
  /\ \A s \in Sessions : SessionOK(s)
  /\ \A p \in Pushes : PushOK(p)

\* A target that ships or stores has its image in the cache, and one that has got
\* past its push has reached its destination or reported an error.
JobOK(t) ==
  /\ job[t] = "caching" => mode = "layers"
  /\ job[t] \in {"shipping", "storing"} => Stored
  /\ pushing /\ job[t] \in {"storing", "clean", "done"} => t \in reached \/ HasFailures

IInv ==
  /\ ImageTypes /\ ProxyInv
  /\ \A t \in Targets : JobOK(t)
  /\ result # {} => Stored

-----------------------------------------------------------------------------
(* Images: what the steps of a session have in common                      *)

\* What is stored stays.
Kept == (layer = Layer => layer' = Layer) /\ (manifest.stored => manifest'.stored)

\* Only session s has changed.
Only(s) ==
  /\ listed' \subseteq Sessions /\ session' \in [Sessions -> Uploads]
  /\ at' \in [Sessions -> [Requests -> Places]]
  /\ body' \in [Sessions -> [Requests -> Seq(Chunks)]]
  /\ \A x \in Sessions \ {s} :
       session'[x] = session[x] /\ at'[x] = at[x] /\ (x \in listed' <=> x \in listed)

\* The sessions that have not changed keep their invariant.
LEMMA OtherSessions ==
  ASSUME ProxyInv, NEW s \in Sessions, Only(s), Kept, UNCHANGED <<server, late>>,
         NEW x \in Sessions \ {s}
  PROVE  SessionOK(x)'
<1>1. session'[x] = session[x] /\ at'[x] = at[x] /\ (x \in listed' <=> x \in listed)
  BY DEF Only
<1>2. SessionOK(x)
  BY DEF ProxyInv
<1>3. (Opening(x) /\ Locked(x) /\ Finished(x) /\ Owned(x))'
  BY <1>1, <1>2 DEF SessionOK, Opening, Locked, Finished, Owned, Owns
<1>4. Digested(x)'
  BY <1>1, <1>2 DEF SessionOK, Digested, Kept
<1>. QED  BY <1>3, <1>4 DEF SessionOK

\* A step of one session keeps the invariant if it does so for that session.
LEMMA OneSession ==
  ASSUME ProxyInv, NEW s \in Sessions, Only(s), SessionOK(s)', Kept,
         layer' \in {None, Layer}, UNCHANGED <<manifest, push, server, late>>
  PROVE  ProxyInv'
<1>1. ProxyTypes'
  BY DEF ProxyInv, ProxyTypes, Only
<1>2. ASSUME NEW x \in Sessions \ {s} PROVE SessionOK(x)'
  BY <1>2, OtherSessions
<1>3. \A p \in Pushes : PushOK(p)'
  BY DEF ProxyInv, PushOK, Kept
<1>. QED  BY <1>1, <1>2, <1>3 DEF ProxyInv

\* A step of one session keeps the invariant if it does so for that session, and
\* the push that it moves has its layer stored before its manifest.
LEMMA SessionAndPush ==
  ASSUME ProxyInv, NEW s \in Sessions, Only(s), SessionOK(s)', Kept,
         layer' \in {None, Layer}, UNCHANGED <<manifest, server, late>>,
         NEW p \in Pushes, NEW stage \in PushStages, push' = [push EXCEPT ![p] = stage],
         stage # "pushed", stage = "manifest" => layer' = Layer
  PROVE  ProxyInv'
<1>1. ProxyTypes'
  BY DEF ProxyInv, ProxyTypes, Only
<1>2. ASSUME NEW x \in Sessions \ {s} PROVE SessionOK(x)'
  BY <1>2, OtherSessions
<1>3. ASSUME NEW q \in Pushes PROVE PushOK(q)'
  BY <1>3 DEF ProxyInv, ProxyTypes, PushOK, Kept
<1>. QED  BY <1>1, <1>2, <1>3 DEF ProxyInv

\* A step of the daemon or of Close keeps it, if what it pushes is stored.
LEMMA OnePush ==
  ASSUME ProxyInv, NEW p \in Pushes, Kept, layer' \in {None, Layer},
         manifest' \in [stored : BOOLEAN, named : BOOLEAN], NEW stage \in PushStages,
         push' = [push EXCEPT ![p] = stage],
         UNCHANGED <<server, late, listed, session, at, body>>,
         stage \in {"manifest", "pushed"} => layer' = Layer, stage = "pushed" => manifest'.stored
  PROVE  ProxyInv'
<1>1. ProxyTypes'
  BY DEF ProxyInv, ProxyTypes
<1>2. \A s \in Sessions : SessionOK(s)'
  BY DEF ProxyInv, SessionOK, Opening, Locked, Finished, Digested, Owned, Owns, Kept
<1>3. \A q \in Pushes : PushOK(q)'
  BY DEF ProxyInv, ProxyTypes, PushOK, Kept
<1>. QED  BY <1>1, <1>2, <1>3 DEF ProxyInv

\* The handler of one request moves.
LEMMA Going ==
  ASSUME ProxyInv, NEW s \in Sessions, NEW r \in Requests, NEW place \in Places, Goto(s, r, place)
  PROVE  /\ at' \in [Sessions -> [Requests -> Places]]
         /\ at'[s][r] = place
         /\ \A q \in Requests \ {r} : at'[s][q] = at[s][q]
         /\ \A x \in Sessions \ {s} : at'[x] = at[x]
BY DEF ProxyInv, ProxyTypes, Goto

\* A request that is refused
LEMMA Refusing ==
  ASSUME ProxyInv, NEW s \in Sessions, NEW r \in Requests, Refuse(s, r)
  PROVE  /\ Goto(s, r, "over") /\ "over" \in Places
         /\ body' \in [Sessions -> [Requests -> Seq(Chunks)]]
BY DEF ProxyInv, ProxyTypes, Refuse, Places

\* A session after Commit or Cancel
LEMMA Discarding ==
  ASSUME ProxyInv, NEW s \in Sessions, session' = Discarded(s)
  PROVE  /\ session' \in [Sessions -> Uploads]
         /\ session'[s].writer = "closed" /\ session'[s].finished = TRUE
         /\ \A x \in Sessions \ {s} : session'[x] = session[x]
<1>. DEFINE new == [NoUpload EXCEPT !.push = session[s].push, !.writer = "closed", !.finished = TRUE]
<1>1. session \in [Sessions -> Uploads] /\ session[s].push \in Pushes \cup {None}
  BY DEF ProxyInv, ProxyTypes, Uploads
<1>2. NoUpload \in Uploads
  BY DEF NoUpload, Uploads
<1>3. new \in Uploads
  BY <1>1, <1>2 DEF Uploads
<1>4. new.writer = "closed" /\ new.finished = TRUE
  BY DEF NoUpload
<1>5. session' = [session EXCEPT ![s] = new]
  BY DEF Discarded
<1>. HIDE DEF new
<1>. QED  BY <1>1, <1>3, <1>4, <1>5

-----------------------------------------------------------------------------
(* Images: requests                                                        *)

\* OpenUpload keeps the invariant: the handler owns the writer it has opened.
LEMMA OpenUploadKeeps ==
  ASSUME ProxyInv, NEW s \in Sessions, OpenUpload(s)
  PROVE  ProxyInv' /\ Kept
<1>1. ProxyTypes /\ SessionOK(s) /\ "post" \in Requests /\ {"list", "over"} \subseteq Places
  BY DEF ProxyInv, Requests, Places
<1>2. UNCHANGED <<server, late, listed, body, layer, manifest, push>> /\ Kept /\ layer \in {None, Layer}
  BY <1>1 DEF OpenUpload, Kept, ProxyTypes
<1>3. CASE session' = [session EXCEPT ![s].writer = "open"] /\ Goto(s, "post", "list")
  <2>1. /\ session' \in [Sessions -> Uploads] /\ session'[s].mu = session[s].mu
        /\ session'[s].finished = session[s].finished /\ session'[s].content = session[s].content
        /\ session'[s].digest = session[s].digest
        /\ \A x \in Sessions \ {s} : session'[x] = session[x]
    <3>1. session \in [Sessions -> Uploads] /\ session' = [session EXCEPT ![s].writer = "open"]
      BY <1>1, <1>3 DEF ProxyTypes
    <3>. QED  BY ONLY <3>1 DEF Uploads
  <2>2. Only(s)
    BY <1>1, <1>2, <1>3, <2>1, Going DEF Only, ProxyTypes
  <2>3. /\ at'[s]["post"] = "list" /\ \A q \in Requests \ {"post"} : at'[s][q] = at[s][q]
        /\ at[s]["post"] = "open" /\ "put" \in Requests
    BY <1>1, <1>3, Going DEF OpenUpload, Requests
  <2>4. SessionOK(s)'
    BY <1>1, <1>2, <2>1, <2>3
    DEF SessionOK, Opening, Locked, Finished, Digested, Owned, Owns, Kept
  <2>. QED  BY <1>2, <2>2, <2>4, OneSession
<1>4. CASE Goto(s, "post", "over") /\ UNCHANGED session
  <2>1. Only(s)
    BY <1>1, <1>2, <1>4, Going DEF Only, ProxyTypes
  <2>2. /\ at'[s]["post"] = "over" /\ \A q \in Requests \ {"post"} : at'[s][q] = at[s][q]
        /\ at[s]["post"] = "open" /\ "put" \in Requests
    BY <1>1, <1>4, Going DEF OpenUpload, Requests
  <2>3. SessionOK(s)'
    BY <1>1, <1>2, <1>4, <2>2
    DEF SessionOK, Opening, Locked, Finished, Digested, Owned, Owns, Kept
  <2>. QED  BY <1>2, <2>1, <2>3, OneSession
<1>. QED  BY <1>3, <1>4 DEF OpenUpload

\* ListUpload keeps it: the session is listed when its handler lets it go.
LEMMA ListUploadKeeps ==
  ASSUME ProxyInv, NEW s \in Sessions, ListUpload(s)
  PROVE  ProxyInv' /\ Kept
<1>1. /\ ProxyTypes /\ SessionOK(s) /\ {"post", "put"} \subseteq Requests /\ "sent" \in Places
      /\ at[s]["post"] = "list"
  BY DEF ProxyInv, Requests, Places, ListUpload
<1>2. /\ UNCHANGED <<server, late, session, body, layer, manifest, push>> /\ Kept /\ layer \in {None, Layer}
      /\ listed' = listed \cup {s}
  BY <1>1 DEF ListUpload, Kept, ProxyTypes
<1>3. /\ at'[s]["post"] = "sent" /\ \A q \in Requests \ {"post"} : at'[s][q] = at[s][q]
      /\ at' \in [Sessions -> [Requests -> Places]] /\ \A x \in Sessions \ {s} : at'[x] = at[x]
  BY <1>1, Going DEF ListUpload
<1>4. Only(s)
  BY <1>1, <1>2, <1>3 DEF Only, ProxyTypes
<1>5. SessionOK(s)'
  BY <1>1, <1>2, <1>3 DEF SessionOK, Opening, Locked, Finished, Digested, Owned, Owns
<1>. QED  BY <1>2, <1>4, <1>5, OneSession

\* GetUpload keeps it.
LEMMA GetUploadKeeps ==
  ASSUME ProxyInv, NEW s \in Sessions, NEW r \in Requests, GetUpload(s, r)
  PROVE  ProxyInv' /\ Kept
<1>1. /\ ProxyTypes /\ SessionOK(s) /\ {"post", "put"} \subseteq Requests
      /\ {"lock", "over"} \subseteq Places /\ at[s][r] = "lookup"
  BY DEF ProxyInv, Requests, Places, GetUpload
<1>2. /\ UNCHANGED <<server, late, listed, session, layer, manifest, push>> /\ Kept /\ layer \in {None, Layer}
  BY <1>1 DEF GetUpload, Kept, ProxyTypes
<1>3. PICK place \in {"lock", "over"} :
         Goto(s, r, place) /\ body' \in [Sessions -> [Requests -> Seq(Chunks)]]
  BY <1>1, Refusing DEF GetUpload, ProxyTypes
<1>4. /\ at'[s][r] = place /\ \A q \in Requests \ {r} : at'[s][q] = at[s][q]
      /\ at' \in [Sessions -> [Requests -> Places]] /\ \A x \in Sessions \ {s} : at'[x] = at[x]
  BY <1>1, <1>3, Going
<1>5. Only(s)
  BY <1>1, <1>2, <1>3, <1>4 DEF Only, ProxyTypes
<1>6. SessionOK(s)'
  BY <1>1, <1>2, <1>3, <1>4
  DEF SessionOK, Opening, Locked, Finished, Digested, Owned, Owns
<1>. QED  BY <1>2, <1>5, <1>6, OneSession

\* Lock keeps it: nobody is copying, and nobody else will once PUT has closed the
\* session.
LEMMA LockKeeps ==
  ASSUME ProxyInv, NEW s \in Sessions, NEW r \in Requests, Lock(s, r)
  PROVE  ProxyInv' /\ Kept
<1>1. /\ ProxyTypes /\ SessionOK(s) /\ {"post", "put"} \subseteq Requests
      /\ {"copy", "over"} \subseteq Places /\ at[s][r] = "lock" /\ session[s].mu = None
      /\ None \notin Requests
  BY ProxyAssumption DEF ProxyInv, Requests, Places, Lock
<1>2. /\ UNCHANGED <<server, late, listed, layer, manifest, push>> /\ Kept /\ layer \in {None, Layer}
  BY <1>1 DEF Lock, Kept, ProxyTypes
<1>3. CASE Refuse(s, r) /\ UNCHANGED session
  <2>1. /\ at'[s][r] = "over" /\ \A q \in Requests \ {r} : at'[s][q] = at[s][q]
        /\ at' \in [Sessions -> [Requests -> Places]] /\ \A x \in Sessions \ {s} : at'[x] = at[x]
    BY <1>1, <1>3, Refusing, Going
  <2>2. Only(s)
    BY <1>1, <1>2, <1>3, <2>1, Refusing DEF Only, ProxyTypes
  <2>3. SessionOK(s)'
    BY <1>1, <1>2, <1>3, <2>1
    DEF SessionOK, Opening, Locked, Finished, Digested, Owned, Owns
  <2>. QED  BY <1>2, <2>2, <2>3, OneSession
<1>4. CASE /\ ~session[s].finished /\ Goto(s, r, "copy") /\ UNCHANGED body
           /\ session' = [session EXCEPT ![s].mu = r, ![s].finished = r = "put"]
  <2>1. /\ at'[s][r] = "copy" /\ \A q \in Requests \ {r} : at'[s][q] = at[s][q]
        /\ at' \in [Sessions -> [Requests -> Places]] /\ \A x \in Sessions \ {s} : at'[x] = at[x]
    BY <1>1, <1>4, Going
  <2>2. /\ session' \in [Sessions -> Uploads] /\ session'[s].mu = r
        /\ session'[s].finished = (r = "put") /\ session'[s].content = session[s].content
        /\ session'[s].digest = session[s].digest /\ session'[s].writer = session[s].writer
        /\ \A x \in Sessions \ {s} : session'[x] = session[x]
    <3>. DEFINE fin == r = "put"
    <3>1. fin \in BOOLEAN /\ session' = [session EXCEPT ![s].mu = r, ![s].finished = fin]
      BY <1>4
    <3>2. session'[s].finished = fin
      <4>. HIDE DEF fin
      <4>. QED  BY <1>1, <3>1 DEF ProxyTypes, Uploads
    <3>3. session' \in [Sessions -> Uploads]
      <4>. HIDE DEF fin
      <4>1. session \in [Sessions -> Uploads] /\ session[s] \in Uploads
        BY <1>1 DEF ProxyTypes
      <4>2. [session[s] EXCEPT !.mu = r, !.finished = fin] \in Uploads
        BY <3>1, <4>1 DEF Uploads
      <4>3. session' = [session EXCEPT ![s] = [session[s] EXCEPT !.mu = r, !.finished = fin]]
        BY ONLY <3>1, <4>1 DEF Uploads
      <4>. QED  BY <4>1, <4>2, <4>3
    <3>4. /\ session'[s].mu = r /\ session'[s].content = session[s].content
          /\ session'[s].digest = session[s].digest /\ session'[s].writer = session[s].writer
          /\ \A x \in Sessions \ {s} : session'[x] = session[x]
      <4>. HIDE DEF fin
      <4>. QED  BY <1>1, <3>1 DEF ProxyTypes, Uploads
    <3>. QED  BY <3>2, <3>3, <3>4
  <2>3. Only(s)
    BY <1>1, <1>2, <1>4, <2>1, <2>2 DEF Only, ProxyTypes
  <2>4. \A q \in Requests : at[s][q] # "copy"
    BY <1>1 DEF SessionOK, Locked
  <2>5. Opening(s)' /\ Locked(s)' /\ Owned(s)'
    BY <1>1, <1>2, <2>1, <2>2, <2>4 DEF SessionOK, Opening, Locked, Owned, Owns
  <2>6. Finished(s)'
    <3>1. CASE r = "put"
      BY <1>1, <2>1, <2>2, <2>4, <3>1 DEF Finished
    <3>2. CASE r # "put"
      <4>1. at'[s]["put"] = at[s]["put"] /\ ~session'[s].finished
        BY <1>1, <2>1, <2>2, <3>2
      <4>. QED  BY <1>1, <1>4, <4>1 DEF SessionOK, Finished
    <3>. QED  BY <3>1, <3>2
  <2>7. Digested(s)'
    BY <1>1, <1>2, <1>4, <2>1, <2>2 DEF SessionOK, Finished, Digested
  <2>. QED  BY <1>2, <2>3, <2>5, <2>6, <2>7, OneSession DEF SessionOK
<1>. QED  BY <1>3, <1>4 DEF Lock

\* Write keeps it: PUT takes the digest later, and a PATCH copies before PUT does.
LEMMA WriteKeeps ==
  ASSUME ProxyInv, NEW s \in Sessions, NEW r \in Requests, Write(s, r)
  PROVE  ProxyInv' /\ Kept
<1>1. /\ ProxyTypes /\ SessionOK(s) /\ {"post", "put"} \subseteq Requests
      /\ at[s][r] = "copy" /\ session[s] \in Uploads
      /\ body[s][r] \in Seq(Chunks) /\ body[s][r] # <<>>
  BY DEF ProxyInv, ProxyTypes, Requests, Write
<1>2. /\ UNCHANGED <<server, late, listed, at, layer, manifest, push>> /\ Kept /\ layer \in {None, Layer}
  BY <1>1 DEF Write, Kept, ProxyTypes
<1>3. Append(session[s].content, Head(body[s][r])) \in Seq(Chunks) /\ Tail(body[s][r]) \in Seq(Chunks)
  BY <1>1 DEF Uploads
<1>4. /\ session' \in [Sessions -> Uploads] /\ session'[s].mu = session[s].mu
      /\ session'[s].finished = session[s].finished /\ session'[s].writer = session[s].writer
      /\ \A x \in Sessions \ {s} : session'[x] = session[x]
  BY <1>1, <1>3 DEF Write, ProxyTypes, Uploads
<1>5. body' \in [Sessions -> [Requests -> Seq(Chunks)]]
  BY <1>1, <1>3 DEF Write, ProxyTypes
<1>6. Only(s)
  BY <1>1, <1>2, <1>4, <1>5 DEF Only, ProxyTypes
<1>7. (Opening(s) /\ Locked(s) /\ Finished(s) /\ Owned(s))'
  BY <1>1, <1>2, <1>4 DEF SessionOK, Opening, Locked, Finished, Owned, Owns
<1>8. at[s]["put"] \notin {"drop", "finish"}
  BY <1>1 DEF SessionOK, Finished
<1>9. Digested(s)'
  BY <1>1, <1>2, <1>8 DEF SessionOK, Digested
<1>. QED  BY <1>2, <1>6, <1>7, <1>9, OneSession DEF SessionOK

\* CopyFails keeps it.
LEMMA CopyFailsKeeps ==
  ASSUME ProxyInv, NEW s \in Sessions, NEW r \in Requests, CopyFails(s, r)
  PROVE  ProxyInv' /\ Kept
<1>1. /\ ProxyTypes /\ SessionOK(s) /\ {"post", "put"} \subseteq Requests /\ "cancel" \in Places
      /\ at[s][r] = "copy" /\ session[s].mu = r /\ None \notin Requests
  BY ProxyAssumption DEF ProxyInv, SessionOK, Locked, Requests, Places, CopyFails
<1>2. /\ UNCHANGED <<server, late, listed, layer, manifest, push>> /\ Kept /\ layer \in {None, Layer}
      /\ body' \in [Sessions -> [Requests -> Seq(Chunks)]]
  BY <1>1 DEF CopyFails, Kept, ProxyTypes
<1>3. /\ at'[s][r] = "cancel" /\ \A q \in Requests \ {r} : at'[s][q] = at[s][q]
      /\ at' \in [Sessions -> [Requests -> Places]] /\ \A x \in Sessions \ {s} : at'[x] = at[x]
  BY <1>1, Going DEF CopyFails
<1>4. /\ session' \in [Sessions -> Uploads] /\ session'[s].writer = session[s].writer
      /\ session'[s].finished = session[s].finished /\ session'[s].content = session[s].content
      /\ session'[s].digest = session[s].digest
      /\ \A x \in Sessions \ {s} : session'[x] = session[x]
  <2>1. session \in [Sessions -> Uploads] /\ session' = [session EXCEPT ![s].mu = None]
    BY <1>1 DEF CopyFails, ProxyTypes
  <2>. QED  BY ONLY <2>1 DEF Uploads
<1>5. Only(s)
  BY <1>1, <1>2, <1>3, <1>4 DEF Only, ProxyTypes
<1>6. \A q \in Requests : at'[s][q] # "copy"
  BY <1>1, <1>3 DEF SessionOK, Locked
<1>7. SessionOK(s)'
  BY <1>1, <1>2, <1>3, <1>4, <1>6
  DEF SessionOK, Opening, Locked, Finished, Digested, Owned, Owns
<1>. QED  BY <1>2, <1>5, <1>7, OneSession

\* CopyEnds keeps it: what PUT takes is the digest of the whole content.
LEMMA CopyEndsKeeps ==
  ASSUME ProxyInv, NEW s \in Sessions, NEW r \in Requests, CopyEnds(s, r)
  PROVE  ProxyInv' /\ Kept
<1>1. /\ ProxyTypes /\ SessionOK(s) /\ {"post", "put"} \subseteq Requests
      /\ {"drop", "over"} \subseteq Places
      /\ at[s][r] = "copy" /\ session[s].mu = r /\ None \notin Requests
  BY ProxyAssumption DEF ProxyInv, SessionOK, Locked, Requests, Places, CopyEnds
<1>2. /\ UNCHANGED <<server, late, listed, body, layer, manifest, push>> /\ Kept /\ layer \in {None, Layer}
  BY <1>1 DEF CopyEnds, Kept, ProxyTypes
<1>3. PICK place \in {"drop", "over"} : Goto(s, r, place) /\ (place = "drop" <=> r = "put")
  BY DEF CopyEnds
<1>4. /\ at'[s][r] = place /\ \A q \in Requests \ {r} : at'[s][q] = at[s][q]
      /\ at' \in [Sessions -> [Requests -> Places]] /\ \A x \in Sessions \ {s} : at'[x] = at[x]
  BY <1>1, <1>3, Going
<1>5. /\ session' \in [Sessions -> Uploads] /\ session'[s].writer = session[s].writer
      /\ session'[s].finished = session[s].finished /\ session'[s].content = session[s].content
      /\ r = "put" => session'[s].digest = session[s].content
      /\ r # "put" => session'[s].digest = session[s].digest
      /\ \A x \in Sessions \ {s} : session'[x] = session[x]
  <2>. DEFINE dig == IF r = "put" THEN session[s].content ELSE session[s].digest
  <2>1. session' = [session EXCEPT ![s].mu = None, ![s].digest = dig]
    BY <1>1 DEF CopyEnds, ProxyTypes, Uploads
  <2>2. dig \in Seq(Chunks)
    BY <1>1 DEF ProxyTypes, Uploads
  <2>3. (r = "put" => dig = session[s].content) /\ (r # "put" => dig = session[s].digest)
    OBVIOUS
  <2>. HIDE DEF dig
  <2>4. session \in [Sessions -> Uploads] /\ session[s] \in Uploads
    BY <1>1 DEF ProxyTypes
  <2>5. session' \in [Sessions -> Uploads]
    <3>1. [session[s] EXCEPT !.mu = None, !.digest = dig] \in Uploads
      BY <2>2, <2>4 DEF Uploads
    <3>2. session' = [session EXCEPT ![s] = [session[s] EXCEPT !.mu = None, !.digest = dig]]
      BY ONLY <2>1, <2>4 DEF Uploads
    <3>. QED  BY <2>4, <3>1, <3>2
  <2>6. /\ session'[s].writer = session[s].writer /\ session'[s].finished = session[s].finished
        /\ session'[s].content = session[s].content /\ session'[s].digest = dig
        /\ \A x \in Sessions \ {s} : session'[x] = session[x]
    BY ONLY <2>1, <2>4 DEF Uploads
  <2>. QED  BY <2>3, <2>5, <2>6
<1>6. Only(s)
  BY <1>1, <1>2, <1>4, <1>5 DEF Only, ProxyTypes
<1>7. \A q \in Requests : at'[s][q] # "copy"
  BY <1>1, <1>3, <1>4 DEF SessionOK, Locked
<1>8. Opening(s)' /\ Locked(s)' /\ Finished(s)' /\ Owned(s)'
  BY <1>1, <1>2, <1>3, <1>4, <1>5, <1>7
  DEF SessionOK, Opening, Locked, Finished, Owned, Owns
<1>9. Digested(s)'
  BY <1>1, <1>2, <1>3, <1>4, <1>5 DEF SessionOK, Digested
<1>. QED  BY <1>2, <1>6, <1>8, <1>9, OneSession DEF SessionOK

\* DropUpload keeps it: PUT still has the writer.
LEMMA DropUploadKeeps ==
  ASSUME ProxyInv, NEW s \in Sessions, DropUpload(s)
  PROVE  ProxyInv' /\ Kept
<1>1. /\ ProxyTypes /\ SessionOK(s) /\ {"post", "put"} \subseteq Requests /\ "finish" \in Places
      /\ at[s]["put"] = "drop"
  BY DEF ProxyInv, Requests, Places, DropUpload
<1>2. /\ UNCHANGED <<server, late, session, body, layer, manifest, push>> /\ Kept /\ layer \in {None, Layer}
      /\ listed' = listed \ {s}
  BY <1>1 DEF DropUpload, Kept, ProxyTypes
<1>3. /\ at'[s]["put"] = "finish" /\ \A q \in Requests \ {"put"} : at'[s][q] = at[s][q]
      /\ at' \in [Sessions -> [Requests -> Places]] /\ \A x \in Sessions \ {s} : at'[x] = at[x]
  BY <1>1, Going DEF DropUpload
<1>4. Only(s)
  BY <1>1, <1>2, <1>3 DEF Only, ProxyTypes
<1>5. SessionOK(s)'
  BY <1>1, <1>2, <1>3 DEF SessionOK, Opening, Locked, Finished, Digested, Owned, Owns
<1>. QED  BY <1>2, <1>4, <1>5, OneSession

\* FinishUpload keeps it: what it commits under the digest of the layer is the
\* content that the digest was taken of.
LEMMA FinishUploadKeeps ==
  ASSUME ProxyInv, NEW s \in Sessions, FinishUpload(s)
  PROVE  ProxyInv' /\ Kept
<1>1. /\ ProxyTypes /\ SessionOK(s) /\ {"post", "put"} \subseteq Requests
      /\ {"sent", "over"} \subseteq Places /\ at[s]["put"] = "finish"
  BY DEF ProxyInv, Requests, Places, FinishUpload
<1>2. UNCHANGED <<server, late, listed, body, manifest, push>> /\ layer \in {None, Layer}
  BY <1>1 DEF FinishUpload, ProxyTypes
<1>3. PICK place \in {"sent", "over"} :
         /\ Goto(s, "put", place)
         /\ place = "sent" => layer' = Layer
         /\ place = "over" => layer' = layer
  <2>1. session[s].digest = Layer /\ session[s].writer = "open" => session[s].content = Layer
    BY <1>1 DEF SessionOK, Digested
  <2>. QED  BY <2>1 DEF FinishUpload
<1>4. Kept /\ layer' \in {None, Layer}
  BY <1>2, <1>3 DEF Kept
<1>5. /\ at'[s]["put"] = place /\ \A q \in Requests \ {"put"} : at'[s][q] = at[s][q]
      /\ at' \in [Sessions -> [Requests -> Places]] /\ \A x \in Sessions \ {s} : at'[x] = at[x]
  BY <1>1, <1>3, Going
<1>6. /\ session' \in [Sessions -> Uploads]
      /\ session'[s].writer = "closed" /\ session'[s].finished = TRUE
      /\ \A x \in Sessions \ {s} : session'[x] = session[x]
  BY Discarding DEF FinishUpload
<1>7. Only(s)
  BY <1>1, <1>2, <1>5, <1>6 DEF Only, ProxyTypes
<1>8. \A q \in Requests : at'[s][q] # "copy"
  <2>1. session[s].finished
    BY <1>1 DEF SessionOK, Finished
  <2>2. \A q \in Requests \ {"put"} : at[s][q] # "copy"
    BY <1>1, <2>1 DEF SessionOK, Finished
  <2>. QED  BY <1>3, <1>5, <2>2
<1>9. SessionOK(s)'
  BY <1>1, <1>3, <1>5, <1>6, <1>8
  DEF SessionOK, Opening, Locked, Finished, Digested, Owned, Owns
<1>. QED  BY <1>2, <1>4, <1>7, <1>9, OneSession

\* CancelUpload keeps it: it takes the writer over with the session.
LEMMA CancelUploadKeeps ==
  ASSUME ProxyInv, NEW s \in Sessions, NEW r \in Requests, CancelUpload(s, r)
  PROVE  ProxyInv' /\ Kept
<1>1. /\ ProxyTypes /\ SessionOK(s) /\ {"post", "put"} \subseteq Requests
      /\ {"discard", "over"} \subseteq Places /\ at[s][r] = "cancel"
  BY DEF ProxyInv, Requests, Places, CancelUpload
<1>2. /\ UNCHANGED <<server, late, session, body, layer, manifest, push>> /\ Kept /\ layer \in {None, Layer}
      /\ listed' = listed \ {s}
  BY <1>1 DEF CancelUpload, Kept, ProxyTypes
<1>3. PICK place \in {"discard", "over"} :
         Goto(s, r, place) /\ (place = "discard" <=> s \in listed)
  BY DEF CancelUpload
<1>4. /\ at'[s][r] = place /\ \A q \in Requests \ {r} : at'[s][q] = at[s][q]
      /\ at' \in [Sessions -> [Requests -> Places]] /\ \A x \in Sessions \ {s} : at'[x] = at[x]
  BY <1>1, <1>3, Going
<1>5. Only(s)
  BY <1>1, <1>2, <1>4 DEF Only, ProxyTypes
<1>6. Opening(s)' /\ Locked(s)' /\ Finished(s)' /\ Digested(s)'
  BY <1>1, <1>2, <1>4 DEF SessionOK, Opening, Locked, Finished, Digested
<1>7. Owned(s)'
  BY <1>1, <1>2, <1>3, <1>4 DEF SessionOK, Owned, Owns
<1>. QED  BY <1>2, <1>5, <1>6, <1>7, OneSession DEF SessionOK

\* Discard keeps it: nobody copies while the lock is free.
LEMMA DiscardKeeps ==
  ASSUME ProxyInv, NEW s \in Sessions, NEW r \in Requests, Discard(s, r)
  PROVE  ProxyInv' /\ Kept
<1>1. /\ ProxyTypes /\ SessionOK(s) /\ {"post", "put"} \subseteq Requests /\ "over" \in Places
      /\ at[s][r] = "discard" /\ session[s].mu = None /\ None \notin Requests
  BY ProxyAssumption DEF ProxyInv, Requests, Places, Discard
<1>2. /\ UNCHANGED <<server, late, listed, body, layer, manifest, push>> /\ Kept /\ layer \in {None, Layer}
  BY <1>1 DEF Discard, Kept, ProxyTypes
<1>3. /\ at'[s][r] = "over" /\ \A q \in Requests \ {r} : at'[s][q] = at[s][q]
      /\ at' \in [Sessions -> [Requests -> Places]] /\ \A x \in Sessions \ {s} : at'[x] = at[x]
  BY <1>1, Going DEF Discard
<1>4. /\ session' \in [Sessions -> Uploads]
      /\ session'[s].writer = "closed" /\ session'[s].finished = TRUE
      /\ \A x \in Sessions \ {s} : session'[x] = session[x]
  BY Discarding DEF Discard
<1>5. Only(s)
  BY <1>1, <1>2, <1>3, <1>4 DEF Only, ProxyTypes
<1>6. \A q \in Requests : at'[s][q] # "copy"
  BY <1>1, <1>3 DEF SessionOK, Locked
<1>7. SessionOK(s)'
  BY <1>1, <1>2, <1>3, <1>4, <1>6
  DEF SessionOK, Opening, Locked, Finished, Digested, Owned, Owns
<1>. QED  BY <1>2, <1>5, <1>7, OneSession

\* Forget keeps it: the session is that of a server that has just started.
LEMMA ForgetKeeps ==
  ASSUME ProxyInv, NEW s \in Sessions, Forget(s)
  PROVE  ProxyInv' /\ Kept
<1>1. ProxyTypes /\ {"post", "put"} \subseteq Requests /\ "off" \in Places
  BY DEF ProxyInv, Requests, Places
<1>2. /\ UNCHANGED <<server, late, listed, layer, manifest, push>> /\ Kept /\ layer \in {None, Layer}
  BY <1>1 DEF Forget, Kept, ProxyTypes
<1>3. /\ at' \in [Sessions -> [Requests -> Places]] /\ \A q \in Requests : at'[s][q] = "off"
      /\ body' \in [Sessions -> [Requests -> Seq(Chunks)]]
      /\ \A x \in Sessions \ {s} : at'[x] = at[x]
  BY <1>1 DEF Forget, ProxyTypes
<1>4. NoUpload \in Uploads /\ NoUpload.writer = "none" /\ NoUpload.finished = FALSE
  BY DEF NoUpload, Uploads
<1>5. /\ session' \in [Sessions -> Uploads] /\ session'[s].writer = "none"
      /\ session'[s].finished = FALSE /\ \A x \in Sessions \ {s} : session'[x] = session[x]
  BY <1>1, <1>4 DEF Forget, ProxyTypes
<1>6. Only(s)
  BY <1>1, <1>2, <1>3, <1>5 DEF Only, ProxyTypes
<1>7. SessionOK(s)'
  BY <1>1, <1>3, <1>5 DEF SessionOK, Opening, Locked, Finished, Digested, Owned, Owns
<1>. QED  BY <1>2, <1>6, <1>7, OneSession

\* Sweep keeps it: the writer of the session that leaves the list is closed.
LEMMA SweepKeeps ==
  ASSUME ProxyInv, NEW s \in Sessions, Sweep(s)
  PROVE  ProxyInv' /\ Kept
<1>1. ProxyTypes /\ SessionOK(s) /\ session[s].mu = None /\ None \notin Requests /\ "put" \in Requests
  BY ProxyAssumption DEF ProxyInv, Requests, Sweep
<1>2. /\ UNCHANGED <<server, late, at, body, layer, manifest, push>> /\ Kept /\ layer \in {None, Layer}
      /\ listed' = listed \ {s}
  BY <1>1 DEF Sweep, Kept, ProxyTypes
<1>3. /\ session' \in [Sessions -> Uploads]
      /\ session'[s].writer = "closed" /\ session'[s].finished = TRUE
      /\ \A x \in Sessions \ {s} : session'[x] = session[x]
  BY Discarding DEF Sweep
<1>4. Only(s)
  BY <1>1, <1>2, <1>3 DEF Only, ProxyTypes
<1>5. \A q \in Requests : at'[s][q] # "copy"
  BY <1>1, <1>2 DEF SessionOK, Locked
<1>6. SessionOK(s)'
  BY <1>1, <1>2, <1>3, <1>5
  DEF SessionOK, Opening, Locked, Finished, Digested, Owned, Owns
<1>. QED  BY <1>2, <1>4, <1>6, OneSession

-----------------------------------------------------------------------------
(* Images: the daemon and Close                                            *)

\* Post keeps the invariant.
LEMMA PostKeeps ==
  ASSUME ProxyInv, NEW p \in Pushes, NEW s \in Sessions, Post(p, s)
  PROVE  ProxyInv' /\ Kept
<1>1. /\ ProxyTypes /\ SessionOK(s) /\ {"post", "put"} \subseteq Requests /\ "open" \in Places
      /\ at[s]["post"] = "off" /\ server # "closed"
  BY DEF ProxyInv, Requests, Places, Post, Accepting
<1>2. /\ UNCHANGED <<server, late, listed, body, layer, manifest>> /\ Kept /\ layer \in {None, Layer}
      /\ push' = [push EXCEPT ![p] = "uploading"]
  BY <1>1 DEF Post, Kept, ProxyTypes
<1>3. /\ at'[s]["post"] = "open" /\ \A q \in Requests \ {"post"} : at'[s][q] = at[s][q]
      /\ at' \in [Sessions -> [Requests -> Places]] /\ \A x \in Sessions \ {s} : at'[x] = at[x]
  BY <1>1, Going DEF Post
<1>4. /\ session' \in [Sessions -> Uploads] /\ session'[s].writer = session[s].writer
      /\ session'[s].finished = session[s].finished /\ session'[s].content = session[s].content
      /\ session'[s].digest = session[s].digest /\ session'[s].mu = session[s].mu
      /\ \A x \in Sessions \ {s} : session'[x] = session[x]
  BY <1>1 DEF Post, ProxyTypes, Uploads
<1>5. Only(s)
  BY <1>1, <1>2, <1>3, <1>4 DEF Only, ProxyTypes
<1>6. SessionOK(s)'
  BY <1>1, <1>2, <1>3, <1>4 DEF SessionOK, Opening, Locked, Finished, Digested, Owned, Owns
<1>7. "uploading" \in PushStages
  BY DEF PushStages
<1>. QED  BY <1>2, <1>5, <1>6, <1>7, SessionAndPush

\* Send keeps it: the POST has been answered, and nothing follows a PUT.
LEMMA SendKeeps ==
  ASSUME ProxyInv, NEW p \in Pushes, NEW s \in Sessions, NEW r \in Requests, Send(p, s, r)
  PROVE  ProxyInv' /\ Kept
<1>1. /\ ProxyTypes /\ SessionOK(s) /\ {"post", "put"} \subseteq Requests /\ "lookup" \in Places
      /\ at[s]["post"] = "sent" /\ at[s][r] = "off" /\ r # "post"
  BY DEF ProxyInv, Requests, Places, Send
<1>2. /\ UNCHANGED <<server, late, listed, session, layer, manifest, push>> /\ Kept
      /\ layer \in {None, Layer}
  BY <1>1 DEF Send, Kept, ProxyTypes
<1>3. /\ at'[s][r] = "lookup" /\ \A q \in Requests \ {r} : at'[s][q] = at[s][q]
      /\ at' \in [Sessions -> [Requests -> Places]] /\ \A x \in Sessions \ {s} : at'[x] = at[x]
  BY <1>1, Going DEF Send
<1>4. PICK sent \in Seq(Chunks) : body' = [body EXCEPT ![s][r] = sent]
  <2>1. Layer \in Seq(Chunks)
    BY ProxyAssumption
  <2>2. \A n \in 1..Len(Layer) : SubSeq(Layer, 1, n) \in Seq(Chunks)
    BY <2>1
  <2>3. Len(session[s].content) \in Nat
    BY <1>1 DEF ProxyTypes, Uploads
  <2>4. SubSeq(Layer, 1 + Len(session[s].content), Len(Layer)) \in Seq(Chunks)
    BY <2>1, <2>3
  <2>. QED  BY <2>1, <2>2, <2>4 DEF Send
<1>5. body' \in [Sessions -> [Requests -> Seq(Chunks)]]
  BY <1>1, <1>4 DEF ProxyTypes
<1>6. Only(s)
  BY <1>1, <1>2, <1>3, <1>5 DEF Only, ProxyTypes
<1>7. SessionOK(s)'
  BY <1>1, <1>2, <1>3 DEF SessionOK, Opening, Locked, Finished, Digested, Owned, Owns
<1>. QED  BY <1>2, <1>6, <1>7, OneSession

\* Answered keeps it: the daemon goes on to the manifest when PUT has stored the
\* layer.
LEMMA AnsweredKeeps ==
  ASSUME ProxyInv, NEW p \in Pushes, NEW s \in Sessions, Answered(p, s)
  PROVE  ProxyInv' /\ Kept
<1>1. ProxyTypes /\ SessionOK(s) /\ "put" \in Requests
  BY DEF ProxyInv, Requests
<1>2. /\ UNCHANGED <<server, late, listed, at, body, layer, manifest>> /\ Kept /\ layer \in {None, Layer}
  BY <1>1 DEF Answered, Kept, ProxyTypes
<1>3. PICK stage \in PushStages :
         /\ push' = [push EXCEPT ![p] = stage] /\ stage # "pushed"
         /\ stage = "manifest" => layer = Layer
  BY <1>1 DEF Answered, PushStages, SessionOK, Digested
<1>4. /\ session' \in [Sessions -> Uploads] /\ session'[s].writer = session[s].writer
      /\ session'[s].finished = session[s].finished /\ session'[s].content = session[s].content
      /\ session'[s].digest = session[s].digest /\ session'[s].mu = session[s].mu
      /\ \A x \in Sessions \ {s} : session'[x] = session[x]
  <2>1. session' = [session EXCEPT ![s].push = None]
    BY DEF Answered
  <2>2. session \in [Sessions -> Uploads] /\ None \in Pushes \cup {None}
    BY <1>1 DEF ProxyTypes
  <2>. QED  BY ONLY s \in Sessions, <2>1, <2>2 DEF Uploads
<1>5. Only(s)
  BY <1>1, <1>2, <1>4 DEF Only, ProxyTypes
<1>6. SessionOK(s)'
  BY <1>1, <1>2, <1>4 DEF SessionOK, Opening, Locked, Finished, Digested, Owned, Owns
<1>. QED  BY <1>1, <1>2, <1>3, <1>5, <1>6, SessionAndPush

\* The steps of the daemon that touch no session keep it.
LEMMA DaemonAloneKeeps ==
  ASSUME ProxyInv, NEW p \in Pushes,
         HeadBlob(p) \/ PushFails(p) \/ MonolithicPost(p) \/ PutManifest(p)
  PROVE  ProxyInv' /\ Kept
<1>1. ProxyTypes /\ PushOK(p) /\ layer \in {None, Layer} /\ push[p] \in PushStages
  BY DEF ProxyInv, ProxyTypes
<1>2. UNCHANGED <<server, late, listed, session, at, body>>
  BY DEF HeadBlob, PushFails, MonolithicPost, PutManifest
<1>3. CASE HeadBlob(p)
  <2>1. PICK stage \in PushStages :
           /\ push' = [push EXCEPT ![p] = stage] /\ stage # "pushed"
           /\ stage = "manifest" => layer = Layer
    BY <1>1, <1>3 DEF HeadBlob, PushStages
  <2>2. UNCHANGED <<layer, manifest>> /\ Kept
    BY <1>3 DEF HeadBlob, Kept
  <2>. QED  BY <1>1, <1>2, <2>1, <2>2, OnePush DEF ProxyTypes
<1>4. CASE PushFails(p)
  <2>1. UNCHANGED <<layer, manifest>> /\ Kept /\ push' = [push EXCEPT ![p] = "failed"]
    BY <1>4 DEF PushFails, Kept
  <2>2. "failed" \in PushStages
    BY DEF PushStages
  <2>. QED  BY <1>1, <1>2, <2>1, <2>2, OnePush DEF ProxyTypes
<1>5. CASE MonolithicPost(p)
  <2>1. /\ UNCHANGED manifest /\ layer' = Layer /\ Kept
        /\ push' = [push EXCEPT ![p] = "manifest"]
    BY <1>5 DEF MonolithicPost, Kept
  <2>2. "manifest" \in PushStages
    BY DEF PushStages
  <2>. QED  BY <1>1, <1>2, <2>1, <2>2, OnePush DEF ProxyTypes
<1>6. CASE PutManifest(p)
  <2>1. /\ UNCHANGED layer /\ manifest' = [stored |-> TRUE, named |-> TRUE] /\ Kept
        /\ push' = [push EXCEPT ![p] = "pushed"]
    BY <1>6 DEF PutManifest, Kept
  <2>2. layer = Layer /\ manifest'.stored /\ manifest' \in [stored : BOOLEAN, named : BOOLEAN]
    BY <1>1, <1>6, <2>1 DEF PutManifest, PushOK
  <2>3. "pushed" \in PushStages
    BY DEF PushStages
  <2>. QED  BY <1>1, <1>2, <2>1, <2>2, <2>3, OnePush
<1>. QED  BY <1>3, <1>4, <1>5, <1>6

\* Every step of the registry and of the daemon keeps the invariant of the
\* registry and what is stored.
LEMMA ProxyKeeps ==
  ASSUME ProxyInv,
         (\E p \in Pushes : Daemon(p)) \/ (\E s \in Sessions : Handler(s)) \/ Close
  PROVE  ProxyInv' /\ Kept
<1>1. ASSUME NEW p \in Pushes, Daemon(p) PROVE ProxyInv' /\ Kept
  <2>1. CASE HeadBlob(p) \/ PushFails(p) \/ MonolithicPost(p) \/ PutManifest(p)
    BY <2>1, DaemonAloneKeeps
  <2>2. CASE \E s \in Sessions : Post(p, s)
    BY <2>2, PostKeeps
  <2>3. CASE \E s \in Sessions : Answered(p, s)
    BY <2>3, AnsweredKeeps
  <2>4. CASE \E s \in Sessions : \E r \in Requests : Send(p, s, r)
    BY <2>4, SendKeeps
  <2>. QED  BY <1>1, <2>1, <2>2, <2>3, <2>4 DEF Daemon
<1>2. ASSUME NEW s \in Sessions, Handler(s) PROVE ProxyInv' /\ Kept
  <2>1. CASE Forget(s) \/ OpenUpload(s) \/ ListUpload(s) \/ DropUpload(s) \/ FinishUpload(s)
    BY <2>1, ForgetKeeps, OpenUploadKeeps, ListUploadKeeps, DropUploadKeeps, FinishUploadKeeps
  <2>2. ASSUME NEW r \in Requests,
               \/ GetUpload(s, r) \/ Lock(s, r) \/ Write(s, r) \/ CopyFails(s, r)
               \/ CopyEnds(s, r) \/ CancelUpload(s, r) \/ Discard(s, r)
        PROVE  ProxyInv' /\ Kept
    BY <2>2, GetUploadKeeps, LockKeeps, WriteKeeps, CopyFailsKeeps, CopyEndsKeeps,
       CancelUploadKeeps, DiscardKeeps
  <2>. QED  BY <1>2, <2>1, <2>2 DEF Handler
<1>3. ASSUME Close PROVE ProxyInv' /\ Kept
  <2>1. CASE \E s \in Sessions : Sweep(s)
    BY <2>1, SweepKeeps
  <2>2. CASE Shutdown \/ StartSweep \/ EndSweep
    <3>1. /\ UNCHANGED <<listed, session, at, body, layer, manifest, push>>
          /\ server' \in {"up", "shutdown", "sweeping", "closed"} /\ late' \subseteq Sessions
      BY <2>2 DEF Shutdown, StartSweep, EndSweep, ProxyInv, ProxyTypes
    <3>2. ProxyTypes' /\ Kept
      BY <3>1 DEF ProxyInv, ProxyTypes, Kept
    <3>3. ASSUME NEW s \in Sessions PROVE SessionOK(s)'
      <4>1. (Opening(s) /\ Locked(s) /\ Finished(s) /\ Digested(s))'
        BY <3>1 DEF ProxyInv, SessionOK, Opening, Locked, Finished, Digested
      <4>2. Owned(s) /\ (Owns(s)' <=> Owns(s))
        BY <3>1 DEF ProxyInv, SessionOK, Owns
      <4>3. ASSUME Shutdown \/ StartSweep PROVE Owned(s)'
        <5>1. server' # "closed"
          BY <4>3 DEF Shutdown, StartSweep
        <5>. QED  BY <3>1, <4>2, <5>1 DEF Owned
      <4>4. ASSUME EndSweep PROVE Owned(s)'   \* it has noted the POSTs under way
        <5>1. /\ listed = {} /\ late' = {x \in Sessions : at[x]["post"] \in {"open", "list"}}
              /\ UNCHANGED <<at, session>>
          BY <4>4 DEF EndSweep
        <5>. QED  BY <4>2, <5>1 DEF Owned
      <4>5. Owned(s)'
        BY <2>2, <4>3, <4>4
      <4>. QED  BY <4>1, <4>5 DEF SessionOK
    <3>4. \A p \in Pushes : PushOK(p)'
      BY <3>1 DEF ProxyInv, PushOK
    <3>. QED  BY <3>2, <3>3, <3>4 DEF ProxyInv
  <2>. QED  BY <1>3, <2>1, <2>2 DEF Close
<1>. QED  BY <1>1, <1>2, <1>3

-----------------------------------------------------------------------------
(* Images: the build                                                       *)

\* What is stored can be restored from then on.
LEMMA StoredStays ==
  ASSUME Kept, mode' = mode, hub => hub', Stored
  PROVE  Stored'
BY DEF Kept, Stored

\* An error that has been reported stays reported.
LEMMA FailuresStay ==
  ASSUME reports \subseteq reports', HasFailures
  PROVE  HasFailures'
BY DEF HasFailures

\* A step of one target keeps the invariant if what it moves to is justified.
LEMMA OneTarget ==
  ASSUME IInv, ProxyInv', Kept, ImageTypes', NEW t \in Targets, NEW place \in Jobs, Move(t, place),
         mode' = mode, pushing' = pushing, hub => hub',
         reached \subseteq reached', reports \subseteq reports',
         place = "caching" => mode = "layers",
         place \in {"shipping", "storing"} => Stored',
         pushing /\ place \in {"storing", "clean", "done"} => t \in reached' \/ HasFailures',
         result' # {} => Stored'
  PROVE  IInv'
<1>1. job'[t] = place /\ \A x \in Targets \ {t} : job'[x] = job[x]
  BY DEF Move, IInv, ImageTypes
<1>2. JobOK(t)'
  BY <1>1 DEF JobOK
<1>3. ASSUME NEW x \in Targets \ {t} PROVE JobOK(x)'
  <2>1. JobOK(x) /\ job'[x] = job[x]
    BY <1>1, <1>3 DEF IInv
  <2>2. (Stored => Stored') /\ (HasFailures => HasFailures')
    BY StoredStays, FailuresStay
  <2>. QED  BY <2>1, <2>2 DEF JobOK
<1>. QED  BY <1>2, <1>3 DEF IInv

\* A step that leaves the targets where they are keeps it.
LEMMA NoTarget ==
  ASSUME IInv, ProxyInv', Kept, interrupted' \in BOOLEAN,
         UNCHANGED <<options, refs, cache, job, pushes>>
  PROVE  IInv'
<1>1. ImageTypes'
  BY DEF IInv, ImageTypes, options, refs, cache, pushes
<1>2. (Stored => Stored') /\ (HasFailures => HasFailures')
  BY StoredStays, FailuresStay DEF options, cache, pushes
<1>3. ASSUME NEW t \in Targets PROVE JobOK(t)'
  <2>1. JobOK(t) /\ UNCHANGED <<mode, pushing, job, reached>>
    BY DEF IInv, options, pushes
  <2>. QED  BY <1>2, <2>1 DEF JobOK
<1>. QED  BY <1>1, <1>2, <1>3 DEF IInv, cache

\* A step that leaves the registry and the daemon alone keeps their invariant.
LEMMA ProxyIdle ==
  ASSUME IInv, UNCHANGED proxyVars
  PROVE  ProxyInv' /\ Kept
BY DEF IInv, ProxyInv, ProxyTypes, SessionOK, Opening, Locked, Finished, Digested, Owned, Owns,
       PushOK, Kept, proxyVars

\* A push to another registry has reached it or is recorded as a failure.
LEMMA Shipping ==
  ASSUME IInv, NEW t \in Targets, NEW ok \in BOOLEAN, Ship(t, ok)
  PROVE  /\ reached \subseteq reached' /\ reports \subseteq reports'
         /\ reached' \subseteq Targets /\ reports' \subseteq Targets \X BOOLEAN
         /\ t \in reached' \/ HasFailures'
<1>1. reached \subseteq Targets /\ reports \subseteq Targets \X BOOLEAN
  BY DEF IInv, ImageTypes
<1>2. reports' = reports \cup {<<t, ~ok>>} /\ <<t, ~ok>> \in Targets \X BOOLEAN
  BY DEF Ship, Record
<1>3. CASE ok
  <2>1. reached' = reached \cup {t}
    BY <1>3 DEF Ship
  <2>. QED  BY <1>1, <1>2, <2>1
<1>4. CASE ~ok
  <2>1. reached' = reached
    BY <1>4 DEF Ship
  <2>2. <<t, ~ok>>[2] /\ <<t, ~ok>> \in reports'
    BY <1>2, <1>4
  <2>3. HasFailures'
    BY <2>2 DEF HasFailures
  <2>. QED  BY <1>1, <1>2, <2>1, <2>3
<1>. QED  BY <1>3, <1>4

\* The steps of Write keep the invariant: a plan that has been executed has stored
\* the layer and the manifest.
LEMMA WriteStepsKeep ==
  ASSUME IInv, NEW t \in Targets,
         \/ Build(t) \/ Prepare(t) \/ StartPlan(t) \/ EndPlan(t) \/ PushToRegistry(t)
         \/ HashOnly(t)
  PROVE  IInv'
<1>1. ImageTypes /\ JobOK(t) /\ (result # {} => Stored) /\ ProxyInv
  BY DEF IInv
<1>2. CASE Build(t)
  <2>1. PICK place \in {"built", "failed"} : Move(t, place)
    BY <1>2 DEF Build
  <2>2. ImageTypes'
    BY <1>1, <1>2, <2>1 DEF Build, ImageTypes, Move, Jobs, fixed, options, cache, pushes
  <2>3. ProxyInv' /\ Kept
    BY <1>2, ProxyIdle DEF Build
  <2>4. UNCHANGED <<mode, pushing, hub, result, reached, reports>>
    BY <1>2 DEF Build, fixed, options, cache, pushes
  <2>5. result' # {} => Stored'
    BY <1>1, <2>3, <2>4, StoredStays
  <2>. QED  BY <2>1, <2>2, <2>3, <2>4, <2>5, OneTarget DEF Jobs
<1>3. CASE Prepare(t)
  <2>1. PICK place \in {"queued", "failed"} : Move(t, place)
    BY <1>3 DEF Prepare
  <2>2. ImageTypes'
    BY <1>1, <1>3, <2>1 DEF Prepare, ImageTypes, Move, Jobs, fixed, options, pushes
  <2>3. ProxyInv' /\ Kept
    BY <1>3, ProxyIdle DEF Prepare
  <2>4. UNCHANGED <<mode, pushing, hub, result, reached, reports>>
    BY <1>3 DEF Prepare, fixed, options, pushes
  <2>5. result' # {} => Stored'
    BY <1>1, <2>3, <2>4, StoredStays
  <2>. QED  BY <2>1, <2>2, <2>3, <2>4, <2>5, OneTarget DEF Jobs
<1>4. CASE StartPlan(t)
  <2>1. PICK place \in {"caching", "abort"} : Move(t, place)
    BY <1>4 DEF StartPlan
  <2>2. ImageTypes'
    BY <1>1, <1>4, <2>1 DEF StartPlan, ImageTypes, Move, Jobs, fixed, options, refs, cache, pushes
  <2>3. UNCHANGED <<server, late, listed, session, at, body, layer, manifest>> /\ Kept
    BY <1>4 DEF StartPlan, Kept
  <2>4. ProxyInv'
    <3>1. CASE push' = [push EXCEPT ![t] = "checking"]
      <4>1. "checking" \in PushStages /\ layer \in {None, Layer}
            /\ manifest \in [stored : BOOLEAN, named : BOOLEAN]
        BY <1>1 DEF PushStages, ProxyInv, ProxyTypes
      <4>. QED  BY <1>1, <2>3, <3>1, <4>1, OnePush DEF Targets
    <3>2. CASE UNCHANGED push
      BY <2>3, <3>2, ProxyIdle DEF proxyVars
    <3>. QED  BY <1>4, <3>1, <3>2 DEF StartPlan
  <2>5. UNCHANGED <<mode, pushing, hub, result, reached, reports>> /\ mode = "layers"
    BY <1>4 DEF StartPlan, fixed, options, cache, pushes
  <2>6. result' # {} => Stored'
    BY <1>1, <2>3, <2>5, StoredStays
  <2>. QED  BY <2>1, <2>2, <2>3, <2>4, <2>5, <2>6, OneTarget DEF Jobs
<1>5. CASE EndPlan(t)
  <2>1. PICK place \in {"shipping", "abort"} : Move(t, place) /\ (place = "shipping" => push[t] = "pushed")
    BY <1>5 DEF EndPlan
  <2>2. ImageTypes'
    BY <1>1, <1>5, <2>1 DEF EndPlan, ImageTypes, Move, Jobs, fixed, options, refs, pushes
  <2>3. ProxyInv' /\ Kept
    BY <1>5, ProxyIdle DEF EndPlan
  <2>4. UNCHANGED <<mode, pushing, hub, result, reached, reports>> /\ mode = "layers"
    BY <1>1, <1>5 DEF EndPlan, JobOK, fixed, options, pushes
  <2>5. place = "shipping" => Stored
    BY <1>1, <2>1, <2>4 DEF ProxyInv, PushOK, Stored, Targets
  <2>6. (result' # {} => Stored') /\ (place = "shipping" => Stored')
    BY <1>1, <2>3, <2>4, <2>5, StoredStays
  <2>. QED  BY <2>1, <2>2, <2>3, <2>4, <2>6, OneTarget DEF Jobs
<1>6. CASE PushToRegistry(t)
  <2>1. PICK place \in {"shipping", "abort"} : Move(t, place) /\ (place = "shipping" => hub')
    BY <1>6 DEF PushToRegistry
  <2>2. ImageTypes'
    BY <1>1, <1>6, <2>1 DEF PushToRegistry, ImageTypes, Move, Jobs, fixed, options, refs, pushes
  <2>3. ProxyInv' /\ Kept
    BY <1>6, ProxyIdle DEF PushToRegistry
  <2>4. UNCHANGED <<mode, pushing, result, reached, reports>> /\ mode = "registry" /\ (hub => hub')
    BY <1>6 DEF PushToRegistry, fixed, options, pushes
  <2>5. (result' # {} => Stored') /\ (place = "shipping" => Stored')
    BY <1>1, <2>1, <2>3, <2>4, StoredStays DEF Stored
  <2>. QED  BY <2>1, <2>2, <2>3, <2>4, <2>5, OneTarget DEF Jobs
<1>7. CASE HashOnly(t)
  <2>1. PICK place \in {"uncached", "failed"} : Move(t, place)
    BY <1>7 DEF HashOnly
  <2>2. ImageTypes'
    BY <1>1, <1>7, <2>1 DEF HashOnly, ImageTypes, Move, Jobs, fixed, options, refs, pushes
  <2>3. ProxyInv' /\ Kept
    BY <1>7, ProxyIdle DEF HashOnly
  <2>4. UNCHANGED <<mode, pushing, hub, reached, reports>> /\ result' \subseteq result
    BY <1>7 DEF HashOnly, fixed, options, pushes
  <2>5. result' # {} => Stored'
    BY <1>1, <2>3, <2>4, StoredStays
  <2>. QED  BY <2>1, <2>2, <2>3, <2>4, <2>5, OneTarget DEF Jobs
<1>. QED  BY <1>2, <1>3, <1>4, <1>5, <1>6, <1>7

\* The steps of commit keep it: a result is stored after the plan of the cache, and
\* after that of the push when there is one.
LEMMA CommitStepsKeep ==
  ASSUME IInv, NEW t \in Targets, ShipFresh(t) \/ Store(t) \/ CleanupPlans(t)
  PROVE  IInv'
<1>1. ImageTypes /\ JobOK(t) /\ (result # {} => Stored)
  BY DEF IInv
<1>2. ProxyInv' /\ Kept
  BY ProxyIdle DEF ShipFresh, Store, CleanupPlans
<1>3. UNCHANGED <<mode, pushing, hub>>
  BY DEF ShipFresh, Store, CleanupPlans, fixed, options, cache
<1>4. Stored => Stored'
  BY <1>2, <1>3, StoredStays
<1>5. CASE ShipFresh(t)
  <2>1. UNCHANGED <<mode, pushing, loads, noCache, interrupted, image, name, cacheTag, pullRef, hub, digest, result>>
        /\ Stored
    BY <1>1, <1>5 DEF ShipFresh, JobOK, fixed, options, refs, cache
  <2>2. CASE pushing
    <3>1. PICK ok \in BOOLEAN : Ship(t, ok) /\ Move(t, IF ok THEN "storing" ELSE "abort")
      BY <1>5, <2>2 DEF ShipFresh
    <3>2. PICK place \in {"storing", "abort"} : Move(t, place)
      BY <3>1
    <3>3. ImageTypes'
      BY <1>1, <2>1, <3>1, <3>2, Shipping DEF ImageTypes, Move, Jobs
    <3>. QED  BY <1>1, <1>2, <1>4, <2>1, <3>1, <3>2, <3>3, Shipping, OneTarget DEF Jobs
  <2>3. CASE ~pushing
    <3>1. Move(t, "storing") /\ UNCHANGED <<reached, reports>>
      BY <1>5, <2>3 DEF ShipFresh, pushes
    <3>2. ImageTypes'
      BY <1>1, <2>1, <3>1 DEF ImageTypes, Move, Jobs
    <3>. QED  BY <1>1, <1>2, <1>4, <2>1, <2>3, <3>1, <3>2, OneTarget DEF Jobs
  <2>. QED  BY <2>2, <2>3, <1>1 DEF ImageTypes
<1>6. CASE Store(t)
  <2>1. PICK place \in {"clean", "abort"} : Move(t, place)
    BY <1>6 DEF Store
  <2>2. ImageTypes'
    BY <1>1, <1>6, <2>1 DEF Store, ImageTypes, Move, Jobs, fixed, options, refs, pushes
  <2>3. UNCHANGED <<reached, reports>> /\ Stored /\ job[t] = "storing"
    BY <1>1, <1>6 DEF Store, JobOK, pushes
  <2>4. pushing => t \in reached' \/ HasFailures'
    BY <1>1, <2>3 DEF JobOK, HasFailures
  <2>. QED  BY <1>2, <1>3, <1>4, <2>1, <2>2, <2>3, <2>4, OneTarget DEF Jobs
<1>7. CASE CleanupPlans(t)
  <2>1. PICK place \in {"done", "failed"} : Move(t, place) /\ (place = "done" => job[t] = "clean")
    BY <1>7 DEF CleanupPlans
  <2>2. ImageTypes'
    BY <1>1, <1>7, <2>1 DEF CleanupPlans, Untag, ImageTypes, Move, Jobs, fixed, options, cache, pushes
  <2>3. UNCHANGED <<result, reached, reports>>
    BY <1>7 DEF CleanupPlans, cache, pushes
  <2>4. pushing /\ place = "done" => t \in reached' \/ HasFailures'
    BY <1>1, <2>1, <2>3 DEF JobOK, HasFailures
  <2>. QED  BY <1>1, <1>2, <1>3, <1>4, <2>1, <2>2, <2>3, <2>4, OneTarget DEF Jobs
<1>. QED  BY <1>5, <1>6, <1>7

\* The steps of Load keep it: they store nothing, and the push after a restore is
\* recorded like any other.
LEMMA LoadStepsKeep ==
  ASSUME IInv, NEW t \in Targets,
         SkipLoad(t) \/ Load(t) \/ TagPulled(t) \/ RemovePulled(t) \/ ShipRestored(t)
  PROVE  IInv'
<1>1. ImageTypes /\ JobOK(t) /\ (result # {} => Stored)
  BY DEF IInv
<1>2. ProxyInv' /\ Kept
  BY ProxyIdle DEF SkipLoad, Load, TagPulled, RemovePulled, ShipRestored
<1>3. UNCHANGED <<mode, pushing, loads, noCache, interrupted, hub, digest, result>>
  BY DEF SkipLoad, Load, TagPulled, RemovePulled, ShipRestored, fixed, options, cache
<1>4. result' # {} => Stored'
  BY <1>1, <1>2, <1>3, StoredStays
<1>5. CASE SkipLoad(t) \/ Load(t) \/ TagPulled(t) \/ RemovePulled(t)
  <2>1. UNCHANGED <<reached, reports>>
    BY <1>5 DEF SkipLoad, Load, TagPulled, RemovePulled, pushes
  <2>2. PICK place \in {"hit", "restored", "pulled", "tagged", "miss"} : Move(t, place)
    BY <1>5 DEF SkipLoad, Load, TagPulled, RemovePulled
  <2>3. /\ image' \in BOOLEAN /\ cacheTag' \in BOOLEAN /\ pullRef' \in BOOLEAN
        /\ name' \subseteq Targets
    BY <1>1, <1>5 DEF SkipLoad, Load, TagPulled, RemovePulled, refs, ImageTypes
  <2>4. ImageTypes'
    BY <1>1, <1>3, <2>1, <2>2, <2>3 DEF ImageTypes, Move, Jobs
  <2>. QED  BY <1>2, <1>3, <1>4, <2>1, <2>2, <2>4, OneTarget DEF Jobs
<1>6. CASE ShipRestored(t)
  <2>1. UNCHANGED <<image, name, cacheTag, pullRef>> /\ Move(t, "done")
    BY <1>6 DEF ShipRestored, refs
  <2>2. /\ reached \subseteq reached' /\ reports \subseteq reports'
        /\ reached' \subseteq Targets /\ reports' \subseteq Targets \X BOOLEAN
        /\ pushing => t \in reached' \/ HasFailures'
    <3>1. CASE pushing
      BY <1>6, <3>1, Shipping DEF ShipRestored
    <3>2. CASE ~pushing
      BY <1>1, <1>6, <3>2 DEF ShipRestored, pushes, ImageTypes
    <3>. QED  BY <3>1, <3>2, <1>1 DEF ImageTypes
  <2>3. ImageTypes'
    BY <1>1, <1>3, <2>1, <2>2 DEF ImageTypes, Move, Jobs
  <2>. QED  BY <1>2, <1>3, <1>4, <2>1, <2>2, <2>3, OneTarget DEF Jobs
<1>. QED  BY <1>5, <1>6

-----------------------------------------------------------------------------
(* Images: theorems                                                        *)

\* The invariant holds at the start: nothing is under way, and the results of an
\* earlier build can be restored.
LEMMA InitInv == Init => IInv
<1>. SUFFICES ASSUME Init PROVE IInv
  OBVIOUS
<1>. USE DEF Init, ProxyInit
<1>1. ImageTypes
  BY ImageAssumption DEF ImageTypes, AllOptions, Targets, Jobs
<1>2. ProxyTypes
  <2>1. NoUpload \in Uploads
    BY DEF NoUpload, Uploads
  <2>2. "off" \in Places /\ "idle" \in PushStages /\ <<>> \in Seq(Chunks)
    BY DEF Places, PushStages
  <2>. QED  BY <2>1, <2>2 DEF ProxyTypes
<1>3. \A s \in Sessions : SessionOK(s)
  BY DEF SessionOK, Opening, Locked, Finished, Digested, Owned, Owns, NoUpload, Requests
<1>4. (\A p \in Pushes : PushOK(p)) /\ (\A t \in Targets : JobOK(t))
  BY DEF PushOK, JobOK, Targets
<1>5. result # {} => Stored
  OBVIOUS
<1>. QED  BY <1>1, <1>2, <1>3, <1>4, <1>5 DEF IInv, ProxyInv

\* Every step keeps the invariant.
LEMMA NextInv == IInv /\ [Next]_vars => IInv'
<1>. SUFFICES ASSUME IInv, [Next]_vars PROVE IInv'
  OBVIOUS
<1>1. ProxyInv /\ interrupted \in BOOLEAN
  BY DEF IInv, ImageTypes
<1>2. ASSUME NEW t \in Targets, Target(t) PROVE IInv'
  BY <1>2, WriteStepsKeep, CommitStepsKeep, LoadStepsKeep DEF Target
<1>3. CASE DaemonStep \/ (\E s \in Sessions : HandlerStep(s)) \/ CloseRegistry
  <2>1. UNCHANGED imageVars /\ ProxyInv' /\ Kept
    BY <1>1, <1>3, ProxyKeeps DEF DaemonStep, HandlerStep, CloseRegistry, Targets
  <2>. QED  BY <1>1, <2>1, NoTarget DEF imageVars, options, refs, cache, pushes
<1>4. CASE Interrupt
  <2>1. ProxyInv' /\ Kept /\ interrupted' \in BOOLEAN
    BY <1>4, ProxyIdle DEF Interrupt
  <2>. QED  BY <1>4, <2>1, NoTarget DEF Interrupt
<1>5. CASE UNCHANGED vars
  <2>1. ProxyInv' /\ Kept
    BY <1>5, ProxyIdle DEF vars
  <2>. QED  BY <1>1, <1>5, <2>1, NoTarget DEF vars, imageVars, options, refs, cache, pushes
<1>. QED  BY <1>2, <1>3, <1>4, <1>5 DEF Next

\* The inductive invariant holds in every state of every build with images.
THEOREM ImageInvariant == Spec => []IInv
BY InitInv, NextInv, PTL DEF Spec

\* Whatever requests of its session break off, overlap or are refused, a handler or
\* the sweep of Close has still to end an open staged writer, unless a POST lists it
\* when the sweep is over.
THEOREM WritersHaveOwners == Spec => []WriterHasOwner
<1>1. IInv => WriterHasOwner
  BY DEF IInv, ProxyInv, SessionOK, Owned, WriterHasOwner
<1>. QED  BY <1>1, ImageInvariant, PTL

\* A result is stored only when its image can be restored, and the CAS never has a
\* mixture of two requests under the digest of the layer.
THEOREM RecordedAreComplete == Spec => []RecordedImagesComplete
<1>1. IInv => RecordedImagesComplete
  BY DEF IInv, ProxyInv, ProxyTypes, RecordedImagesComplete
<1>. QED  BY <1>1, ImageInvariant, PTL

\* A build with --push and no reported failure has pushed the image of every target
\* whose outputs it has stored or restored.
THEOREM PushesAreReported == Spec => []PushedUnlessReported
<1>1. IInv => PushedUnlessReported
  BY DEF IInv, ImageTypes, JobOK, PushedUnlessReported
<1>. QED  BY <1>1, ImageInvariant, PTL
-----------------------------------------------------------------------------
(* Files and directories: paths and trees                                  *)

Paths == Seq(EntryNames)

\* A suffix of a path follows the prefix before it.
LEMMA RestOfPath ==
  ASSUME NEW path \in Paths, NEW q \in Paths, IsPrefix(path, q)
  PROVE  /\ SubSeq(q, Len(path) + 1, Len(q)) \in Paths
         /\ path \o SubSeq(q, Len(path) + 1, Len(q)) = q
<1>1. Len(path) \in Nat /\ Len(q) \in Nat /\ Len(path) <= Len(q)
  BY LenProperties DEF IsPrefix, Paths
<1>2. \A i \in Len(path) + 1 .. Len(q) : q[i] \in EntryNames
  BY <1>1, ElementOfSeq DEF Paths
<1>3. SubSeq(q, Len(path) + 1, Len(q)) \in Paths
  BY <1>1, <1>2, SubSeqProperties DEF Paths
<1>4. SubSeq(q, 1, Len(path)) = path
  BY SubSeqFull DEF IsPrefix, Paths
<1>5. SubSeq(q, 1, Len(path)) \o SubSeq(q, Len(path) + 1, Len(q)) = q
  <2>1. 1 \in 1 .. Len(q) + 1 /\ Len(path) \in 1 - 1 .. Len(q) /\ Len(q) \in Len(path) .. Len(q)
    BY <1>1
  <2>2. SubSeq(q, 1, Len(path)) \o SubSeq(q, Len(path) + 1, Len(q)) = SubSeq(q, 1, Len(q))
    BY ONLY <2>1, q \in Paths, ConcatAdjacentSubSeq DEF Paths
  <2> QED  BY <2>2, SubSeqFull DEF Paths
<1> QED  BY <1>3, <1>4, <1>5

\* What is put behind a path has it as a prefix and itself as the rest.
LEMMA JoinedPaths ==
  ASSUME NEW path \in Paths, NEW p \in Paths
  PROVE  /\ path \o p \in Paths /\ IsPrefix(path, path \o p)
         /\ SubSeq(path \o p, Len(path) + 1, Len(path \o p)) = p
<1> DEFINE q == path \o p
           s == SubSeq(q, Len(path) + 1, Len(q))
<1>1. /\ q \in Paths /\ Len(q) = Len(path) + Len(p)
      /\ \A i \in 1 .. Len(path) + Len(p) : q[i] = IF i <= Len(path) THEN path[i] ELSE p[i - Len(path)]
  BY ConcatProperties DEF Paths
<1>2. Len(path) \in Nat /\ Len(p) \in Nat /\ Len(q) \in Nat
  BY <1>1, LenProperties DEF Paths
<1> HIDE DEF q
<1>3. \A i \in 1 .. Len(q) : q[i] \in EntryNames
  BY <1>1, ElementOfSeq DEF Paths
<1>4. /\ SubSeq(q, 1, Len(path)) \in Paths /\ Len(SubSeq(q, 1, Len(path))) = Len(path)
      /\ \A i \in 1 .. Len(path) : SubSeq(q, 1, Len(path))[i] = q[i]
  BY <1>1, <1>2, <1>3, SubSeqProperties DEF Paths
<1>5. SubSeq(q, 1, Len(path)) = path
  <2>1. \A i \in 1 .. Len(path) : SubSeq(q, 1, Len(path))[i] = path[i]
    BY <1>1, <1>2, <1>4
  <2> QED  BY <2>1, <1>4, SeqEqual DEF Paths
<1>6. IsPrefix(path, q)
  BY <1>1, <1>2, <1>5, SubSeqFull DEF IsPrefix, Paths
<1>7. /\ s \in Paths /\ Len(s) = Len(p)
      /\ \A i \in 1 .. Len(p) : s[i] = q[Len(path) + i]
  BY <1>1, <1>2, <1>3, SubSeqProperties DEF Paths
<1>8. s = p
  <2>1. \A i \in 1 .. Len(p) : s[i] = p[i]
    BY <1>1, <1>2, <1>7
  <2> QED  BY <2>1, <1>7, SeqEqual DEF Paths
<1> QED  BY <1>1, <1>6, <1>8 DEF q

\* The tree below a path has what the tree has behind the path.
LEMMA SubTree ==
  ASSUME NEW tree, DOMAIN tree \subseteq Paths, NEW path \in Paths
  PROVE  /\ Sub(tree, path) = [p \in DOMAIN Sub(tree, path) |-> tree[path \o p]]
         /\ \A p : p \in DOMAIN Sub(tree, path) <=> p \in Paths /\ path \o p \in DOMAIN tree
<1> DEFINE Tails == {SubSeq(q, Len(path) + 1, Len(q)) : q \in {q \in DOMAIN tree : IsPrefix(path, q)}}
<1>1. Sub(tree, path) = [p \in Tails |-> tree[path \o p]] /\ DOMAIN Sub(tree, path) = Tails
  BY DEF Sub
<1>2. DOMAIN tree \subseteq Paths
  OBVIOUS
<1>3. ASSUME NEW p \in Tails PROVE p \in Paths /\ path \o p \in DOMAIN tree
  <2>1. PICK q \in DOMAIN tree : IsPrefix(path, q) /\ p = SubSeq(q, Len(path) + 1, Len(q))
    OBVIOUS
  <2> QED  BY <2>1, <1>2, RestOfPath
<1>4. ASSUME NEW p \in Paths, path \o p \in DOMAIN tree PROVE p \in Tails
  BY <1>4, JoinedPaths
<1> QED  BY <1>1, <1>3, <1>4

\* Below a path that has its directories the tree is a tree, and below the root
\* it is the tree itself.
LEMMA SubOfRoot ==
  ASSUME NEW tree, IsTree(tree)
  PROVE  Sub(tree, <<>>) = tree
<1>1. <<>> \in Paths
  BY EmptySeq DEF Paths
<1>4. DOMAIN tree \subseteq Paths
  BY DEF IsTree, Paths
<1>2. /\ Sub(tree, <<>>) = [p \in DOMAIN Sub(tree, <<>>) |-> tree[<<>> \o p]]
      /\ \A p : p \in DOMAIN Sub(tree, <<>>) <=> p \in Paths /\ <<>> \o p \in DOMAIN tree
  BY <1>1, <1>4, SubTree
<1>3. \A p \in Paths : <<>> \o p = p
  BY ConcatEmptySeq DEF Paths
<1>5. DOMAIN Sub(tree, <<>>) = DOMAIN tree
  <2>1. \A p : p \in DOMAIN Sub(tree, <<>>) => p \in DOMAIN tree
    BY <1>2, <1>3
  <2>2. \A p : p \in DOMAIN tree => p \in DOMAIN Sub(tree, <<>>)
    BY <1>2, <1>3, <1>4
  <2> QED  BY <2>1, <2>2
<1> QED  BY <1>2, <1>3, <1>4, <1>5 DEF IsTree

\* A name is put behind a path.
LEMMA OneMore ==
  ASSUME NEW path \in Paths, NEW n \in EntryNames
  PROVE  /\ Append(path, n) \in Paths /\ path \o <<n>> = Append(path, n)
         /\ <<n>> \in Paths /\ Len(<<n>>) = 1 /\ Append(path, n) # <<>>
         /\ \A p \in Paths : <<n>> \o p \in Paths /\ path \o (<<n>> \o p) = Append(path, n) \o p
<1>1. <<n>> \in Paths /\ Len(<<n>>) = 1
  BY DEF Paths
<1>2. path \o <<n>> = Append(path, n) /\ Append(path, n) \in Paths /\ Append(path, n) # <<>>
  BY AppendIsConcat, AppendProperties DEF Paths
<1>3. ASSUME NEW p \in Paths
      PROVE  <<n>> \o p \in Paths /\ path \o (<<n>> \o p) = (path \o <<n>>) \o p
  BY <1>1, ConcatAssociative, ConcatProperties DEF Paths
<1> QED  BY <1>1, <1>2, <1>3

\* A subtree of a subtree is a subtree.
LEMMA SubOfSub ==
  ASSUME NEW tree, DOMAIN tree \subseteq Paths, NEW path \in Paths, NEW n \in EntryNames
  PROVE  Sub(Sub(tree, path), <<n>>) = Sub(tree, Append(path, n))
<1> DEFINE s == Sub(tree, path)
           a == Sub(s, <<n>>)
           b == Sub(tree, Append(path, n))
<1>1. <<n>> \in Paths /\ Append(path, n) \in Paths
  BY OneMore
<1>2. /\ s = [p \in DOMAIN s |-> tree[path \o p]]
      /\ \A p : p \in DOMAIN s <=> p \in Paths /\ path \o p \in DOMAIN tree
  BY SubTree
<1>9. DOMAIN s \subseteq Paths
  BY <1>2
<1>3. /\ a = [p \in DOMAIN a |-> s[<<n>> \o p]]
      /\ \A p : p \in DOMAIN a <=> p \in Paths /\ <<n>> \o p \in DOMAIN s
  BY <1>1, <1>9, SubTree
<1>4. /\ b = [p \in DOMAIN b |-> tree[Append(path, n) \o p]]
      /\ \A p : p \in DOMAIN b <=> p \in Paths /\ Append(path, n) \o p \in DOMAIN tree
  BY <1>1, SubTree
<1> HIDE DEF s, a, b
<1>5. \A p \in Paths : <<n>> \o p \in Paths /\ path \o (<<n>> \o p) = Append(path, n) \o p
  BY OneMore
<1>6. DOMAIN a = DOMAIN b
  BY <1>2, <1>3, <1>4, <1>5
<1>7. \A p \in DOMAIN a : s[<<n>> \o p] = tree[Append(path, n) \o p]
  BY <1>2, <1>3, <1>5
<1>8. a = b
  BY <1>3, <1>4, <1>6, <1>7
<1> QED  BY <1>8 DEF s, a, b

\* The prefixes of a path are paths, and are its own prefixes one level up.
LEMMA PartsOfPath ==
  ASSUME NEW p \in Paths, NEW k \in 0 .. Len(p)
  PROVE  /\ SubSeq(p, 1, k) \in Paths /\ Len(SubSeq(p, 1, k)) = k
         /\ IsPrefix(SubSeq(p, 1, k), p)
         /\ \A j \in 0 .. k : SubSeq(SubSeq(p, 1, k), 1, j) = SubSeq(p, 1, j)
         /\ k < Len(p) => /\ p[k + 1] \in EntryNames
                          /\ Append(SubSeq(p, 1, k), p[k + 1]) = SubSeq(p, 1, k + 1)
<1>1. Len(p) \in Nat /\ k \in Nat /\ k <= Len(p)
  BY LenProperties DEF Paths
<1>2. \A i \in 1 .. Len(p) : p[i] \in EntryNames
  BY ElementOfSeq DEF Paths
<1>3. \A n \in 0 .. Len(p) : /\ SubSeq(p, 1, n) \in Paths /\ Len(SubSeq(p, 1, n)) = n
                             /\ \A i \in 1 .. n : SubSeq(p, 1, n)[i] = p[i]
  <2> SUFFICES ASSUME NEW n \in 0 .. Len(p)
               PROVE  /\ SubSeq(p, 1, n) \in Paths /\ Len(SubSeq(p, 1, n)) = n
                      /\ \A i \in 1 .. n : SubSeq(p, 1, n)[i] = p[i]
    OBVIOUS
  <2>1. n \in Int /\ 1 \in Int /\ \A i \in 1 .. n : p[i] \in EntryNames
    BY <1>1, <1>2
  <2>2. /\ SubSeq(p, 1, n) \in Paths /\ Len(SubSeq(p, 1, n)) = IF 1 <= n THEN n - 1 + 1 ELSE 0
        /\ \A i \in 1 .. n - 1 + 1 : SubSeq(p, 1, n)[i] = p[1 + i - 1]
    BY ONLY <2>1, SubSeqProperties DEF Paths
  <2> QED  BY <1>1, <2>1, <2>2
<1> DEFINE q == SubSeq(p, 1, k)
<1>4. q \in Paths /\ Len(q) = k /\ \A i \in 1 .. k : q[i] = p[i]
  BY <1>3
<1> HIDE DEF q
<1>5. \A j \in 0 .. k : SubSeq(q, 1, j) = SubSeq(p, 1, j)
  <2> SUFFICES ASSUME NEW j \in 0 .. k PROVE SubSeq(q, 1, j) = SubSeq(p, 1, j)
    OBVIOUS
  <2>1. j \in Int /\ 1 \in Int /\ \A i \in 1 .. j : q[i] \in EntryNames
    BY <1>1, <1>2, <1>4
  <2>2. /\ SubSeq(q, 1, j) \in Paths /\ Len(SubSeq(q, 1, j)) = IF 1 <= j THEN j - 1 + 1 ELSE 0
        /\ \A i \in 1 .. j - 1 + 1 : SubSeq(q, 1, j)[i] = q[1 + i - 1]
    BY ONLY <2>1, SubSeqProperties DEF Paths
  <2>3. /\ SubSeq(q, 1, j) \in Paths /\ Len(SubSeq(q, 1, j)) = j
        /\ \A i \in 1 .. j : SubSeq(q, 1, j)[i] = p[i]
    BY <1>1, <1>4, <2>2
  <2> QED  BY <1>1, <1>3, <2>3, SeqEqual DEF Paths
<1>6. IsPrefix(q, p)
  BY <1>1, <1>4, <1>5, SubSeqFull DEF IsPrefix, q
<1>7. ASSUME k < Len(p)
      PROVE  p[k + 1] \in EntryNames /\ Append(q, p[k + 1]) = SubSeq(p, 1, k + 1)
  <2>1. p[k + 1] \in EntryNames
    BY <1>1, <1>2, <1>7
  <2>2. /\ Append(q, p[k + 1]) \in Paths /\ Len(Append(q, p[k + 1])) = k + 1
        /\ \A i \in 1 .. k : Append(q, p[k + 1])[i] = p[i]
        /\ Append(q, p[k + 1])[k + 1] = p[k + 1]
    BY <1>4, <2>1, AppendProperties DEF Paths
  <2>3. /\ SubSeq(p, 1, k + 1) \in Paths /\ Len(SubSeq(p, 1, k + 1)) = k + 1
        /\ \A i \in 1 .. k + 1 : SubSeq(p, 1, k + 1)[i] = p[i]
    BY <1>1, <1>3, <1>7
  <2>4. \A i \in 1 .. k + 1 : Append(q, p[k + 1])[i] = SubSeq(p, 1, k + 1)[i]
    BY <1>1, <2>2, <2>3
  <2> QED  BY <1>1, <2>1, <2>2, <2>3, <2>4, SeqEqual DEF Paths
<1> QED  BY <1>4, <1>5, <1>6, <1>7 DEF q

\* A path of one name is that name.
LEMMA OneName ==
  ASSUME NEW p \in Paths, Len(p) = 1
  PROVE  p[1] \in EntryNames /\ p = <<p[1]>>
<1>1. p[1] \in EntryNames
  BY ElementOfSeq DEF Paths
<1>2. <<p[1]>> \in Paths /\ Len(<<p[1]>>) = 1 /\ <<p[1]>>[1] = p[1]
  BY <1>1 DEF Paths
<1> QED  BY <1>1, <1>2, SeqEqual DEF Paths

\* The message of a directory has its entries.
LEMMA MessageOfTree ==
  ASSUME NEW s, DOMAIN s \subseteq Paths
  PROVE  /\ \A n : n \in DOMAIN Message(s) <=> n \in EntryNames /\ <<n>> \in DOMAIN s
         /\ \A n \in DOMAIN Message(s) :
              Message(s)[n] = IF s[<<n>>] = Directory THEN DirectoryNode(Sub(s, <<n>>)) ELSE s[<<n>>]
<1> DEFINE D == {p[1] : p \in {p \in DOMAIN s : Len(p) = 1}}
<1>1. ASSUME NEW n, n \in D PROVE n \in EntryNames /\ <<n>> \in DOMAIN s
  <2>1. PICK p \in DOMAIN s : Len(p) = 1 /\ n = p[1]
    BY <1>1
  <2> QED  BY <2>1, OneName
<1>2. ASSUME NEW n \in EntryNames, <<n>> \in DOMAIN s PROVE n \in D
  <2>1. <<n>> \in {p \in DOMAIN s : Len(p) = 1} /\ <<n>>[1] = n
    BY <1>2
  <2> QED  BY <2>1
<1>3. /\ DOMAIN Message(s) = D
      /\ \A n \in D : Message(s)[n] = IF s[<<n>>] = Directory THEN DirectoryNode(Sub(s, <<n>>)) ELSE s[<<n>>]
  BY DEF Message
<1> HIDE DEF D
<1> QED  BY <1>1, <1>2, <1>3

\* The message of a directory in a tree has its entries in the tree.
LEMMA MessageOfSub ==
  ASSUME NEW tree, DOMAIN tree \subseteq Paths, NEW path \in Paths
  PROVE  /\ \A n : n \in DOMAIN Message(Sub(tree, path))
                     <=> n \in EntryNames /\ Append(path, n) \in DOMAIN tree
         /\ \A n \in DOMAIN Message(Sub(tree, path)) :
              Message(Sub(tree, path))[n] =
                IF tree[Append(path, n)] = Directory THEN DirectoryNode(Sub(tree, Append(path, n)))
                ELSE tree[Append(path, n)]
<1> DEFINE s == Sub(tree, path)
<1>1. /\ s = [p \in DOMAIN s |-> tree[path \o p]]
      /\ \A p : p \in DOMAIN s <=> p \in Paths /\ path \o p \in DOMAIN tree
  BY SubTree
<1> HIDE DEF s
<1>2. DOMAIN s \subseteq Paths
  BY <1>1
<1>3. /\ \A n : n \in DOMAIN Message(s) <=> n \in EntryNames /\ <<n>> \in DOMAIN s
      /\ \A n \in DOMAIN Message(s) :
           Message(s)[n] = IF s[<<n>>] = Directory THEN DirectoryNode(Sub(s, <<n>>)) ELSE s[<<n>>]
  BY <1>2, MessageOfTree
<1>4. ASSUME NEW n \in EntryNames
      PROVE  /\ <<n>> \in DOMAIN s <=> Append(path, n) \in DOMAIN tree
             /\ <<n>> \in DOMAIN s => s[<<n>>] = tree[Append(path, n)]
             /\ Sub(s, <<n>>) = Sub(tree, Append(path, n))
  <2>1. <<n>> \in Paths /\ path \o <<n>> = Append(path, n)
    BY OneMore
  <2>2. Sub(s, <<n>>) = Sub(tree, Append(path, n))
    BY SubOfSub DEF s
  <2> QED  BY <1>1, <2>1, <2>2
<1>5. \A n : n \in DOMAIN Message(s) <=> n \in EntryNames /\ Append(path, n) \in DOMAIN tree
  BY <1>3, <1>4
<1>6. ASSUME NEW n \in DOMAIN Message(s)
      PROVE  Message(s)[n] =
               IF tree[Append(path, n)] = Directory THEN DirectoryNode(Sub(tree, Append(path, n)))
               ELSE tree[Append(path, n)]
  BY <1>3, <1>4
<1> QED  BY <1>5, <1>6 DEF s

\* The nodes of a tree, and the directories above them
LEMMA NodesOfTree ==
  ASSUME NEW tree, IsTree(tree)
  PROVE  /\ DOMAIN tree \subseteq Paths
         /\ \A p \in DOMAIN tree : /\ IsNode(tree[p]) /\ tree[p].kind \in {"file", "link", "dir"}
                                   /\ tree[p].kind = "dir" <=> tree[p] = Directory
         /\ \A p \in DOMAIN tree : \A k \in 0 .. Len(p) - 1 :
              SubSeq(p, 1, k) \in DOMAIN tree /\ tree[SubSeq(p, 1, k)] = Directory
         /\ \A p : KindAt(tree, p) = "none" <=> p \notin DOMAIN tree
         /\ \A p \in DOMAIN tree : KindAt(tree, p) = tree[p].kind
<1>1. DOMAIN tree \subseteq Paths
  BY DEF IsTree, Paths
<1>2. \A p \in DOMAIN tree : /\ IsNode(tree[p]) /\ tree[p].kind \in {"file", "link", "dir"}
                             /\ tree[p].kind = "dir" <=> tree[p] = Directory
  BY DEF IsTree, IsNode, FileNode, LinkNode, Directory
<1>3. \A p : /\ KindAt(tree, p) = "none" <=> p \notin DOMAIN tree
             /\ p \in DOMAIN tree => KindAt(tree, p) = tree[p].kind
  BY <1>2 DEF KindAt
<1>4. \A p \in DOMAIN tree : \A k \in 0 .. Len(p) - 1 :
        SubSeq(p, 1, k) \in DOMAIN tree /\ tree[SubSeq(p, 1, k)] = Directory
  BY <1>2, <1>3 DEF IsTree
<1> QED  BY <1>1, <1>2, <1>3, <1>4

\* A path that is not empty begins with a name of the root directory.
LEMMA FirstName ==
  ASSUME NEW tree, IsTree(tree), NEW p \in DOMAIN tree, p # <<>>
  PROVE  /\ p[1] \in EntryNames /\ <<p[1]>> \in DOMAIN tree
         /\ tree[<<p[1]>>] # Directory => p = <<p[1]>>
         /\ \E r \in Paths : p = <<p[1]>> \o r
<1>1. p \in Paths /\ Len(p) \in Nat \ {0}
  BY NodesOfTree, EmptySeq, LenProperties DEF Paths
<1>2. p[1] \in EntryNames
  BY <1>1, ElementOfSeq DEF Paths
<1>3. SubSeq(p, 1, 1) \in Paths /\ Len(SubSeq(p, 1, 1)) = 1 /\ IsPrefix(SubSeq(p, 1, 1), p)
  BY <1>1, PartsOfPath
<1>4. SubSeq(p, 1, 1) = <<p[1]>>
  <2>1. 1 \in Int /\ \A i \in 1 .. 1 : p[i] \in EntryNames
    BY <1>2
  <2>2. \A i \in 1 .. 1 - 1 + 1 : SubSeq(p, 1, 1)[i] = p[1 + i - 1]
    BY ONLY <2>1, SubSeqProperties
  <2>3. SubSeq(p, 1, 1)[1] = p[1]
    BY <2>2
  <2> QED  BY <1>3, <2>3, OneName
<1>5. CASE Len(p) <= 1
  <2> DEFINE len == Len(p)
  <2>3. len \in Nat \ {0} /\ len <= 1
    BY <1>1, <1>5
  <2> HIDE DEF len
  <2>4. len = 1
    BY <2>3
  <2>1. p = <<p[1]>>
    BY <1>1, <2>4, OneName DEF len
  <2>2. <<>> \in Paths /\ p \o <<>> = p
    BY <1>1, ConcatEmptySeq, EmptySeq DEF Paths
  <2> QED  BY <1>2, <2>1, <2>2
<1>6. CASE ~(Len(p) <= 1)
  <2>1. 1 \in 0 .. Len(p) - 1
    BY <1>1, <1>6
  <2>2. SubSeq(p, 1, 1) \in DOMAIN tree /\ tree[SubSeq(p, 1, 1)] = Directory
    BY <2>1, NodesOfTree
  <2>3. \E r \in Paths : p = SubSeq(p, 1, 1) \o r
    BY <1>1, <1>3, RestOfPath
  <2> QED  BY <1>2, <1>4, <2>2, <2>3
<1> QED  BY <1>5, <1>6

\* A node that a message has for a name tells what the tree has there.
LEMMA EntryOfRoot ==
  ASSUME NEW tree, IsTree(tree), NEW n \in DOMAIN Message(tree)
  PROVE  /\ <<n>> \in DOMAIN tree
         /\ Message(tree)[n].kind = "dir" <=> tree[<<n>>] = Directory
         /\ tree[<<n>>] = Directory => Message(tree)[n].digest = Sub(tree, <<n>>)
         /\ tree[<<n>>] # Directory => Message(tree)[n] = tree[<<n>>]
<1>1. /\ <<n>> \in DOMAIN tree
      /\ Message(tree)[n] = IF tree[<<n>>] = Directory THEN DirectoryNode(Sub(tree, <<n>>)) ELSE tree[<<n>>]
  BY NodesOfTree, MessageOfTree
<1>2. tree[<<n>>].kind = "dir" <=> tree[<<n>>] = Directory
  BY <1>1, NodesOfTree
<1> QED  BY <1>1, <1>2 DEF DirectoryNode

\* What a directory has, one with the same message has as well ...
LEMMA PartOfSameMessage ==
  ASSUME NEW a, NEW b, IsTree(a), IsTree(b), KindAt(a, <<>>) = "dir", KindAt(b, <<>>) = "dir",
         Message(a) = Message(b), NEW p \in DOMAIN a
  PROVE  p \in DOMAIN b /\ b[p] = a[p]
<1>1. a[<<>>] = Directory /\ b[<<>>] = Directory /\ <<>> \in DOMAIN b
  BY NodesOfTree DEF KindAt
<1>2. CASE p = <<>>
  BY <1>1, <1>2
<1>3. CASE p # <<>>
  <2> DEFINE n == p[1]
  <2>1. PICK r \in Paths : p = <<n>> \o r
    BY <1>3, FirstName
  <2>2. n \in EntryNames /\ <<n>> \in DOMAIN a /\ (a[<<n>>] # Directory => p = <<n>>)
    BY <1>3, FirstName
  <2> HIDE DEF n
  <2>3. n \in DOMAIN Message(a) /\ n \in DOMAIN Message(b)
    BY <2>2, NodesOfTree, MessageOfTree
  <2>4. /\ Message(a)[n].kind = "dir" <=> a[<<n>>] = Directory
        /\ a[<<n>>] = Directory => Message(a)[n].digest = Sub(a, <<n>>)
        /\ a[<<n>>] # Directory => Message(a)[n] = a[<<n>>]
    BY <2>3, EntryOfRoot
  <2>5. /\ <<n>> \in DOMAIN b
        /\ Message(b)[n].kind = "dir" <=> b[<<n>>] = Directory
        /\ b[<<n>>] = Directory => Message(b)[n].digest = Sub(b, <<n>>)
        /\ b[<<n>>] # Directory => Message(b)[n] = b[<<n>>]
    BY <2>3, EntryOfRoot
  <2>6. CASE a[<<n>>] # Directory
    BY <2>2, <2>4, <2>5, <2>6
  <2>7. CASE a[<<n>>] = Directory
    <3>1. Sub(a, <<n>>) = Sub(b, <<n>>)
      BY <2>4, <2>5, <2>7
    <3>2. <<n>> \in Paths /\ DOMAIN a \subseteq Paths /\ DOMAIN b \subseteq Paths
      BY <2>2, NodesOfTree
    <3>3. /\ Sub(a, <<n>>) = [q \in DOMAIN Sub(a, <<n>>) |-> a[<<n>> \o q]]
          /\ \A q : q \in DOMAIN Sub(a, <<n>>) <=> q \in Paths /\ <<n>> \o q \in DOMAIN a
      BY <3>2, SubTree
    <3>4. /\ Sub(b, <<n>>) = [q \in DOMAIN Sub(b, <<n>>) |-> b[<<n>> \o q]]
          /\ \A q : q \in DOMAIN Sub(b, <<n>>) <=> q \in Paths /\ <<n>> \o q \in DOMAIN b
      BY <3>2, SubTree
    <3>5. r \in DOMAIN Sub(a, <<n>>) /\ Sub(a, <<n>>)[r] = a[p]
      BY <2>1, <3>3
    <3>6. r \in DOMAIN Sub(b, <<n>>) /\ Sub(b, <<n>>)[r] = b[p] /\ p \in DOMAIN b
      BY <2>1, <3>1, <3>4, <3>5
    <3> QED  BY <3>1, <3>5, <3>6
  <2> QED  BY <2>6, <2>7
<1> QED  BY <1>2, <1>3

\* ... so the digest of a directory tells all that is below it.
LEMMA SameMessage ==
  ASSUME NEW a, NEW b, IsTree(a), IsTree(b), KindAt(a, <<>>) = "dir", KindAt(b, <<>>) = "dir",
         Message(a) = Message(b)
  PROVE  a = b
<1>1. \A p \in DOMAIN a : p \in DOMAIN b /\ b[p] = a[p]
  BY PartOfSameMessage
<1>2. \A p \in DOMAIN b : p \in DOMAIN a /\ a[p] = b[p]
  BY PartOfSameMessage
<1>3. DOMAIN a = DOMAIN b
  BY <1>1, <1>2
<1> QED  BY <1>1, <1>3 DEF IsTree

-----------------------------------------------------------------------------
(* Files and directories: the inductive invariant                          *)

Restoring == phase \in {"loading", "failing"}
Phases == {"start", "run", "write", "upload", "load", "loading", "failing", "restored"}

\* A download puts a file at a path, and below the output unless it has begun.
IsDownload(d) ==
  /\ d = <<d[1], d[2], d[3]>> /\ d[1] \in Seq(EntryNames) /\ d[3] \in {"open", "copy"}
  /\ d[2] = FileNode(d[2].content, d[2].exec) /\ d[2].exec \in BOOLEAN
  /\ d[3] = "open" => d[1] # <<>>

\* The types, and when there is nothing that a Load has started
FilesTypes ==
  /\ type \in {"dir", "file"} /\ bin \in BOOLEAN /\ phase \in Phases
  /\ IsTree(disk)
  /\ \A d \in pending : IsDownload(d)
  /\ phase \in {"start", "load", "restored"} => pending = {}
  /\ ~Restoring => todo = {}

\* The CAS has under each digest what it is the digest of.
CasHolds ==
  \A blob \in cas :
    /\ blob = <<blob[1], blob[2]>>
    /\ blob[2] = IF blob[1].kind = "blob" THEN blob[1].content ELSE blob[1]

\* The snapshot of the output, as Write described it
Snapshot ==
  phase = "upload" => IsTree(staged) /\ KindAt(staged, <<>>) = type /\ output = TreeOf(staged)

\* The stored result can be restored.
Restorable ==
  recorded # NoResult =>
    /\ IsTree(recorded.was) /\ KindAt(recorded.was, <<>>) = type
    /\ recorded.tree = TreeOf(recorded.was)
    /\ \A p \in FileUploads(recorded.was) : InCas(Blob(recorded.was[p].content))
    /\ type = "dir" => InCas(recorded.tree)

\* what Load does not restore, unless the file is the bin_output
Mode == bin \/ (KindAt(disk, <<>>) = "file" /\ disk[<<>>].exec)
Goal == WithMode(recorded.was, Mode)

\* What has been restored so far is a part of the goal, apart from the contents
\* of files; the directories that are to be filled have been made.
Partly ==
  Restoring =>
    /\ \A p \in DOMAIN disk :
         /\ p \in DOMAIN Goal /\ disk[p].kind = Goal[p].kind
         /\ disk[p].kind # "file" => disk[p] = Goal[p]
    /\ \A d \in pending : d[1] \in DOMAIN Goal /\ d[2] = Goal[d[1]]
                          /\ (d[3] = "copy" => d[1] \in DOMAIN disk)
    /\ \A t \in todo : /\ t = <<t[1], Message(Sub(recorded.was, t[1]))>>
                       /\ t[1] \in DOMAIN disk /\ disk[t[1]] = Directory
    /\ type = "file" => todo = {}

Coming(p) == \E d \in pending : d[1] = p
ToMake(p) == \E t \in todo : IsStrictPrefix(t[1], p)

\* While no error has been met, every node of the goal is there, or is a file
\* that is being downloaded, or lies below a directory that is to be filled.
OnItsWay ==
  phase = "loading" =>
    \A p \in DOMAIN Goal : Coming(p) \/ ToMake(p) \/ (p \in DOMAIN disk /\ disk[p] = Goal[p])

FInv ==
  /\ FilesTypes /\ CasHolds /\ Snapshot /\ Restorable /\ Partly /\ OnItsWay
  /\ phase \in {"load", "loading", "failing", "restored"} => recorded # NoResult
  /\ RestoredIsWritten

-----------------------------------------------------------------------------
(* Files and directories: what steps do to trees                           *)

\* An output that is a file has no other node, one that is missing has none.
LEMMA SmallTrees ==
  ASSUME NEW tree, IsTree(tree)
  PROVE  /\ KindAt(tree, <<>>) = "none" => tree = Missing
         /\ KindAt(tree, <<>>) = "file" =>
              /\ DOMAIN tree = {<<>>}
              /\ tree = Single(FileNode(tree[<<>>].content, tree[<<>>].exec))
              /\ tree[<<>>].exec \in BOOLEAN
         /\ KindAt(tree, <<>>) = "dir" => <<>> \in DOMAIN tree /\ tree[<<>>] = Directory
<1>1. ASSUME NEW p \in DOMAIN tree, p # <<>>
      PROVE  <<>> \in DOMAIN tree /\ tree[<<>>] = Directory
  <2>1. p \in Paths /\ Len(p) \in Nat \ {0}
    BY <1>1, NodesOfTree, EmptySeq DEF Paths
  <2>2. 0 \in 0 .. Len(p) - 1
    BY <2>1
  <2>3. SubSeq(p, 1, 0) \in DOMAIN tree /\ tree[SubSeq(p, 1, 0)] = Directory
    BY <2>2, NodesOfTree
  <2>4. 1 \in Int /\ 0 \in Int /\ 0 < 1
    OBVIOUS
  <2>5. SubSeq(p, 1, 0) = <<>>
    BY ONLY <2>4, SubSeqEmpty
  <2> QED  BY <2>3, <2>5
<1>2. tree = [p \in DOMAIN tree |-> tree[p]]
  BY DEF IsTree
<1>3. CASE KindAt(tree, <<>>) = "none"
  <2>1. DOMAIN tree = {}
    BY <1>1, <1>3, NodesOfTree
  <2> QED  BY <1>2, <1>3, <2>1 DEF Missing
<1>4. CASE KindAt(tree, <<>>) = "file"
  <2>1. <<>> \in DOMAIN tree /\ tree[<<>>].kind = "file" /\ IsNode(tree[<<>>])
    BY <1>4, NodesOfTree DEF KindAt
  <2>4. tree[<<>>] # Directory
    BY <2>1 DEF Directory
  <2>5. \A p \in DOMAIN tree : p = <<>>
    BY <1>1, <2>4
  <2>2. DOMAIN tree = {<<>>}
    BY <2>1, <2>5
  <2>3. tree[<<>>] = FileNode(tree[<<>>].content, tree[<<>>].exec) /\ tree[<<>>].exec \in BOOLEAN
    BY <2>1 DEF IsNode, LinkNode, Directory
  <2> QED  BY <1>2, <1>4, <2>2, <2>3 DEF Single
<1>5. CASE KindAt(tree, <<>>) = "dir"
  BY <1>5, NodesOfTree DEF KindAt
<1> QED  BY <1>3, <1>4, <1>5

\* A file can be put where there is none or another, below directories.
LEMMA PutFile ==
  ASSUME NEW tree, IsTree(tree), NEW path \in Paths, NEW content, NEW exec \in BOOLEAN,
         \A k \in 0 .. Len(path) - 1 : KindAt(tree, SubSeq(path, 1, k)) = "dir",
         KindAt(tree, path) \in {"none", "file"}
  PROVE  IsTree(With(tree, path, FileNode(content, exec)))
<1> DEFINE node == FileNode(content, exec)
           new == With(tree, path, node)
<1>1. /\ new = [p \in DOMAIN tree \cup {path} |-> IF p = path THEN node ELSE tree[p]]
      /\ DOMAIN new = DOMAIN tree \cup {path}
  BY DEF With
<1>2. IsNode(node) /\ node.kind = "file"
  BY DEF IsNode, FileNode
<1> HIDE DEF new, node
<1>3. ASSUME NEW q, KindAt(tree, q) = "dir" PROVE KindAt(new, q) = "dir"
  BY <1>1, <1>3 DEF KindAt
<1>4. KindAt(new, <<>>) \in {"none", "file", "dir"}
  BY <1>1, <1>2 DEF KindAt, IsTree
<1>5. ASSUME NEW p \in DOMAIN new
      PROVE  IsNode(new[p]) /\ \A k \in 0 .. Len(p) - 1 : KindAt(new, SubSeq(p, 1, k)) = "dir"
  BY <1>1, <1>2, <1>3 DEF IsTree
<1>6. DOMAIN new \subseteq Seq(EntryNames) /\ new = [p \in DOMAIN new |-> new[p]]
  BY <1>1 DEF IsTree, Paths
<1>7. IsTree(new)
  BY <1>4, <1>5, <1>6 DEF IsTree
<1> QED  BY <1>7 DEF new, node

\* Where the parent is a directory, all that is above is.
LEMMA UnderDirectory ==
  ASSUME NEW tree, IsTree(tree), NEW path \in Paths, path # <<>>, KindAt(tree, Front(path)) = "dir"
  PROVE  \A k \in 0 .. Len(path) - 1 : KindAt(tree, SubSeq(path, 1, k)) = "dir"
<1> DEFINE len == Len(path)
<1>1. len \in Nat \ {0}
  BY EmptySeq DEF Paths
<1>2. len - 1 \in 0 .. Len(path)
  BY <1>1
<1>3. /\ Len(Front(path)) = len - 1
      /\ \A j \in 0 .. len - 1 : SubSeq(Front(path), 1, j) = SubSeq(path, 1, j)
  BY <1>2, PartsOfPath DEF Front
<1> HIDE DEF len
<1>4. Front(path) \in DOMAIN tree
  BY NodesOfTree
<1> SUFFICES ASSUME NEW k \in 0 .. len - 1
             PROVE  KindAt(tree, SubSeq(path, 1, k)) = "dir"
  BY DEF len
<1>5. CASE k = len - 1
  BY <1>5 DEF Front, len
<1>6. CASE k # len - 1
  <2>1. k \in 0 .. (len - 1) - 1
    BY <1>1, <1>6
  <2>2. KindAt(tree, SubSeq(Front(path), 1, k)) = "dir"
    BY <1>3, <1>4, <2>1 DEF IsTree
  <2> QED  BY <1>3, <2>2
<1> QED  BY <1>5, <1>6

\* Directories and links can be put into a directory.
LEMMA PutEntries ==
  ASSUME NEW tree, IsTree(tree), NEW path \in DOMAIN tree, tree[path] = Directory,
         NEW new, new = [p \in DOMAIN new |-> new[p]],
         \A p \in DOMAIN tree : p \in DOMAIN new /\ new[p] = tree[p],
         \A p \in DOMAIN new \ DOMAIN tree :
           IsNode(new[p]) /\ \E n \in EntryNames : p = Append(path, n)
  PROVE  IsTree(new)
<1>1. path \in Paths /\ DOMAIN tree \subseteq Paths
  BY NodesOfTree
<1>2. ASSUME NEW q, KindAt(tree, q) = "dir" PROVE KindAt(new, q) = "dir"
  BY <1>2 DEF KindAt
<1>3. ASSUME NEW n \in EntryNames
      PROVE  /\ Append(path, n) \in Paths /\ Append(path, n) # <<>>
             /\ \A k \in 0 .. Len(Append(path, n)) - 1 :
                  KindAt(tree, SubSeq(Append(path, n), 1, k)) = "dir"
  <2>1. n \in EntryNames
    OBVIOUS
  <2>2. Append(path, n) \in Paths /\ Append(path, n) # <<>>
    BY <1>1, <2>1, OneMore
  <2>3. Front(Append(path, n)) = path
    <3>1. /\ Len(Append(path, n)) = Len(path) + 1 /\ Len(path) \in Nat
          /\ \A i \in 1 .. Len(path) : Append(path, n)[i] = path[i]
      BY <1>1, <2>1, AppendProperties, LenProperties DEF Paths
    <3>2. Len(path) \in 0 .. Len(Append(path, n)) /\ Len(Append(path, n)) - 1 = Len(path)
      BY <3>1
    <3>3. SubSeq(Append(path, n), 1, Len(path)) = SubSeq(path, 1, Len(path))
      <4>1. \A i \in 1 .. Len(path) : Append(path, n)[i] \in EntryNames
        BY <1>1, <3>1, ElementOfSeq DEF Paths
      <4>2. 1 \in Int /\ Len(path) \in Int
        BY <3>1
      <4>3. /\ SubSeq(Append(path, n), 1, Len(path)) \in Paths
            /\ Len(SubSeq(Append(path, n), 1, Len(path))) = IF 1 <= Len(path) THEN Len(path) - 1 + 1 ELSE 0
            /\ \A i \in 1 .. Len(path) - 1 + 1 : SubSeq(Append(path, n), 1, Len(path))[i] = Append(path, n)[1 + i - 1]
        BY ONLY <4>1, <4>2, SubSeqProperties DEF Paths
      <4>4. /\ Len(SubSeq(Append(path, n), 1, Len(path))) = Len(path)
            /\ \A i \in 1 .. Len(path) : SubSeq(Append(path, n), 1, Len(path))[i] = path[i]
        BY <3>1, <4>3
      <4>5. SubSeq(Append(path, n), 1, Len(path)) = path
        BY <1>1, <4>3, <4>4, SeqEqual DEF Paths
      <4> QED  BY <1>1, <4>5, SubSeqFull DEF Paths
    <3> QED  BY <1>1, <3>2, <3>3, SubSeqFull DEF Front, Paths
  <2>4. KindAt(tree, Front(Append(path, n))) = "dir"
    BY <2>3 DEF KindAt, Directory
  <2> QED  BY <2>2, <2>4, UnderDirectory
<1>4. KindAt(new, <<>>) \in {"none", "file", "dir"}
  <2>1. <<>> \in DOMAIN new <=> <<>> \in DOMAIN tree
    BY <1>3
  <2> QED  BY <2>1 DEF KindAt, IsTree
<1>5. DOMAIN new \subseteq Seq(EntryNames)
  BY <1>1, <1>3 DEF Paths
<1>6. ASSUME NEW p \in DOMAIN new
      PROVE  IsNode(new[p]) /\ \A k \in 0 .. Len(p) - 1 : KindAt(new, SubSeq(p, 1, k)) = "dir"
  <2>1. CASE p \in DOMAIN tree
    BY <1>2, <2>1 DEF IsTree
  <2>2. CASE p \notin DOMAIN tree
    BY <1>2, <1>3, <2>2
  <2> QED  BY <2>1, <2>2
<1> QED  BY <1>4, <1>5, <1>6 DEF IsTree

\* A file with another mode is a tree as well, with the content that it had.
LEMMA ModeTree ==
  ASSUME NEW tree, IsTree(tree), NEW exec \in BOOLEAN
  PROVE  /\ IsTree(WithMode(tree, exec)) /\ KindAt(WithMode(tree, exec), <<>>) = KindAt(tree, <<>>)
         /\ KindAt(tree, <<>>) = "file" =>
              WithMode(tree, exec) = Single(FileNode(tree[<<>>].content, exec))
         /\ KindAt(tree, <<>>) # "file" => WithMode(tree, exec) = tree
         /\ DOMAIN WithMode(tree, exec) = DOMAIN tree
         /\ \A p \in DOMAIN tree : WithMode(tree, exec)[p].kind = "file" =>
              tree[p].kind = "file" /\ WithMode(tree, exec)[p].content = tree[p].content
<1>1. CASE KindAt(tree, <<>>) # "file"
  BY <1>1 DEF WithMode
<1>2. CASE KindAt(tree, <<>>) = "file"
  <2>1. DOMAIN tree = {<<>>}
    BY <1>2, SmallTrees
  <2>2. WithMode(tree, exec) = Single(FileNode(tree[<<>>].content, exec))
    BY <1>2, <2>1 DEF WithMode, With, Single
  <2>3. <<>> \in Paths /\ \A k \in 0 .. Len(<<>>) - 1 : FALSE
    BY EmptySeq DEF Paths
  <2>4. IsTree(WithMode(tree, exec))
    BY <1>2, <2>3, PutFile DEF WithMode
  <2>5. tree[<<>>].kind = "file"
    BY <1>2, <2>1 DEF KindAt
  <2> QED  BY <1>2, <2>1, <2>2, <2>4, <2>5 DEF Single, FileNode, KindAt
<1> QED  BY <1>1, <1>2


\* So is an output when bin_output has been made executable.
LEMMA ExecutableTree ==
  ASSUME NEW tree, IsTree(tree)
  PROVE  IsTree(Executable(tree))
BY ModeTree DEF Executable

\* The goal stays while the result and the mode do.
LEMMA GoalStays ==
  ASSUME UNCHANGED recorded, Mode' = Mode
  PROVE  Goal' = Goal
BY DEF Goal, WithMode, KindAt, With

\* The mode is nothing that the goal of a directory depends on.
LEMMA DirectoryGoal ==
  ASSUME UNCHANGED recorded, KindAt(recorded.was, <<>>) # "file"
  PROVE  Goal = recorded.was /\ Goal' = Goal
BY DEF Goal, WithMode

-----------------------------------------------------------------------------
(* Files and directories: the steps                                        *)

\* What the CAS returns under a digest
LEMMA ContentOf ==
  ASSUME CasHolds, NEW key, InCas(key)
  PROVE  Content(key) = IF key.kind = "blob" THEN key.content ELSE key
<1>1. PICK b \in cas : b[1] = key
  BY DEF InCas
<1> DEFINE chosen == CHOOSE blob \in cas : blob[1] = key
<1>2. chosen \in cas /\ chosen[1] = key
  BY <1>1
<1> QED  BY <1>2 DEF Content, CasHolds

\* A write to the CAS stores what the digest is of, and removes nothing.
LEMMA CasWriteKeeps ==
  ASSUME CasHolds, NEW key, NEW content, CasWrite(key, content),
         content = IF key.kind = "blob" THEN key.content ELSE key
  PROVE  CasHolds' /\ cas \subseteq cas'
<1>1. CASE InCas(key)
  BY <1>1 DEF CasWrite, CasHolds
<1>2. CASE ~InCas(key)
  <2>1. cas' = cas \cup {<<key, content>>}
    BY <1>2 DEF CasWrite
  <2> QED  BY <2>1 DEF CasHolds
<1> QED  BY <1>1, <1>2

\* The results stay restorable while nothing is taken from the CAS.
LEMMA RestorableStays ==
  ASSUME Restorable, recorded' = recorded, type' = type, cas \subseteq cas'
  PROVE  Restorable'
  BY DEF Restorable, InCas

\* When no Load is under way there is nothing to say of one.
LEMMA NoLoad ==
  ASSUME phase' \notin {"loading", "failing", "restored"}
  PROVE  Partly' /\ OnItsWay' /\ RestoredIsWritten'
  BY DEF Partly, OnItsWay, RestoredIsWritten, Restoring

\* Initially nothing is stored and no Load is under way.
LEMMA FInit == FilesInit => FInv
<1> SUFFICES ASSUME FilesInit PROVE FInv
  OBVIOUS
<1>1. IsTree(Missing)
  BY DEF IsTree, Missing, KindAt
<1> QED  BY <1>1
     DEF FilesInit, FInv, FilesTypes, CasHolds, Snapshot, Restorable, Partly, OnItsWay, Restoring, Phases,
         RestoredIsWritten

\* The steps of a build outside Load leave what is stored, and replace the tree
\* by another.
LEMMA BuildStepsKeep ==
  ASSUME FInv, Begin \/ RunCommand \/ WriteOutput \/ WriteFails \/ Overwrite
  PROVE  FInv'
<1> USE DEF bounds, memory, store, load
<1>1. IsTree(disk')
  <2>1. CASE Begin \/ WriteFails
    BY <2>1 DEF FInv, FilesTypes, Begin, WriteFails
  <2>2. CASE RunCommand \/ Overwrite
    BY <2>2, OutputsAssumption DEF RunCommand, Overwrite
  <2>3. CASE WriteOutput
    BY <2>3, ExecutableTree DEF FInv, FilesTypes, WriteOutput
  <2> QED  BY <2>1, <2>2, <2>3
<1>2. UNCHANGED <<recorded, type, bin, cas, todo>>
  BY DEF Begin, RunCommand, WriteOutput, WriteFails, Overwrite
<1>3. phase' \in {"start", "run", "write", "upload", "load"} /\ ~Restoring
  BY DEF Begin, RunCommand, WriteOutput, WriteFails, Overwrite, Restoring
<1>4. pending' \subseteq pending /\ (phase' \in {"start", "load"} => pending' = {})
  BY DEF Begin, RunCommand, WriteOutput, WriteFails, Overwrite, FInv, FilesTypes
<1>5. FilesTypes'
  BY <1>1, <1>2, <1>3, <1>4 DEF FInv, FilesTypes, Restoring, Phases, IsDownload
<1>6. Restorable' /\ CasHolds'
  BY <1>2, RestorableStays DEF FInv, CasHolds
<1>7. Snapshot'
  <2>1. CASE WriteOutput
    BY <2>1 DEF FInv, FilesTypes, Snapshot, WriteOutput
  <2>2. CASE Overwrite
    BY <2>2 DEF FInv, Snapshot, Overwrite
  <2>3. CASE Begin \/ RunCommand \/ WriteFails
    BY <2>3 DEF Begin, RunCommand, WriteFails, Snapshot
  <2> QED  BY <2>1, <2>2, <2>3
<1>8. phase' \in {"load", "loading", "failing", "restored"} => recorded' # NoResult
  BY <1>2 DEF Begin, RunCommand, WriteOutput, WriteFails, Overwrite
<1>9. Partly' /\ OnItsWay' /\ RestoredIsWritten'
  BY <1>3, NoLoad
<1> QED  BY <1>5, <1>6, <1>7, <1>8, <1>9 DEF FInv

\* The write plan stores blobs under their own digests, since it reads them from
\* the snapshot that Write has described.
LEMMA PlanStepsKeep ==
  ASSUME FInv, WriteTree \/ \E p \in FileUploads(staged) : Upload(p)
  PROVE  FInv'
<1> USE DEF bounds, memory, store, load
<1>1. phase = "upload" /\ UNCHANGED <<disk, staged, output, recorded, phase, todo, pending, type, bin>>
  BY DEF WriteTree, Upload
<1>2. output = TreeOf(staged) /\ KindAt(staged, <<>>) = type
  BY <1>1 DEF FInv, Snapshot
<1>3. CasHolds' /\ cas \subseteq cas'
  <2>1. CASE WriteTree
    <3>1. output.kind = "tree"
      BY <1>2, <2>1 DEF WriteTree, TreeOf
    <3> QED  BY <2>1, <3>1, CasWriteKeeps DEF WriteTree, FInv
  <2>2. ASSUME NEW p \in FileUploads(staged), Upload(p) PROVE CasHolds' /\ cas \subseteq cas'
    BY <2>2, CasWriteKeeps DEF Upload, Blob, FInv
  <2> QED  BY <2>1, <2>2
<1>4. Restorable'
  BY <1>1, <1>3, RestorableStays DEF FInv
<1>5. FilesTypes' /\ Snapshot'
  BY <1>1 DEF FInv, FilesTypes, Snapshot, Restoring, IsDownload
<1>6. Partly' /\ OnItsWay' /\ RestoredIsWritten'
  BY <1>1, NoLoad
<1> QED  BY <1>1, <1>3, <1>4, <1>5, <1>6 DEF FInv

\* A result is stored when the files of the snapshot, and its tree, are.
LEMMA CommitKeeps ==
  ASSUME FInv, Commit
  PROVE  FInv'
<1> USE DEF bounds, memory, store, load
<1>1. /\ phase = "upload" /\ phase' = "start" /\ pending' = {}
      /\ UNCHANGED <<disk, cas, todo, type, bin>>
  BY DEF Commit
<1>2. IsTree(staged) /\ output = TreeOf(staged) /\ KindAt(staged, <<>>) = type
  BY <1>1 DEF FInv, Snapshot
<1>3. CASE recorded' = recorded
  <2>1. Restorable'
    BY <1>1, <1>3, RestorableStays DEF FInv
  <2>2. FilesTypes' /\ Snapshot' /\ CasHolds'
    BY <1>1 DEF FInv, FilesTypes, Snapshot, Restoring, IsDownload, CasHolds, Phases
  <2> QED  BY <1>1, <2>1, <2>2, NoLoad DEF FInv
<1>4. CASE /\ Uploaded /\ (type = "dir" => InCas(output))
           /\ recorded' = [tree |-> output, was |-> staged]
  <2>1. /\ recorded'.was = staged /\ recorded'.tree = output
        /\ \A p \in FileUploads(staged) : InCas(Blob(staged[p].content))
    BY <1>4 DEF Uploaded
  <2>2. \A key : InCas(key)' <=> InCas(key)
    BY <1>1 DEF InCas
  <2>3. Restorable'
    BY <1>1, <1>2, <1>4, <2>1, <2>2 DEF Restorable, InCas
  <2>4. FilesTypes' /\ Snapshot' /\ CasHolds'
    BY <1>1 DEF FInv, FilesTypes, Snapshot, Restoring, IsDownload, CasHolds, Phases
  <2> QED  BY <1>1, <2>3, <2>4, NoLoad DEF FInv
<1> QED  BY <1>3, <1>4 DEF Commit

\* An output that is in place has what the result describes, but for the mode.
LEMMA InPlaceIsGoal ==
  ASSUME IsTree(disk), Restorable, recorded # NoResult, type \in {"dir", "file"}, bin \in BOOLEAN,
         InPlace
  PROVE  Executable(disk) = Goal /\ Mode \in BOOLEAN
<1> DEFINE was == recorded.was
<1>1. IsTree(was) /\ KindAt(was, <<>>) = type /\ TreeOf(disk) = TreeOf(was) /\ disk # Missing
  BY DEF Restorable, InPlace
<1> HIDE DEF was
<1>2. KindAt(disk, <<>>) \in {"file", "dir"}
  BY <1>1, SmallTrees DEF IsTree
<1>3. /\ KindAt(disk, <<>>) = "dir" => TreeOf(disk).kind = "tree" /\ TreeOf(disk).root = Message(disk)
      /\ KindAt(disk, <<>>) # "dir" => TreeOf(disk) = Blob(disk[<<>>].content)
  BY DEF TreeOf
<1>4. /\ KindAt(was, <<>>) = "dir" => TreeOf(was).kind = "tree" /\ TreeOf(was).root = Message(was)
      /\ KindAt(was, <<>>) # "dir" => TreeOf(was) = Blob(was[<<>>].content)
  BY DEF TreeOf
<1>5. KindAt(disk, <<>>) = KindAt(was, <<>>)
  BY <1>1, <1>2, <1>3, <1>4 DEF Blob
<1>6. CASE type = "dir"
  <2>1. disk = was /\ KindAt(was, <<>>) = "dir"
    BY <1>1, <1>3, <1>4, <1>5, <1>6, SameMessage
  <2> QED  BY <2>1 DEF Goal, was, Executable, WithMode, Mode
<1>7. CASE type = "file"
  <2>1. disk[<<>>].content = was[<<>>].content
    BY <1>1, <1>3, <1>4, <1>5, <1>7 DEF Blob
  <2>2. /\ disk = Single(FileNode(was[<<>>].content, disk[<<>>].exec)) /\ disk[<<>>].exec \in BOOLEAN
        /\ \A exec \in BOOLEAN :
             /\ WithMode(disk, exec) = Single(FileNode(was[<<>>].content, exec))
             /\ WithMode(was, exec) = Single(FileNode(was[<<>>].content, exec))
    BY <1>1, <1>5, <1>7, <2>1, ModeTree, SmallTrees
  <2>3. Mode = (bin \/ disk[<<>>].exec)
    BY <1>1, <1>5, <1>7 DEF Mode
  <2>4. CASE bin
    BY <2>2, <2>3, <2>4 DEF Goal, was, Executable
  <2>5. CASE ~bin
    BY <2>2, <2>3, <2>5 DEF Goal, was, Executable
  <2> QED  BY <2>4, <2>5
<1> QED  BY <1>6, <1>7

\* A Load ends with the output in place, or before it has changed anything, or
\* after the target has used the output.
LEMMA LoadEndsKeep ==
  ASSUME FInv, LoadSkips \/ LoadFails \/ Finish
  PROVE  FInv'
<1> USE DEF bounds, memory, store, load
<1>1. /\ UNCHANGED <<staged, output, recorded, cas, todo, pending, type, bin>>
      /\ phase \in {"load", "restored"} /\ phase' \in {"restored", "run", "start"}
  BY DEF LoadSkips, LoadFails, Finish
<1>2. IsTree(disk')
  BY ExecutableTree DEF LoadSkips, LoadFails, Finish, FInv, FilesTypes
<1>3. FilesTypes' /\ Snapshot' /\ CasHolds'
  BY <1>1, <1>2 DEF FInv, FilesTypes, Snapshot, Restoring, IsDownload, CasHolds, Phases
<1>4. Restorable'
  BY <1>1, RestorableStays DEF FInv
<1>5. phase' \in {"load", "loading", "failing", "restored"} => recorded' # NoResult
  BY <1>1 DEF FInv
<1>6. Partly' /\ OnItsWay'
  BY <1>1 DEF Partly, OnItsWay, Restoring
<1>7. RestoredIsWritten'
  <2>1. CASE LoadSkips
    <3>1. Executable(disk) = Goal /\ Mode \in BOOLEAN
      BY <2>1, InPlaceIsGoal DEF LoadSkips, FInv, FilesTypes
    <3>2. PICK exec \in BOOLEAN : exec = Mode
      BY <3>1
    <3>3. disk' = WithMode(recorded.was, exec) /\ (bin => exec)
      BY <2>1, <3>1, <3>2 DEF LoadSkips, Goal, Mode
    <3> QED  BY <1>1, <3>3 DEF RestoredIsWritten
  <2>2. CASE LoadFails \/ Finish
    BY <2>2 DEF LoadFails, Finish, RestoredIsWritten
  <2> QED  BY <2>1, <2>2
<1> QED  BY <1>3, <1>4, <1>5, <1>6, <1>7 DEF FInv

\* The goal of a Load, and what the CAS has for it
LEMMA GoalFacts ==
  ASSUME Restorable, CasHolds, recorded # NoResult, type \in {"dir", "file"}
  PROVE  /\ IsTree(recorded.was) /\ IsTree(Goal) /\ KindAt(Goal, <<>>) = type
         /\ type = "file" => /\ Goal = Single(FileNode(recorded.tree.content, Mode))
                             /\ recorded.tree.kind = "blob"
         /\ type = "dir" => /\ Goal = recorded.was /\ Tree = TreeOf(recorded.was)
                            /\ Tree.root = Message(recorded.was)
                            /\ Tree.children = Children(recorded.was)
         /\ \A p \in DOMAIN Goal : Goal[p].kind = "file" => Content(Blob(Goal[p].content)) = Goal[p].content
<1> DEFINE was == recorded.was
<1>1. /\ IsTree(was) /\ KindAt(was, <<>>) = type /\ recorded.tree = TreeOf(was)
      /\ \A p \in FileUploads(was) : InCas(Blob(was[p].content))
      /\ type = "dir" => InCas(recorded.tree)
  BY DEF Restorable
<1> HIDE DEF was
<1>2. /\ IsTree(Goal) /\ KindAt(Goal, <<>>) = type /\ DOMAIN Goal = DOMAIN was
      /\ type = "file" => Goal = Single(FileNode(was[<<>>].content, Mode))
      /\ type = "dir" => Goal = was
      /\ \A p \in DOMAIN was : Goal[p].kind = "file" =>
           was[p].kind = "file" /\ Goal[p].content = was[p].content
  <2>1. PICK exec \in BOOLEAN : exec = Mode
    BY DEF Mode
  <2> QED  BY <1>1, <2>1, ModeTree DEF Goal, was
<1>3. type = "file" => recorded.tree.kind = "blob" /\ recorded.tree.content = was[<<>>].content
  BY <1>1 DEF TreeOf, Blob
<1>4. ASSUME type = "dir"
      PROVE  Tree = TreeOf(was) /\ Tree.root = Message(was) /\ Tree.children = Children(was)
  <2>1. recorded.tree.kind = "tree" /\ TreeOf(was).root = Message(was) /\ TreeOf(was).children = Children(was)
    BY <1>1, <1>4 DEF TreeOf
  <2>2. Content(recorded.tree) = recorded.tree
    BY <1>1, <1>4, <2>1, ContentOf
  <2> QED  BY <1>1, <2>1, <2>2 DEF Tree
<1>5. ASSUME NEW p \in DOMAIN Goal, Goal[p].kind = "file"
      PROVE  Content(Blob(Goal[p].content)) = Goal[p].content
  <2>1. p \in FileUploads(was) /\ Goal[p].content = was[p].content
    BY <1>2, <1>5 DEF FileUploads
  <2>2. InCas(Blob(Goal[p].content)) /\ Blob(Goal[p].content).kind = "blob"
        /\ Blob(Goal[p].content).content = Goal[p].content
    BY <1>1, <2>1 DEF Blob
  <2> QED  BY <2>2, ContentOf
<1> QED  BY <1>1, <1>2, <1>3, <1>4, <1>5 DEF was

\* Load of a file begins: the file has been created.
LEMMA LoadFileKeeps ==
  ASSUME FInv, LoadFile
  PROVE  FInv'
<1> USE DEF bounds, memory, store, load
<1>1. /\ UNCHANGED <<staged, output, recorded, cas, todo, type, bin>>
      /\ phase = "load" /\ phase' = "loading" /\ type = "file" /\ recorded # NoResult /\ todo = {}
      /\ disk' = Single(Created(<<>>))
      /\ pending' = {<<<<>>, FileNode(recorded.tree.content, bin \/ Created(<<>>).exec), "copy">>}
  BY DEF LoadFile, FInv, FilesTypes, Restoring
<1>2. Goal' = Single(FileNode(recorded.tree.content, bin \/ Created(<<>>).exec))
  <2>1. Mode' = (bin \/ Created(<<>>).exec) /\ Mode' \in BOOLEAN
    BY <1>1 DEF Mode, KindAt, Single, Created, FileNode
  <2>2. recorded'.was = recorded.was /\ IsTree(recorded.was) /\ KindAt(recorded.was, <<>>) = "file"
        /\ recorded.tree.content = recorded.was[<<>>].content
    BY <1>1 DEF FInv, Restorable, TreeOf, Blob
  <2>3. PICK exec \in BOOLEAN : exec = Mode'
    BY <2>1
  <2>4. WithMode(recorded.was, exec) = Single(FileNode(recorded.tree.content, exec))
    BY <2>2, ModeTree
  <2> QED  BY <2>1, <2>2, <2>3, <2>4 DEF Goal
<1>3. IsTree(disk')
  <2> DEFINE node == Created(<<>>)
  <2>1. (KindAt(disk, <<>>) = "file" /\ disk[<<>>].exec) \in BOOLEAN
    OBVIOUS
  <2>2. node = FileNode(node.content, node.exec) /\ node.exec \in BOOLEAN /\ node.kind = "file"
    BY <2>1 DEF Created, FileNode
  <2>3. IsNode(node)
    BY <2>2 DEF IsNode
  <2>4. disk' = [p \in {<<>>} |-> node]
    BY <1>1 DEF Single
  <2> HIDE DEF node
  <2>5. \A k \in 0 .. Len(<<>>) - 1 : FALSE
    BY EmptySeq
  <2> QED  BY <2>2, <2>3, <2>4, <2>5, EmptySeq DEF IsTree, KindAt
<1>4. \A d \in pending' : IsDownload(d)
  <2> DEFINE file == FileNode(recorded.tree.content, bin \/ Created(<<>>).exec)
  <2>1. file = FileNode(file.content, file.exec) /\ file.exec \in BOOLEAN
    BY DEF FileNode
  <2> HIDE DEF file
  <2>2. IsDownload(<<<<>>, file, "copy">>)
    BY <2>1, EmptySeq DEF IsDownload
  <2> QED  BY <1>1, <2>2 DEF file
<1>5. FilesTypes' /\ Snapshot' /\ CasHolds'
  BY <1>1, <1>3, <1>4 DEF FInv, FilesTypes, Snapshot, Restoring, CasHolds, Phases
<1>6. Restorable'
  BY <1>1, RestorableStays DEF FInv
<1>7. Partly'
  BY <1>1, <1>2 DEF Partly, Restoring, Single, Created, FileNode
<1>8. OnItsWay'
  BY <1>1, <1>2 DEF OnItsWay, Coming, Single
<1> QED  BY <1>1, <1>5, <1>6, <1>7, <1>8 DEF FInv, RestoredIsWritten

\* Load of a directory begins: only the root is there.
LEMMA LoadDirectoryKeeps ==
  ASSUME FInv, LoadDirectory
  PROVE  FInv'
<1> USE DEF bounds, memory, store, load
<1>1. /\ UNCHANGED <<staged, output, recorded, cas, pending, type, bin>>
      /\ phase = "load" /\ phase' = "loading" /\ type = "dir" /\ recorded # NoResult /\ pending = {}
      /\ disk' = Single(Directory)
      /\ todo' = {<<<<>>, Tree.root>>}
  BY DEF LoadDirectory, FInv, FilesTypes
<1>2. /\ IsTree(recorded.was) /\ Goal = recorded.was /\ KindAt(Goal, <<>>) = "dir"
      /\ Tree.root = Message(recorded.was)
  BY <1>1, GoalFacts DEF FInv, FilesTypes
<1>3. Goal' = Goal
  BY <1>1, <1>2, DirectoryGoal
<1>4. <<>> \in DOMAIN Goal /\ Goal[<<>>] = Directory /\ DOMAIN Goal \subseteq Paths
  BY <1>2, SmallTrees, NodesOfTree
<1>5. Sub(recorded.was, <<>>) = recorded.was
  BY <1>2, SubOfRoot
<1>6. DOMAIN disk' = {<<>>} /\ disk'[<<>>] = Directory /\ disk' = [p \in DOMAIN disk' |-> disk'[p]]
  BY <1>1 DEF Single
<1>7. IsTree(disk')
  <2>1. \A k \in 0 .. Len(<<>>) - 1 : FALSE
    BY EmptySeq
  <2> QED  BY <1>6, <2>1, EmptySeq DEF IsTree, KindAt, IsNode, Directory
<1>8. FilesTypes' /\ Snapshot' /\ CasHolds'
  BY <1>1, <1>7 DEF FInv, FilesTypes, Snapshot, Restoring, CasHolds, Phases
<1>9. Restorable'
  BY <1>1, RestorableStays DEF FInv
<1>10. Partly'
  <2>1. \A p \in DOMAIN disk' : p \in DOMAIN Goal /\ disk'[p] = Goal[p]
    BY <1>4, <1>6
  <2>2. \A t \in todo' : /\ t = <<t[1], Message(Sub(recorded.was, t[1]))>>
                         /\ t[1] \in DOMAIN disk' /\ disk'[t[1]] = Directory
    BY <1>1, <1>2, <1>5, <1>6
  <2> QED  BY <1>1, <1>3, <2>1, <2>2 DEF Partly
<1>11. OnItsWay'
  <2>1. \A p \in Paths : p # <<>> => IsStrictPrefix(<<>>, p)
    <3> SUFFICES ASSUME NEW p \in Paths, p # <<>> PROVE IsStrictPrefix(<<>>, p)
      OBVIOUS
    <3>1. 1 \in Int /\ 0 \in Int /\ 0 < 1
      OBVIOUS
    <3>2. SubSeq(p, 1, 0) = <<>> /\ SubSeq(<<>>, 1, 0) = <<>>
      BY ONLY <3>1, SubSeqEmpty
    <3>3. Len(<<>>) = 0 /\ Len(p) \in Nat
      BY EmptySeq, LenProperties DEF Paths
    <3> QED  BY <3>2, <3>3 DEF IsStrictPrefix, IsPrefix
  <2>2. <<<<>>, Tree.root>> \in todo'
    BY <1>1
  <2>3. ASSUME NEW p \in DOMAIN Goal
        PROVE  ToMake(p)' \/ (p \in DOMAIN disk' /\ disk'[p] = Goal[p])
    <3>1. CASE p = <<>>
      BY <1>4, <1>6, <3>1
    <3>2. CASE p # <<>>
      BY <1>4, <2>1, <2>2, <3>2 DEF ToMake
    <3> QED  BY <3>1, <3>2
  <2> QED  BY <1>3, <2>3 DEF OnItsWay
<1> QED  BY <1>1, <1>8, <1>9, <1>10, <1>11 DEF FInv, RestoredIsWritten

\* Downloads: what becomes of the tree stays a tree, with the file in it.
LEMMA OpenFileKeeps ==
  ASSUME FInv, NEW d \in pending, OpenFile(d)
  PROVE  FInv'
<1> USE DEF bounds, memory, store, load
<1> DEFINE ok == KindAt(disk, Front(d[1])) = "dir" /\ KindAt(disk, d[1]) \in {"none", "file"}
           e == <<d[1], d[2], "copy">>
<1>1. /\ UNCHANGED <<staged, output, recorded, cas, todo, type, bin>>
      /\ d[3] = "open" /\ phase \notin {"start", "load", "restored"}
  BY DEF OpenFile, FInv, FilesTypes
<1>2. CASE ~ok
  <2>1. /\ pending' = pending \ {d} /\ disk' = disk
        /\ phase' = IF phase = "loading" THEN "failing" ELSE phase
    BY <1>2 DEF OpenFile
  <2>2. Goal' = Goal
    BY <1>1, <2>1, GoalStays DEF Mode, KindAt
  <2>3. FilesTypes' /\ Snapshot' /\ CasHolds'
    BY <1>1, <2>1 DEF FInv, FilesTypes, Snapshot, Restoring, IsDownload, CasHolds, Phases
  <2>4. Restorable'
    BY <1>1, RestorableStays DEF FInv
  <2>5. Partly'
    BY <1>1, <2>1, <2>2 DEF FInv, Partly, Restoring
  <2>6. OnItsWay' /\ RestoredIsWritten'
    BY <1>1, <2>1 DEF OnItsWay, RestoredIsWritten
  <2>7. phase' \in {"load", "loading", "failing", "restored"} => recorded' # NoResult
    BY <1>1, <2>1 DEF FInv
  <2> QED  BY <2>3, <2>4, <2>5, <2>6, <2>7 DEF FInv
<1>3. CASE ok
  <2>1. /\ disk' = With(disk, d[1], Created(d[1])) /\ phase' = phase
        /\ pending' = (pending \ {d}) \cup {e}
    BY <1>3 DEF OpenFile
  <2>2. Goal' = Goal
    <3>1. d[1] # <<>>
      BY <1>1 DEF FInv, FilesTypes, IsDownload
    <3>2. Mode' = Mode
      BY <1>1, <2>1, <3>1 DEF Mode, KindAt, With
    <3> QED  BY <1>1, <3>2, GoalStays
  <2>3. IsDownload(d) /\ IsDownload(e)
    BY <1>1 DEF FInv, FilesTypes, IsDownload
  <2>4. d[1] \in Paths /\ d[1] # <<>>
    BY <1>1, <2>3 DEF IsDownload, Paths
  <2>5. IsTree(disk')
    <3>1. (KindAt(disk, d[1]) = "file" /\ disk[d[1]].exec) \in BOOLEAN
      OBVIOUS
    <3>2. \A k \in 0 .. Len(d[1]) - 1 : KindAt(disk, SubSeq(d[1], 1, k)) = "dir"
      BY <1>3, <2>4, UnderDirectory DEF FInv, FilesTypes
    <3> QED  BY <1>3, <2>1, <2>4, <3>1, <3>2, PutFile DEF FInv, FilesTypes, Created
  <2>6. /\ DOMAIN disk' = DOMAIN disk \cup {d[1]} /\ disk'[d[1]].kind = "file"
        /\ \A p \in DOMAIN disk : p # d[1] => disk'[p] = disk[p]
    BY <2>1 DEF With, Created, FileNode
  <2>7. FilesTypes' /\ Snapshot' /\ CasHolds'
    BY <1>1, <2>1, <2>3, <2>5 DEF FInv, FilesTypes, Snapshot, Restoring, IsDownload, CasHolds, Phases
  <2>8. Restorable'
    BY <1>1, RestorableStays DEF FInv
  <2>9. ASSUME Restoring PROVE Partly' /\ OnItsWay'
    <3>1. d[1] \in DOMAIN Goal /\ d[2] = Goal[d[1]] /\ Goal[d[1]].kind = "file"
      BY <2>3, <2>9 DEF FInv, Partly, IsDownload, FileNode
    <3>2. \A t \in todo : t[1] \in DOMAIN disk /\ disk[t[1]] = Directory /\ t[1] # d[1]
      <4>1. \A t \in todo : t[1] \in DOMAIN disk /\ disk[t[1]] = Directory
        BY <2>9 DEF FInv, Partly
      <4> QED  BY <1>3, <4>1 DEF KindAt, Directory
    <3>3. \A p \in DOMAIN disk' : /\ p \in DOMAIN Goal /\ disk'[p].kind = Goal[p].kind
                                  /\ disk'[p].kind # "file" => disk'[p] = Goal[p]
      BY <2>6, <2>9, <3>1 DEF FInv, Partly
    <3>4. \A c \in pending' : c[1] \in DOMAIN Goal /\ c[2] = Goal[c[1]]
                              /\ (c[3] = "copy" => c[1] \in DOMAIN disk')
      BY <2>1, <2>6, <2>9, <3>1 DEF FInv, Partly
    <3>5. Partly'
      BY <1>1, <2>2, <2>6, <2>9, <3>2, <3>3, <3>4 DEF FInv, Partly
    <3>6. OnItsWay'
      <4> SUFFICES ASSUME phase' = "loading", NEW p \in DOMAIN Goal
                   PROVE  Coming(p)' \/ ToMake(p)' \/ (p \in DOMAIN disk' /\ disk'[p] = Goal[p])
        BY <2>2 DEF OnItsWay
      <4>1. CASE p = d[1]
        <5>1. e \in pending' /\ e[1] = p
          BY <2>1, <4>1
        <5> QED  BY <5>1 DEF Coming
      <4>2. CASE p # d[1]
        <5>1. Coming(p) \/ ToMake(p) \/ (p \in DOMAIN disk /\ disk[p] = Goal[p])
          BY <2>1 DEF FInv, OnItsWay
        <5>2. Coming(p) => Coming(p)'
          BY <2>1, <4>2 DEF Coming
        <5>3. ToMake(p) => ToMake(p)'
          BY <1>1 DEF ToMake
        <5>4. p \in DOMAIN disk => p \in DOMAIN disk' /\ disk'[p] = disk[p]
          BY <2>6, <4>2
        <5> QED  BY <5>1, <5>2, <5>3, <5>4
      <4> QED  BY <4>1, <4>2
    <3> QED  BY <3>5, <3>6
  <2>10. ASSUME ~Restoring PROVE Partly' /\ OnItsWay'
    BY <2>1, <2>10 DEF Partly, OnItsWay, Restoring
  <2>11. RestoredIsWritten' /\ (phase' \in {"load", "loading", "failing", "restored"} => recorded' # NoResult)
    BY <1>1, <2>1 DEF FInv, RestoredIsWritten
  <2> QED  BY <2>7, <2>8, <2>9, <2>10, <2>11 DEF FInv
<1> QED  BY <1>2, <1>3

\* A download ends: the file has what the CAS has under its digest.
LEMMA FillFileKeeps ==
  ASSUME FInv, NEW d \in pending, FillFile(d)
  PROVE  FInv'
<1> USE DEF bounds, memory, store, load
<1> DEFINE file == FileNode(Content(Blob(d[2].content)), d[2].exec)
<1>1. /\ UNCHANGED <<staged, output, recorded, cas, todo, type, bin, phase>>
      /\ d[3] = "copy" /\ phase \notin {"start", "load", "restored"}
      /\ pending' = pending \ {d}
  BY DEF FillFile, FInv, FilesTypes
<1>2. recorded # NoResult \/ ~Restoring
  BY DEF FInv, Restoring
<1>3. IsDownload(d) /\ d[1] \in Paths
  BY DEF FInv, FilesTypes, IsDownload, Paths
<1>4. CASE KindAt(disk, d[1]) # "file"
  <2>1. disk' = disk
    BY <1>4 DEF FillFile
  <2>2. ~Restoring
    <3>1. ASSUME Restoring PROVE d[1] \in DOMAIN disk /\ disk[d[1]].kind = "file"
      <4>1. d[1] \in DOMAIN disk /\ d[2] = Goal[d[1]] /\ disk[d[1]].kind = Goal[d[1]].kind
        BY <1>1, <3>1 DEF FInv, Partly
      <4> QED  BY <1>3, <4>1 DEF IsDownload, FileNode
    <3> QED  BY <1>4, <3>1 DEF KindAt
  <2>3. FilesTypes' /\ Snapshot' /\ CasHolds'
    BY <1>1, <2>1 DEF FInv, FilesTypes, Snapshot, Restoring, IsDownload, CasHolds, Phases
  <2>4. Restorable'
    BY <1>1, RestorableStays DEF FInv
  <2> QED  BY <1>1, <2>2, <2>3, <2>4 DEF FInv, Partly, OnItsWay, Restoring, RestoredIsWritten
<1>5. CASE KindAt(disk, d[1]) = "file"
  <2>1. disk' = With(disk, d[1], file)
    BY <1>5 DEF FillFile
  <2>2. IsTree(disk')
    <3>1. IsTree(disk) /\ d[2].exec \in BOOLEAN
      BY <1>3 DEF FInv, FilesTypes, IsDownload
    <3>2. \A k \in 0 .. Len(d[1]) - 1 : KindAt(disk, SubSeq(d[1], 1, k)) = "dir"
      BY <1>5, <3>1 DEF IsTree, KindAt
    <3> QED  BY <1>3, <1>5, <2>1, <3>1, <3>2, PutFile
  <2>3. /\ d[1] \in DOMAIN disk /\ disk[d[1]].kind = "file"
        /\ DOMAIN disk' = DOMAIN disk /\ disk'[d[1]] = file
        /\ \A p \in DOMAIN disk : p # d[1] => disk'[p] = disk[p]
    BY <1>5, <2>1 DEF With, KindAt
  <2>4. FilesTypes' /\ Snapshot' /\ CasHolds'
    BY <1>1, <2>2 DEF FInv, FilesTypes, Snapshot, Restoring, IsDownload, CasHolds, Phases
  <2>5. Restorable'
    BY <1>1, RestorableStays DEF FInv
  <2>6. ASSUME Restoring PROVE Partly' /\ OnItsWay'
    <3>1. d[1] \in DOMAIN Goal /\ d[2] = Goal[d[1]] /\ Goal[d[1]].kind = "file"
      BY <1>3, <2>6 DEF FInv, Partly, IsDownload, FileNode
    <3>2. file = Goal[d[1]]
      <4>1. Content(Blob(Goal[d[1]].content)) = Goal[d[1]].content
        BY <1>2, <2>6, <3>1, GoalFacts DEF FInv, FilesTypes, Restoring
      <4> QED  BY <1>3, <3>1, <4>1 DEF IsDownload
    <3>3. Goal' = Goal
      <4>1. CASE d[1] = <<>>   \* bin_output, or the mode that the file has
        <5>1. KindAt(Goal, <<>>) = "file" /\ type = "file"
          BY <1>2, <2>6, <3>1, <4>1, GoalFacts DEF FInv, FilesTypes, KindAt
        <5>2. Goal = Single(FileNode(recorded.tree.content, Mode))
          BY <1>2, <2>6, <5>1, GoalFacts DEF FInv, FilesTypes
        <5>3. d[2].exec = Mode
          BY <3>1, <4>1, <5>2 DEF Single, FileNode
        <5>4. KindAt(disk', <<>>) = "file" /\ disk'[<<>>].exec = Mode
          BY <2>3, <4>1, <5>3 DEF KindAt, FileNode
        <5>5. Mode' = Mode
          BY <1>1, <5>4 DEF Mode, KindAt
        <5> QED  BY <1>1, <5>5, GoalStays
      <4>2. CASE d[1] # <<>>
        <5>1. Mode' = Mode
          BY <1>1, <2>3, <4>2 DEF Mode, KindAt
        <5> QED  BY <1>1, <5>1, GoalStays
      <4> QED  BY <4>1, <4>2
    <3> HIDE DEF file
    <3>4. Partly'
      <4>1. \A p \in DOMAIN disk' : /\ p \in DOMAIN Goal /\ disk'[p].kind = Goal[p].kind
                                    /\ disk'[p].kind # "file" => disk'[p] = Goal[p]
        BY <2>3, <2>6, <3>2 DEF FInv, Partly
      <4>2. \A t \in todo : t[1] \in DOMAIN disk' /\ disk'[t[1]] = Directory
        <5>1. \A t \in todo : t[1] \in DOMAIN disk /\ disk[t[1]] = Directory /\ t[1] # d[1]
          BY <2>3, <2>6 DEF FInv, Partly, Directory
        <5> QED  BY <2>3, <5>1
      <4> QED  BY <1>1, <2>3, <2>6, <3>3, <4>1, <4>2 DEF FInv, Partly
    <3>5. OnItsWay'
      <4> SUFFICES ASSUME phase = "loading", NEW p \in DOMAIN Goal
                   PROVE  Coming(p)' \/ ToMake(p)' \/ (p \in DOMAIN disk' /\ disk'[p] = Goal[p])
        BY <1>1, <3>3 DEF OnItsWay
      <4>1. CASE p = d[1]
        BY <2>3, <3>2, <4>1
      <4>2. CASE p # d[1]
        <5>1. Coming(p) \/ ToMake(p) \/ (p \in DOMAIN disk /\ disk[p] = Goal[p])
          BY DEF FInv, OnItsWay
        <5>2. Coming(p) => Coming(p)'
          BY <1>1, <4>2 DEF Coming
        <5>3. ToMake(p) => ToMake(p)'
          BY <1>1 DEF ToMake
        <5>4. p \in DOMAIN disk => p \in DOMAIN disk' /\ disk'[p] = disk[p]
          BY <2>3, <4>2
        <5> QED  BY <5>1, <5>2, <5>3, <5>4
      <4> QED  BY <4>1, <4>2
    <3> QED  BY <3>4, <3>5
  <2>7. ASSUME ~Restoring PROVE Partly' /\ OnItsWay'
    BY <1>1, <2>7 DEF Partly, OnItsWay, Restoring
  <2> QED  BY <1>1, <2>4, <2>5, <2>6, <2>7 DEF FInv, RestoredIsWritten
<1> QED  BY <1>4, <1>5

\* A Load that has met an error, and a process that has died, restore nothing;
\* what was begun may stay where it is.
LEMMA FailuresKeep ==
  ASSUME FInv, FillFails \/ Kill \/ \E d \in pending : DownloadFails(d)
  PROVE  FInv'
<1> USE DEF bounds, memory, store, load
<1>1. /\ UNCHANGED <<disk, recorded, cas, type, bin>>
      /\ phase' \in {"run", "start", "failing"} /\ pending' \subseteq pending
      /\ phase' = "start" => pending' = {}
      /\ phase' = "failing" => Restoring /\ todo' = todo
      /\ phase' # "failing" => todo' = {}
  BY DEF FillFails, Kill, DownloadFails, Cleanup, Restoring
<1>2. Goal' = Goal
  BY <1>1, GoalStays DEF Mode, KindAt
<1>3. FilesTypes' /\ Snapshot' /\ CasHolds'
  BY <1>1 DEF FInv, FilesTypes, Snapshot, Restoring, IsDownload, CasHolds, Phases
<1>4. Restorable'
  BY <1>1, RestorableStays DEF FInv
<1>5. Partly'
  <2>1. CASE phase' = "failing"
    BY <1>1, <1>2, <2>1 DEF FInv, Partly
  <2>2. CASE phase' # "failing"
    BY <1>1, <2>2 DEF Partly, Restoring
  <2> QED  BY <2>1, <2>2
<1> QED  BY <1>1, <1>3, <1>4, <1>5 DEF FInv, OnItsWay, Restoring, RestoredIsWritten

\* When nothing is to be filled or downloaded and there was no error, the goal has
\* been reached.
LEMMA LoadReturnsKeeps ==
  ASSUME FInv, LoadReturns
  PROVE  FInv'
<1> USE DEF bounds, memory, store, load
<1>1. /\ UNCHANGED <<disk, staged, output, recorded, cas, todo, pending, type, bin>>
      /\ phase \in {"loading", "failing"} /\ todo = {} /\ pending = {}
      /\ phase' = IF phase = "loading" THEN "restored" ELSE "run"
  BY DEF LoadReturns
<1>2. Goal' = Goal
  BY <1>1, GoalStays DEF Mode, KindAt
<1>3. FilesTypes' /\ Snapshot' /\ CasHolds'
  BY <1>1 DEF FInv, FilesTypes, Snapshot, Restoring, IsDownload, CasHolds, Phases
<1>4. Restorable'
  BY <1>1, RestorableStays DEF FInv
<1>5. ASSUME phase = "loading" PROVE disk = Goal
  <2>1. \A p \in DOMAIN Goal : p \in DOMAIN disk /\ disk[p] = Goal[p]
    BY <1>1, <1>5 DEF FInv, OnItsWay, Coming, ToMake
  <2>2. \A p \in DOMAIN disk : p \in DOMAIN Goal
    BY <1>5 DEF FInv, Partly, Restoring
  <2>3. IsTree(disk) /\ IsTree(Goal)
    BY <1>1, <1>5, GoalFacts DEF FInv, FilesTypes
  <2>4. DOMAIN disk = DOMAIN Goal
    BY <2>1, <2>2
  <2>5. disk = [p \in DOMAIN disk |-> disk[p]] /\ Goal = [p \in DOMAIN Goal |-> Goal[p]]
    BY <2>3 DEF IsTree
  <2> HIDE DEF Goal
  <2> QED  BY <2>1, <2>4, <2>5
<1>6. RestoredIsWritten'
  <2> SUFFICES ASSUME phase = "loading" PROVE RestoredIsWritten'
    BY <1>1 DEF RestoredIsWritten
  <2>1. PICK exec \in BOOLEAN : exec = Mode
    BY DEF Mode
  <2>2. disk' = WithMode(recorded.was, exec) /\ (bin => exec)
    BY <1>1, <1>5, <2>1 DEF Goal, Mode
  <2> QED  BY <1>1, <2>2 DEF RestoredIsWritten
<1>7. phase' \in {"load", "loading", "failing", "restored"} => recorded' # NoResult
  BY <1>1 DEF FInv
<1> QED  BY <1>1, <1>3, <1>4, <1>6, <1>7 DEF FInv, Partly, OnItsWay, Restoring

\* The message that a Load finds under the digest of a directory is the message
\* of that directory.
LEMMA ChildOfDigest ==
  ASSUME NEW was, IsTree(was), Tree.children = Children(was),
         NEW q \in DOMAIN was, q # <<>>, was[q] = Directory
  PROVE  Child(Sub(was, q)) = Message(Sub(was, q))
<1> DEFINE chosen == CHOOSE child \in Tree.children : child[1] = Sub(was, q)
<1>1. <<Sub(was, q), Message(Sub(was, q))>> \in Tree.children
  BY DEF Children
<1>2. chosen \in Tree.children /\ chosen[1] = Sub(was, q)
  BY <1>1
<1>3. PICK p \in DOMAIN was : chosen = <<Sub(was, p), Message(Sub(was, p))>>
  BY <1>2 DEF Children
<1> HIDE DEF chosen
<1>4. chosen[2] = Message(Sub(was, p)) /\ Sub(was, p) = Sub(was, q)
  BY <1>2, <1>3
<1> QED  BY <1>4 DEF Child, chosen

\* What lies below a directory lies in it or below one of its directories.
LEMMA OneLevelDown ==
  ASSUME NEW tree, IsTree(tree), NEW path \in Paths, NEW p \in DOMAIN tree, IsStrictPrefix(path, p)
  PROVE  \E n \in EntryNames :
           /\ Append(path, n) \in DOMAIN tree
           /\ p = Append(path, n) \/ (tree[Append(path, n)] = Directory /\ IsStrictPrefix(Append(path, n), p))
<1> DEFINE len == Len(path)
           n == p[len + 1]
           q == SubSeq(p, 1, len + 1)
<1>1. p \in Paths /\ len \in Nat /\ Len(p) \in Nat
  BY NodesOfTree, LenProperties DEF Paths
<1>2. len <= Len(p) /\ SubSeq(p, 1, len) = path /\ p # path
  BY SubSeqFull DEF IsStrictPrefix, IsPrefix, Paths
<1>3. len < Len(p)
  <2>1. len = Len(p) => SubSeq(p, 1, len) = p
    BY <1>1, SubSeqFull DEF Paths
  <2> DEFINE k == Len(p)
  <2>2. len # k
    BY <1>2, <2>1
  <2>3. len <= k /\ k \in Nat
    BY <1>1, <1>2
  <2> HIDE DEF len, k
  <2>4. len < k
    BY <1>1, <2>2, <2>3
  <2> QED  BY <2>4 DEF k
<1>4. n \in EntryNames /\ Append(path, n) = q
  <2>1. len \in 0 .. Len(p)
    BY <1>1, <1>2
  <2> QED  BY <1>1, <1>2, <1>3, <2>1, PartsOfPath
<1>5. len + 1 \in 0 .. Len(p)
  BY <1>1, <1>3
<1>6. q \in Paths /\ IsPrefix(q, p)
  BY <1>1, <1>5, PartsOfPath
<1>7. CASE p = q
  BY <1>4, <1>7
<1>8. CASE p # q
  <2>1. ~(Len(p) <= len + 1)
    <3>1. ASSUME Len(p) <= len + 1 PROVE FALSE
      <4> DEFINE k == Len(p)
      <4>1. k \in Nat /\ k <= len + 1 /\ len < k
        BY <1>1, <1>3, <3>1
      <4> HIDE DEF len, k
      <4>2. k = len + 1
        BY <1>1, <4>1
      <4> QED  BY <1>1, <1>8, <4>2, SubSeqFull DEF k, Paths
    <3> QED  BY <3>1
  <2>2. len + 1 \in 0 .. Len(p) - 1
    BY <1>1, <2>1
  <2>3. q \in DOMAIN tree /\ tree[q] = Directory
    BY <2>2, NodesOfTree
  <2> QED  BY <1>4, <1>6, <1>8, <2>3 DEF IsStrictPrefix
<1> QED  BY <1>7, <1>8

\* A call of loadDirectoryRecursive makes what the message has, and the rest of the
\* directory is on its way.
LEMMA FillDirectoryKeeps ==
  ASSUME FInv, NEW t \in todo, FillDirectory(t[1], t[2])
  PROVE  FInv'
<1> USE DEF bounds, memory, store, load
<1> DEFINE path == t[1]
           message == t[2]
           dirs == Named(message, "dir")
           links == Named(message, "link")
           files == Named(message, "file")
           made == {Append(path, n) : n \in dirs \cup links}
           node(n) == IF message[n].kind = "dir" THEN Directory ELSE message[n]
<1>1. /\ UNCHANGED <<staged, output, recorded, cas, type, bin, phase>> /\ Restoring
      /\ disk' = [p \in DOMAIN disk \cup made |-> IF p \in DOMAIN disk THEN disk[p] ELSE node(Last(p))]
      /\ todo' = (todo \ {<<path, message>>})
                 \cup {<<Append(path, n), Child(message[n].digest)>> : n \in dirs}
      /\ pending' = pending \cup {<<Append(path, n), message[n], "open">> : n \in files}
  BY DEF FillDirectory, Restoring
<1>2. /\ type = "dir" /\ recorded # NoResult /\ t = <<path, message>>
      /\ path \in DOMAIN disk /\ disk[path] = Directory
      /\ message = Message(Sub(recorded.was, path))
  BY <1>1 DEF FInv, FilesTypes, Partly, Restoring
<1>3. IsTree(disk) /\ IsTree(recorded.was) /\ Goal = recorded.was /\ Tree.children = Children(recorded.was)
  BY <1>1, <1>2, GoalFacts DEF FInv, FilesTypes
<1>4. Goal' = Goal
  <2>1. KindAt(recorded.was, <<>>) = "dir"
    BY <1>2 DEF FInv, Restorable
  <2> QED  BY <1>1, <2>1, DirectoryGoal
<1> HIDE DEF Goal
<1>5. path \in Paths /\ DOMAIN Goal \subseteq Paths /\ IsTree(Goal)
  BY <1>2, <1>3, NodesOfTree
<1>6. /\ \A n : n \in DOMAIN message <=> n \in EntryNames /\ Append(path, n) \in DOMAIN Goal
      /\ \A n \in DOMAIN message :
           message[n] = IF Goal[Append(path, n)] = Directory THEN DirectoryNode(Sub(Goal, Append(path, n)))
                        ELSE Goal[Append(path, n)]
  BY <1>2, <1>3, <1>5, MessageOfSub
<1>7. ASSUME NEW n \in DOMAIN message
      PROVE  LET q == Append(path, n) IN
             /\ n \in EntryNames /\ q \in DOMAIN Goal /\ q \in Paths /\ q # <<>> /\ Last(q) = n
             /\ message[n].kind = Goal[q].kind
             /\ Goal[q].kind \in {"file", "link", "dir"}
             /\ node(n) = Goal[q]
             /\ n \in dirs => Goal[q] = Directory /\ Child(message[n].digest) = Message(Sub(Goal, q))
             /\ n \notin dirs => message[n] = Goal[q]
  <2> DEFINE q == Append(path, n)
  <2>1. n \in EntryNames /\ q \in DOMAIN Goal
    BY <1>6
  <2>2. q \in Paths /\ q # <<>> /\ Last(q) = n
    BY <1>5, <2>1, AppendProperties DEF Paths, Last
  <2>3. /\ Goal[q].kind \in {"file", "link", "dir"} /\ IsNode(Goal[q])
        /\ Goal[q].kind = "dir" <=> Goal[q] = Directory
    BY <1>5, <2>1, NodesOfTree
  <2>4. message[n] = IF Goal[q] = Directory THEN DirectoryNode(Sub(Goal, q)) ELSE Goal[q]
    BY <1>6
  <2> HIDE DEF q, message
  <2>5. CASE Goal[q] = Directory
    <3>1. message[n].kind = "dir" /\ message[n].digest = Sub(Goal, q) /\ Goal[q].kind = "dir"
      BY <2>3, <2>4, <2>5 DEF DirectoryNode
    <3>2. Child(Sub(Goal, q)) = Message(Sub(Goal, q))
      BY <1>3, <2>1, <2>2, <2>5, ChildOfDigest
    <3>3. n \in dirs
      BY <3>1 DEF Named
    <3> QED  BY <2>1, <2>2, <2>3, <2>5, <3>1, <3>2, <3>3 DEF q
  <2>6. CASE Goal[q] # Directory
    <3>1. message[n] = Goal[q] /\ message[n].kind # "dir" /\ n \notin dirs
      BY <2>3, <2>4, <2>6 DEF Named
    <3> QED  BY <2>1, <2>2, <2>3, <3>1 DEF q
  <2> QED  BY <2>5, <2>6
<1> DEFINE At(n) == Append(path, n)
<1>8. /\ DOMAIN disk' = DOMAIN disk \cup made /\ disk' = [p \in DOMAIN disk' |-> disk'[p]]
      /\ \A p \in DOMAIN disk : disk'[p] = disk[p]
      /\ \A n \in dirs \cup links : At(n) \notin DOMAIN disk => disk'[At(n)] = Goal[At(n)]
  <2>1. /\ DOMAIN disk' = DOMAIN disk \cup made /\ disk' = [p \in DOMAIN disk' |-> disk'[p]]
        /\ \A p \in DOMAIN disk : disk'[p] = disk[p]
        /\ \A p \in made : p \notin DOMAIN disk => disk'[p] = node(Last(p))
    BY <1>1
  <2>2. \A n \in dirs \cup links : At(n) \in made /\ node(Last(At(n))) = Goal[At(n)]
    BY <1>7 DEF Named
  <2> QED  BY <2>1, <2>2
<1>9. \A p \in DOMAIN disk : /\ p \in DOMAIN Goal /\ disk[p].kind = Goal[p].kind
                             /\ disk[p].kind # "file" => disk[p] = Goal[p]
  BY <1>1 DEF FInv, Partly
<1>10. \A p \in DOMAIN disk' : /\ p \in DOMAIN Goal /\ disk'[p].kind = Goal[p].kind
                               /\ disk'[p].kind # "file" => disk'[p] = Goal[p]
  <2>1. \A n \in dirs \cup links : At(n) \in DOMAIN Goal
    BY <1>7 DEF Named
  <2> QED  BY <1>8, <1>9, <2>1
<1>11. IsTree(disk')
  <2>1. \A n \in dirs \cup links : n \in EntryNames /\ At(n) \in DOMAIN Goal
    BY <1>7 DEF Named
  <2>2. \A n \in dirs \cup links : IsNode(Goal[At(n)])
    BY <1>5, <2>1, NodesOfTree
  <2>3. ASSUME NEW p \in DOMAIN disk' \ DOMAIN disk
        PROVE  IsNode(disk'[p]) /\ \E n \in EntryNames : p = Append(path, n)
    <3>1. PICK n \in dirs \cup links : p = At(n)
      BY <1>8
    <3> QED  BY <1>8, <2>1, <2>2, <3>1
  <2> QED  BY <1>2, <1>3, <1>8, <2>3, PutEntries
<1>12. \A n \in dirs : At(n) \in DOMAIN disk' /\ disk'[At(n)] = Directory
  <2> SUFFICES ASSUME NEW n \in dirs PROVE At(n) \in DOMAIN disk' /\ disk'[At(n)] = Directory
    OBVIOUS
  <2>1. n \in DOMAIN message /\ Goal[At(n)] = Directory
    BY <1>7 DEF Named
  <2>2. At(n) \in DOMAIN disk'
    BY <1>8
  <2>3. disk'[At(n)].kind # "file"
    BY <1>10, <2>1, <2>2 DEF Directory
  <2> QED  BY <1>10, <2>1, <2>2, <2>3
<1>13. \A c \in pending' : /\ IsDownload(c) /\ c[1] \in DOMAIN Goal /\ c[2] = Goal[c[1]]
                           /\ c[3] = "copy" => c[1] \in DOMAIN disk'
  <2>1. \A c \in pending : /\ IsDownload(c) /\ c[1] \in DOMAIN Goal /\ c[2] = Goal[c[1]]
                           /\ c[3] = "copy" => c[1] \in DOMAIN disk'
    BY <1>1, <1>8 DEF FInv, FilesTypes, Partly
  <2>2. ASSUME NEW n \in files
        PROVE  IsDownload(<<At(n), message[n], "open">>) /\ At(n) \in DOMAIN Goal /\ message[n] = Goal[At(n)]
    <3>1. n \in DOMAIN message /\ message[n].kind = "file" /\ n \notin dirs
      BY DEF Named
    <3>2. /\ At(n) \in DOMAIN Goal /\ At(n) \in Paths /\ At(n) # <<>> /\ message[n] = Goal[At(n)]
          /\ Goal[At(n)].kind = "file"
      BY <1>7, <3>1
    <3>3. IsNode(Goal[At(n)])
      BY <1>5, <3>2, NodesOfTree
    <3>4. Goal[At(n)] = FileNode(Goal[At(n)].content, Goal[At(n)].exec) /\ Goal[At(n)].exec \in BOOLEAN
      BY <3>2, <3>3 DEF IsNode, Directory
    <3> QED  BY <3>2, <3>4 DEF IsDownload, Paths
  <2>3. ASSUME NEW c \in pending', c \notin pending
        PROVE  \E n \in files : c = <<At(n), message[n], "open">>
    BY <1>1, <2>3
  <2>4. ASSUME NEW n \in files, NEW c, c = <<At(n), message[n], "open">>
        PROVE  /\ IsDownload(c) /\ c[1] \in DOMAIN Goal /\ c[2] = Goal[c[1]]
               /\ c[3] # "copy"
    <3>1. c[1] = At(n) /\ c[2] = message[n] /\ c[3] = "open"
      BY <2>4
    <3> QED  BY <2>2, <2>4, <3>1
  <2> QED  BY <2>1, <2>3, <2>4
<1>14. \A u \in todo' : /\ u = <<u[1], Message(Sub(Goal, u[1]))>>
                        /\ u[1] \in DOMAIN disk' /\ disk'[u[1]] = Directory
  <2>1. \A u \in todo : /\ u = <<u[1], Message(Sub(Goal, u[1]))>>
                        /\ u[1] \in DOMAIN disk' /\ disk'[u[1]] = Directory
    BY <1>1, <1>3, <1>8 DEF FInv, Partly
  <2>2. \A n \in dirs : Child(message[n].digest) = Message(Sub(Goal, At(n)))
    BY <1>7 DEF Named
  <2>3. ASSUME NEW u \in todo', u \notin todo
        PROVE  \E n \in dirs : u = <<At(n), Child(message[n].digest)>>
    BY <1>1, <2>3
  <2>4. ASSUME NEW n \in dirs, NEW u, u = <<At(n), Child(message[n].digest)>>
        PROVE  /\ u = <<u[1], Message(Sub(Goal, u[1]))>>
               /\ u[1] \in DOMAIN disk' /\ disk'[u[1]] = Directory
    <3>1. u[1] = At(n) /\ u[2] = Child(message[n].digest)
      BY <2>4
    <3> QED  BY <1>12, <2>2, <2>4, <3>1
  <2> QED  BY <2>1, <2>3, <2>4
<1>15. Partly'
  BY <1>1, <1>2, <1>3, <1>4, <1>10, <1>13, <1>14 DEF Partly
<1>16. OnItsWay'
  <2> SUFFICES ASSUME phase = "loading", NEW p \in DOMAIN Goal
               PROVE  Coming(p)' \/ ToMake(p)' \/ (p \in DOMAIN disk' /\ disk'[p] = Goal[p])
    BY <1>1, <1>4 DEF OnItsWay
  <2>1. Coming(p) \/ ToMake(p) \/ (p \in DOMAIN disk /\ disk[p] = Goal[p])
    BY DEF FInv, OnItsWay
  <2>2. CASE Coming(p)
    BY <1>1, <2>2 DEF Coming
  <2>3. CASE p \in DOMAIN disk /\ disk[p] = Goal[p]
    BY <1>8, <2>3
  <2>4. ASSUME NEW u \in todo, u # t, IsStrictPrefix(u[1], p) PROVE ToMake(p)'
    <3>1. u \in todo'
      BY <1>1, <1>2, <2>4
    <3> QED  BY <2>4, <3>1 DEF ToMake
  <2>5. CASE IsStrictPrefix(path, p)
    <3>1. PICK n \in EntryNames :
            /\ At(n) \in DOMAIN Goal
            /\ p = At(n) \/ (Goal[At(n)] = Directory /\ IsStrictPrefix(At(n), p))
      BY <1>5, <2>5, OneLevelDown
    <3>2. n \in DOMAIN message /\ message[n].kind = Goal[At(n)].kind
          /\ Goal[At(n)].kind \in {"file", "link", "dir"}
      BY <1>6, <1>7, <3>1
    <3>3. CASE IsStrictPrefix(At(n), p) /\ Goal[At(n)] = Directory
      <4>1. n \in dirs
        BY <3>2, <3>3 DEF Named, Directory
      <4>2. <<At(n), Child(message[n].digest)>> \in todo'
        BY <1>1, <4>1
      <4> QED  BY <3>3, <4>2 DEF ToMake
    <3>4. CASE p = At(n) /\ Goal[p].kind = "file"
      <4>1. n \in files
        BY <3>2, <3>4 DEF Named
      <4>2. <<At(n), message[n], "open">> \in pending'
        BY <1>1, <4>1
      <4> QED  BY <3>4, <4>2 DEF Coming
    <3>5. CASE p = At(n) /\ Goal[p].kind \in {"link", "dir"}
      <4>1. n \in dirs \cup links
        BY <3>2, <3>5 DEF Named
      <4>2. p \in DOMAIN disk'
        BY <1>8, <3>5, <4>1
      <4> QED  BY <1>10, <3>5, <4>2
    <3> QED  BY <3>1, <3>2, <3>3, <3>4, <3>5
  <2> QED  BY <2>1, <2>2, <2>3, <2>4, <2>5 DEF ToMake
<1>17. FilesTypes' /\ Snapshot' /\ CasHolds'
  BY <1>1, <1>11, <1>13 DEF FInv, FilesTypes, Snapshot, Restoring, CasHolds
<1>18. Restorable'
  BY <1>1, RestorableStays DEF FInv
<1> QED  BY <1>1, <1>2, <1>15, <1>16, <1>17, <1>18 DEF FInv, Restoring, RestoredIsWritten

\* A step of any kind keeps the invariant.
LEMMA FNext == FInv /\ [FilesNext]_filesVars => FInv'
<1> SUFFICES ASSUME FInv, [FilesNext]_filesVars PROVE FInv'
  OBVIOUS
<1>1. CASE UNCHANGED filesVars
  <2>1. Goal' = Goal
    BY <1>1, GoalStays DEF filesVars, Mode, KindAt
  <2>2. FilesTypes' /\ CasHolds' /\ Snapshot'
    BY <1>1 DEF filesVars, FInv, FilesTypes, CasHolds, Snapshot, Restoring, IsDownload
  <2>3. Restorable'
    BY <1>1, RestorableStays DEF filesVars, FInv
  <2>4. Partly' /\ OnItsWay'
    BY <1>1, <2>1 DEF filesVars, FInv, Partly, OnItsWay, Restoring, Coming, ToMake
  <2> QED  BY <1>1, <2>1, <2>2, <2>3, <2>4 DEF filesVars, FInv, RestoredIsWritten
<1>2. CASE Begin \/ RunCommand \/ WriteOutput \/ WriteFails \/ Overwrite
  BY <1>2, BuildStepsKeep
<1>3. CASE WriteTree \/ \E p \in FileUploads(staged) : Upload(p)
  BY <1>3, PlanStepsKeep
<1>4. CASE Commit
  BY <1>4, CommitKeeps
<1>5. CASE LoadSkips \/ LoadFails \/ Finish
  BY <1>5, LoadEndsKeep
<1>6. CASE LoadFile \/ LoadDirectory
  BY <1>6, LoadFileKeeps, LoadDirectoryKeeps
<1>7. CASE \E t \in todo : FillDirectory(t[1], t[2])
  BY <1>7, FillDirectoryKeeps
<1>8. CASE \E d \in pending : OpenFile(d) \/ FillFile(d)
  BY <1>8, OpenFileKeeps, FillFileKeeps
<1>9. CASE FillFails \/ Kill \/ \E d \in pending : DownloadFails(d)
  BY <1>9, FailuresKeep
<1>10. CASE LoadReturns
  BY <1>10, LoadReturnsKeeps
<1> QED  BY <1>1, <1>2, <1>3, <1>4, <1>5, <1>6, <1>7, <1>8, <1>9, <1>10 DEF FilesNext

\* The inductive invariant of file and directory outputs.
THEOREM FilesInvariant == FilesSpec => []FInv
<1>1. FilesInit => FInv
  BY FInit
<1>2. FInv /\ [FilesNext]_filesVars => FInv'
  BY FNext
<1> QED  BY <1>1, <1>2, PTL DEF FilesSpec

\* What Load restores is what Write saw in the build that stored the result, but
\* for the mode of a file that is no bin_output, for any trees that commands leave
\* and whatever fails, is killed or is overwritten in between.
THEOREM LoadRestoresWhatWasWritten == FilesSpec => []RestoredIsWritten
<1>1. FInv => RestoredIsWritten
  BY DEF FInv
<1> QED  BY <1>1, FilesInvariant, PTL

=============================================================================
