------------------------------ MODULE OciProxy ------------------------------
(***************************************************************************)
(* The loopback registry through which the docker daemon stores the layers *)
(* of an image in the CAS (internal/ociproxy/registry.go).                 *)
(*                                                                         *)
(* A push of the daemon asks for the layer, opens an upload session for it *)
(* (POST), sends it (PATCH), closes the session with the digest (PUT) and  *)
(* then sends the manifest.  Each request is a goroutine of the server.    *)
(* The daemon may give a PATCH up and send it again while the first one is *)
(* still being served, or start over with a new session, and the server is *)
(* closed under whatever is left.                                          *)
(***************************************************************************)
EXTENDS Naturals, Sequences

CONSTANTS
  Pushes,     \* pushes the daemon is asked for
  Sessions,   \* upload sessions that may be opened
  Layer,      \* the bytes of the layer, as a sequence of chunks
  None

Requests == {"post", "patch", "again", "put"}
Chunks == {Layer[i] : i \in DOMAIN Layer}

ASSUME ProxyAssumption == Layer \in Seq(Chunks) /\ Layer # <<>> /\ None \notin Pushes \cup Requests

Places == {"off", "open", "list", "lookup", "lock", "copy", "drop", "finish", "cancel", "discard",
           "sent", "over"}

VARIABLES
  server,    \* how far Close has come
  late,      \* sessions whose POST was not through when Close ended its sweep
  listed,    \* the keys of uploads
  session,   \* the pendingUpload of each session
  at,        \* at[s][r]: where the handler of request r of session s is
  body,      \* body[s][r]: what request r has not sent yet
  layer,     \* the content stored under the digest of the layer, or None
  manifest,  \* the manifest is stored, and manifestsByName has it
  push       \* push[p]: what the daemon is doing for push p

proxyVars == <<server, late, listed, session, at, body, layer, manifest, push>>

NoUpload == [push |-> None, writer |-> "none", finished |-> FALSE, content |-> <<>>,
             digest |-> <<>>, mu |-> None]

ProxyInit ==
  /\ server = "up" /\ late = {}
  /\ listed = {}
  /\ session = [s \in Sessions |-> NoUpload]
  /\ at = [s \in Sessions |-> [r \in Requests |-> "off"]]
  /\ body = [s \in Sessions |-> [r \in Requests |-> <<>>]]
  /\ layer \in {None, Layer}
  /\ \E stored \in BOOLEAN :   \* by an earlier build
       /\ stored => layer = Layer
       /\ manifest = [stored |-> stored, named |-> FALSE]
  /\ push = [p \in Pushes |-> "idle"]

Goto(s, r, place) == at' = [at EXCEPT ![s][r] = place]
\* The handler returns, and the rest of the body is not read.
Refuse(s, r) == Goto(s, r, "over") /\ body' = [body EXCEPT ![s][r] = <<>>]
\* where a handler has the staged writer of its session
Owns(s) == \E r \in Requests : at[s][r] \in {"list", "drop", "finish", "discard"}
\* the session after Commit or cancel
Discarded(s) == [session EXCEPT ![s] = [NoUpload EXCEPT !.push = session[s].push, !.writer = "closed",
                                                        !.finished = TRUE]]
\* Nobody but Close keeps uploadsMu over a step.
UploadsFree == server # "sweeping"
\* Shutdown has closed the listener.
Accepting == server = "up"

-----------------------------------------------------------------------------
(* The daemon (external)                                                   *)

\* headBlob and getOrHeadManifest ask the CAS.
HeadBlob(p) ==
  /\ push[p] = "checking" /\ Accepting
  /\ push' = [push EXCEPT ![p] = IF layer = None THEN "missing" ELSE "manifest"]
  /\ UNCHANGED <<server, late, listed, session, at, body, layer, manifest>>

Post(p, s) ==
  /\ push[p] = "missing" /\ Accepting
  /\ session[s] = NoUpload /\ at[s]["post"] = "off"
  /\ session' = [session EXCEPT ![s].push = p]
  /\ Goto(s, "post", "open")
  /\ push' = [push EXCEPT ![p] = "uploading"]
  /\ UNCHANGED <<server, late, listed, body, layer, manifest>>

\* PATCH carries the layer or the start of it, PUT the rest; the daemon repeats
\* a PATCH that it has given up.
Send(p, s, r) ==
  /\ push[p] = "uploading" /\ session[s].push = p /\ Accepting
  /\ at[s]["post"] = "sent" /\ at[s][r] = "off" /\ at[s]["put"] = "off"
  /\ \/ r = "patch" /\ \E n \in 1..Len(Layer) : body' = [body EXCEPT ![s][r] = SubSeq(Layer, 1, n)]
     \/ r = "again" /\ at[s]["patch"] # "off" /\ body' = [body EXCEPT ![s][r] = Layer]
     \/ /\ r = "put" /\ "over" \in {at[s]["patch"], at[s]["again"]}
        /\ body' = [body EXCEPT ![s][r] = SubSeq(Layer, 1 + Len(session[s].content), Len(Layer))]
  /\ Goto(s, r, "lookup")
  /\ UNCHANGED <<server, late, listed, session, layer, manifest, push>>

\* An answer ends the upload; after an error, or without an answer, the daemon
\* starts over or fails the push.
Answered(p, s) ==
  /\ push[p] = "uploading" /\ session[s].push = p
  /\ \/ at[s]["put"] = "sent" /\ push' = [push EXCEPT ![p] = "manifest"]
     \/ /\ at[s]["put"] # "sent"
        /\ \E next \in {"missing", "failed"} : push' = [push EXCEPT ![p] = next]
  /\ session' = [session EXCEPT ![s].push = None]
  /\ UNCHANGED <<server, late, listed, at, body, layer, manifest>>

\* Nothing refers to the session any more, and its name stands for a new one.
Forget(s) ==
  /\ session[s].push = None /\ session[s].writer # "open" /\ s \notin listed
  /\ \E r \in Requests : at[s][r] # "off"
  /\ \A r \in Requests : at[s][r] \in {"off", "sent", "over"}
  /\ session' = [session EXCEPT ![s] = NoUpload]
  /\ at' = [at EXCEPT ![s] = [r \in Requests |-> "off"]]
  /\ body' = [body EXCEPT ![s] = [r \in Requests |-> <<>>]]
  /\ UNCHANGED <<server, late, listed, layer, manifest, push>>

\* The daemon reports an error: it had no answer, or nothing accepts its requests.
PushFails(p) ==
  /\ push[p] \in {"checking", "missing", "manifest"}
  /\ push' = [push EXCEPT ![p] = "failed"]
  /\ UNCHANGED <<server, late, listed, session, at, body, layer, manifest>>

-----------------------------------------------------------------------------
(* Requests                                                                *)

\* openUpload: a staged writer, under the context of the server
OpenUpload(s) ==
  /\ at[s]["post"] = "open"
  /\ \/ session' = [session EXCEPT ![s].writer = "open"] /\ Goto(s, "post", "list")
     \/ Goto(s, "post", "over") /\ UNCHANGED session
  /\ UNCHANGED <<server, late, listed, body, layer, manifest, push>>

ListUpload(s) ==
  /\ at[s]["post"] = "list" /\ UploadsFree
  /\ listed' = listed \cup {s}
  /\ Goto(s, "post", "sent")
  /\ UNCHANGED <<server, late, session, body, layer, manifest, push>>

GetUpload(s, r) ==
  /\ at[s][r] = "lookup" /\ UploadsFree
  /\ IF s \in listed THEN Goto(s, r, "lock") /\ UNCHANGED body ELSE Refuse(s, r)
  /\ UNCHANGED <<server, late, listed, session, layer, manifest, push>>

\* Mutant: PUT does not close the session to other writers.
LockOpen(s, r) ==
  /\ at[s][r] = "lock" /\ session[s].mu = None
  /\ IF session[s].finished
     THEN Refuse(s, r) /\ UNCHANGED session
     ELSE Goto(s, r, "copy") /\ UNCHANGED body /\ session' = [session EXCEPT ![s].mu = r]
  /\ UNCHANGED <<server, late, listed, layer, manifest, push>>

\* upload.mu, and PUT closes the session to other writers
Lock(s, r) ==
  /\ at[s][r] = "lock" /\ session[s].mu = None
  /\ IF session[s].finished
     THEN Refuse(s, r) /\ UNCHANGED session
     ELSE /\ Goto(s, r, "copy") /\ UNCHANGED body
          /\ session' = [session EXCEPT ![s].mu = r, ![s].finished = r = "put"]
  /\ UNCHANGED <<server, late, listed, layer, manifest, push>>

\* pendingUpload.Write: the chunk reaches the writer and the digester
Write(s, r) ==
  /\ at[s][r] = "copy" /\ body[s][r] # <<>> /\ session[s].writer = "open"
  /\ session' = [session EXCEPT ![s].content = Append(@, Head(body[s][r]))]
  /\ body' = [body EXCEPT ![s][r] = Tail(@)]
  /\ UNCHANGED <<server, late, listed, at, layer, manifest, push>>

\* Mutant: the session is cancelled under its lock.
CopyFailsLocked(s, r) ==
  /\ at[s][r] = "copy"
  /\ Goto(s, r, "cancel")
  /\ UNCHANGED <<server, late, listed, session, body, layer, manifest, push>>

\* The body breaks off, or the writer takes no more (it was cancelled, or its
\* backend fails).  The lock is released before the session is cancelled.
CopyFails(s, r) ==
  /\ at[s][r] = "copy"
  /\ session' = [session EXCEPT ![s].mu = None]
  /\ Goto(s, r, "cancel") /\ body' = [body EXCEPT ![s][r] = <<>>]
  /\ UNCHANGED <<server, late, listed, layer, manifest, push>>

\* PUT takes the digest and the writer before it releases the lock.
CopyEnds(s, r) ==
  /\ at[s][r] = "copy" /\ body[s][r] = <<>>
  /\ session' = [session EXCEPT ![s].mu = None,
                     ![s].digest = IF r = "put" THEN session[s].content ELSE @]
  /\ Goto(s, r, IF r = "put" THEN "drop" ELSE "over")
  /\ UNCHANGED <<server, late, listed, body, layer, manifest, push>>

DropUpload(s) ==
  /\ at[s]["put"] = "drop" /\ UploadsFree
  /\ listed' = listed \ {s}
  /\ Goto(s, "put", "finish")
  /\ UNCHANGED <<server, late, session, body, layer, manifest, push>>

\* Commit with the digest the client sent, or Cancel.  A writer that Close or a
\* failing PATCH has cancelled commits nothing.
FinishUpload(s) ==
  /\ at[s]["put"] = "finish"
  /\ \/ /\ session[s].digest = Layer /\ session[s].writer = "open"
        /\ layer' = session[s].content
        /\ Goto(s, "put", "sent")
     \/ Goto(s, "put", "over") /\ UNCHANGED layer
  /\ session' = Discarded(s)
  /\ UNCHANGED <<server, late, listed, body, manifest, push>>

\* Mutant: the session is forgotten, its writer is not cancelled.
CancelUploadDrops(s, r) ==
  /\ at[s][r] = "cancel" /\ UploadsFree
  /\ listed' = listed \ {s}
  /\ Goto(s, r, "over")
  /\ UNCHANGED <<server, late, session, body, layer, manifest, push>>

\* cancelUpload removes the session and cancels it if it was listed.
CancelUpload(s, r) ==
  /\ at[s][r] = "cancel" /\ UploadsFree
  /\ listed' = listed \ {s}
  /\ Goto(s, r, IF s \in listed THEN "discard" ELSE "over")
  /\ UNCHANGED <<server, late, session, body, layer, manifest, push>>


Discard(s, r) ==
  /\ at[s][r] = "discard" /\ session[s].mu = None
  /\ session' = Discarded(s)
  /\ Goto(s, r, "over")
  /\ UNCHANGED <<server, late, listed, body, layer, manifest, push>>

\* A POST that carries the whole layer has a staged writer of its own.
MonolithicPost(p) ==
  /\ push[p] = "missing" /\ Accepting
  /\ layer' = Layer /\ push' = [push EXCEPT ![p] = "manifest"]
  /\ UNCHANGED <<server, late, listed, session, at, body, manifest>>

\* Mutant: the name is noted although the manifest could not be stored.
PutManifestAnyway(p) ==
  /\ push[p] = "manifest" /\ Accepting
  /\ \E stored \in BOOLEAN :
       manifest' = [stored |-> manifest.stored \/ stored, named |-> TRUE]
  /\ push' = [push EXCEPT ![p] = "pushed"]
  /\ UNCHANGED <<server, late, listed, session, at, body, layer>>

\* The manifest is stored and then its digest noted under the name.
PutManifest(p) ==
  /\ push[p] = "manifest" /\ Accepting
  /\ manifest' = [stored |-> TRUE, named |-> TRUE]
  /\ push' = [push EXCEPT ![p] = "pushed"]
  /\ UNCHANGED <<server, late, listed, session, at, body, layer>>

Daemon(p) ==
  \/ HeadBlob(p) \/ PushFails(p) \/ MonolithicPost(p) \/ PutManifest(p)
  \/ \E s \in Sessions : Post(p, s) \/ Answered(p, s) \/ \E r \in Requests : Send(p, s, r)

Handler(s) ==
  \/ Forget(s) \/ OpenUpload(s) \/ ListUpload(s) \/ DropUpload(s) \/ FinishUpload(s)
  \/ \E r \in Requests :
       \/ GetUpload(s, r) \/ Lock(s, r) \/ Write(s, r) \/ CopyFails(s, r) \/ CopyEnds(s, r)
       \/ CancelUpload(s, r) \/ Discard(s, r)

-----------------------------------------------------------------------------
(* Close                                                                   *)

Shutdown ==
  /\ server = "up"
  /\ server' = "shutdown"
  /\ UNCHANGED <<late, listed, session, at, body, layer, manifest, push>>

\* Requests are waited for, but only for five seconds; then sessionCancel, and
\* uploadsMu is taken and kept.
StartSweep ==
  /\ server = "shutdown"
  /\ server' = "sweeping"
  /\ UNCHANGED <<late, listed, session, at, body, layer, manifest, push>>

Sweep(s) ==
  /\ server = "sweeping" /\ s \in listed /\ session[s].mu = None
  /\ session' = Discarded(s)
  /\ listed' = listed \ {s}
  /\ UNCHANGED <<server, late, at, body, layer, manifest, push>>

EndSweep ==
  /\ server = "sweeping" /\ listed = {}
  /\ server' = "closed"
  /\ late' = {s \in Sessions : at[s]["post"] \in {"open", "list"}}
  /\ UNCHANGED <<listed, session, at, body, layer, manifest, push>>

Close == Shutdown \/ StartSweep \/ EndSweep \/ \E s \in Sessions : Sweep(s)

-----------------------------------------------------------------------------
(* Properties                                                              *)

\* An open staged writer will be committed or cancelled: a request that is being
\* served has it, or its session is listed and Close has still to sweep.  The
\* exception is an upload that a POST lists when the sweep is over, for which
\* Close, which "cancels any pending uploads", comes too early.
WriterHasOwner ==
  \A s \in Sessions : session[s].writer = "open" =>
    Owns(s) \/ (s \in listed /\ (server # "closed" \/ s \in late))

\* Close returns although requests hold the locks of their sessions: no request
\* waits for uploadsMu while it holds one.
CloseReturns == server = "shutdown" ~> server = "closed"
=============================================================================
