--------------------------- MODULE MCImageOutputs ---------------------------
(* Small instances of module ImageOutputs: see the .cfg files.             *)
EXTENDS ImageOutputs

CONSTANTS base, app, s1, s2, chunk, rest

MCLayer == <<chunk>>
\* Every combination with the cache registry; the loopback registry with and
\* without restored images, and without pushes and one of the caches.
MCOptions ==
  {o \in AllOptions :
     /\ o.noCache \in {{}, {base}}
     /\ o.mode = "layers" => o.noCache = IF o.pushing THEN {} ELSE {base}
     /\ o.mode = "layers" /\ ~o.pushing => o.loads = "minimal"}
=============================================================================
