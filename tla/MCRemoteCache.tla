---------------------------- MODULE MCRemoteCache ---------------------------
(* A small cache for module RemoteCache: see the .cfg files.               *)
EXTENDS RemoteCache, TLC

CONSTANTS m1, m2, c1, c2, c3, blob, result

\* Two goroutines on one machine, one on another.
MCAt == (c1 :> m1) @@ (c2 :> m1) @@ (c3 :> m2)
MCDoes == (c1 :> {"write"}) @@ (c2 :> {"read", "write"}) @@ (c3 :> {"write"})
MCWrites == (c1 :> {"exists"}) @@ (c2 :> {"exists", "begin"}) @@ (c3 :> {"begin"})
=============================================================================
