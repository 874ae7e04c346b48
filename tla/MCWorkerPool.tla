---------------------------- MODULE MCWorkerPool ----------------------------
(* Small pools for WorkerPool: see the .cfg files.                         *)
EXTENDS WorkerPool, TLC

CONSTANTS a, b, d, e, docker

\* a and b are in one group, d and e in none
MCGroupOf == [j \in Jobs |-> IF j \in {d, e} THEN NoGroup ELSE docker]
MCCapacity == (docker :> 1)
=============================================================================
