-------------------------- MODULE MCWorkspaceLock ---------------------------
(* Processes and checkouts for module WorkspaceLock: see the .cfg files.   *)
EXTENDS WorkspaceLock, TLC

CONSTANTS build, test, run, nested, clean, w1, w2

\* grog build and grog run in one checkout, where the binary that is run calls
\* grog in turn; grog test and grog clean in another checkout.
MCHome == [p \in Processes |-> IF p \in {test, clean} THEN w2 ELSE w1]
MCCaller == [p \in Builders |-> IF p = nested THEN run ELSE None]
=============================================================================
