----------------------------- MODULE SharedStore ----------------------------
(***************************************************************************)
(* What the build cache promises to the machines that share it, without    *)
(* saying how bytes travel: every machine has a store of its own, and      *)
(* there is one they share.  Entries are whole and are never lost.  A      *)
(* target result enters a store only where the blobs it names can be found *)
(* by the machine that writes it, or as a copy of the shared one.          *)
(***************************************************************************)
CONSTANTS
  Machines,  \* the machines that build
  Blobs,     \* content, by digest
  Results    \* target results, each naming all of Blobs

VARIABLES
  here,   \* here[m]: what the store of machine m has
  there   \* what the shared store says it has

storeVars == <<here, there>>

StoreInit == here = [m \in Machines |-> {}] /\ there = {}

\* m can name the blobs of a result.
Complete(m) == Blobs \subseteq here[m] \cup there

Keep(m, k) ==
  /\ k \in Blobs \/ k \in there \/ Complete(m)
  /\ here' = [here EXCEPT ![m] = @ \cup {k}]
  /\ UNCHANGED there

Share(m, k) ==
  /\ k \in Blobs \/ Complete(m)
  /\ there' = there \cup {k}
  /\ UNCHANGED here

StoreNext == \E m \in Machines, k \in Blobs \cup Results : Keep(m, k) \/ Share(m, k)

StoreSpec == StoreInit /\ [][StoreNext]_storeVars
=============================================================================
