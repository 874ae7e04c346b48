------------------------------ MODULE MCWalker ------------------------------
(* Small graphs for Walker: see the .cfg files.                            *)
EXTENDS Walker

CONSTANTS base, left, right, top, other

\* base <- left, right <- top, and a dependant of left that is not selected
DiamondNodes == {base, left, right, top, other}
DiamondSelected == DiamondNodes \ {other}
DiamondDeps ==
  [n \in DiamondNodes |->
     CASE n \in {left, right} -> {base}
       [] n = top -> {left, right}
       [] n = other -> {left}
       [] OTHER -> {}]

\* right lists base twice: nothing removes a duplicate dependency
DiamondEdges ==
  [d \in DiamondNodes |-> [n \in DiamondNodes |->
     IF d \notin DiamondDeps[n] THEN 0 ELSE IF n = right THEN 2 ELSE 1]]
=============================================================================
