-------------------------- MODULE DerivedPartition --------------------------
(***************************************************************************)
(* What a derived classification may do to its classes: start with every   *)
(* member alone and join, one after the other, two classes of derived      *)
(* equivalent members. Classes are never split, and members that are not   *)
(* equivalent never meet.                                                  *)
(***************************************************************************)
CONSTANTS Members,      \* positions in the family
          Equivalent(_, _)

VARIABLE classes

Init == classes = {{m} : m \in Members}

Join(C, D) ==
  /\ C # D
  /\ \A m \in C, n \in D : Equivalent(m, n)
  /\ classes' = (classes \ {C, D}) \cup {C \cup D}

Next == \E C, D \in classes : Join(C, D)

Spec == Init /\ [][Next]_classes

=============================================================================
