----------------------- MODULE MCDerivedClassification ----------------------
(***************************************************************************)
(* Six algebras in three derived classes, {1, 2, 4, 6}, {3} and {5}. Member *)
(* 4 is a second presentation of 2. Only 1, 5 and 6 are gentle, and the     *)
(* invariants of 2 and 3 agree up to Hochschild degree 1.                   *)
(***************************************************************************)
EXTENDS DerivedClassification

MCDerivedClass == <<"x", "x", "y", "x", "z", "x">>
MCMemberKey == <<"a", "b", "c", "b", "e", "f">>
MCCartan == <<Finished(1), Finished(1), Finished(1), Finished(1), Stopped, Finished(1)>>
MCWinding == <<Finished(7), Stopped, Stopped, Stopped, Finished(8), Finished(7)>>

\* the Hochschild dimensions of a class, cut after a number of degrees
Prefix(m, degrees) ==
  SubSeq(CASE MCDerivedClass[m] = "x" -> <<1, 2, 0>>
           [] MCDerivedClass[m] = "y" -> <<1, 2, 1>>
           [] MCDerivedClass[m] = "z" -> <<1, 0, 0>>, 1, degrees)

Cuts == [ample  |-> <<3, 3, 3, 3, 3, 3>>,
         tight  |-> <<3, 1, 2, 2, 1, 2>>,
         short  |-> <<2, 1, 3, 1, 0, 2>>,
         broken |-> <<3, 3, 0, 3, 3, 3>>]

MCLimits == DOMAIN Cuts

MCDimensions ==
  [l \in MCLimits |-> [m \in Members |->
     IF l = "broken" /\ m = 3 THEN BarDefect ELSE Prefix(m, Cuts[l][m])]]

Silting == Vertex(FALSE, "elsewhere")
To(key) == Vertex(TRUE, key)

FullGraph ==
  << <<To("a"), Silting, To("elsewhere"), To("b")>>,
     <<To("b"), To(Cut), To("elsewhere")>>,
     <<To("c"), To("elsewhere"), Silting>>,
     <<To("b"), To("a")>>,
     <<To("e"), To(Cut)>>,
     <<To("f"), To("b"), To("a")>> >>

\* tight walks find fewer vertices, and one recovery has a defect
MCGraph ==
  [l \in MCLimits |-> [m \in Members |->
     CASE l = "tight" /\ m = 1 -> SubSeq(FullGraph[m], 1, 2)
       [] l = "tight" /\ m = 6 -> <<>>
       [] l = "short" /\ m = 6 -> <<To("f"), To(Defect)>>
       [] OTHER -> FullGraph[m]]]

=============================================================================
