----------------------- MODULE MCEquivalenceDiscovery -----------------------
(***************************************************************************)
(* Two summands p, q and their shifts P, Q, with the cone s between them:   *)
(* the pentagon of left mutations from the regular complex <<p, q>> to its  *)
(* shift, which the two ways round reach with the summands in different     *)
(* orders. <<s, Q>> has the key of <<r, Q>> and is another complex. The     *)
(* mutations that leave the pentagon give u, which is silting and not       *)
(* tilting, or stay undetermined.                                           *)
(***************************************************************************)
EXTENDS EquivalenceDiscovery

MCSummands == {"p", "q", "P", "Q", "s", "r", "u"}

MCShape == [x \in MCSummands |-> IF x \in {"s", "r"} THEN "cone" ELSE x]

Regular2 == <<"p", "q">>
Cone == <<"s", "q">>
Crossed == <<"s", "P">>
Shifted == <<"Q", "P">>
Split == <<"p", "Q">>
ShiftedOther == <<"P", "Q">>
Twin == <<"r", "P">>
Outside == <<"u", "q">>
Unfinished == <<"P", "u">>

MCComplexes == {Regular2, Cone, Crossed, Shifted, Split, ShiftedOther, Twin, Outside, Unfinished}
MCTilting == MCComplexes \ {Outside, Unfinished}

MCTerms == [c \in MCComplexes |-> IF Class(c) \cap {"s", "r"} = {} THEN 2 ELSE 3]
MCEntries == [c \in MCComplexes |-> 2 * MCTerms[c] - 2]

MCStart == [t \in {"ample", "tight", "faulty", "none", "broken"} |->
              CASE t = "none" -> "undetermined" [] t = "broken" -> "error" [] OTHER -> "tilting"]

\* the left and the right mutations of a complex under an ample limit
LeftOf ==
  [c \in MCComplexes |->
     CASE c = Regular2 -> <<Value(Cone), Value(Split)>>
       [] c = Cone -> <<Value(Outside), Value(Crossed)>>
       [] c = Crossed -> <<Value(Shifted), Value(Twin)>>
       [] c = Split -> <<Value(ShiftedOther), Value(Outside)>>
       [] c = Twin -> <<Value(Outside), Value(Outside)>>
       [] c = Shifted -> <<Value(Outside), Value(Unfinished)>>
       [] c = ShiftedOther -> <<Value(Unfinished), Value(Outside)>>
       [] OTHER -> <<Undetermined, Undetermined>>]
RightOf ==
  [c \in MCComplexes |->
     CASE c = Regular2 -> <<Value(Outside), Value(Outside)>>
       [] c = Cone -> <<Value(Regular2), Value(Outside)>>
       [] c = Crossed -> <<Value(Unfinished), Value(Cone)>>
       [] c = Split -> <<Value(Outside), Value(Regular2)>>
       [] c = Twin -> <<Value(Crossed), Value(Outside)>>
       [] c = Shifted -> <<Value(Crossed), Value(Split)>>
       [] c = ShiftedOther -> <<Value(Split), Value(Crossed)>>
       [] OTHER -> <<Value(Cone), Undetermined>>]

\* a tight limit leaves mutations at a cone open; a faulty one fails at another cone
MCMutation ==
  [t \in DOMAIN MCStart |-> [c \in MCComplexes |-> [direction \in Directions |->
     LET ample == IF direction = "left" THEN LeftOf[c] ELSE RightOf[c] IN
     CASE t = "tight" /\ c = Crossed -> <<Undetermined, ample[2]>>
       [] t = "faulty" /\ c = Cone -> <<ample[1], Failure>>
       [] OTHER -> ample]]]

Caps(v, m, n, e, t, s) ==
  [max_vertices |-> v, max_directed_mutations |-> m, max_total_terms |-> n,
   max_matrix_entries |-> e, tilting |-> t, through_silting |-> s]

MCLimits ==
  {Caps(9, 40, 99, 99, t, s) : t \in DOMAIN MCStart, s \in BOOLEAN}
  \cup {Caps(v, 40, 99, 99, "ample", s) : v \in 0 .. 6, s \in BOOLEAN}
  \cup {Caps(9, m, 99, 99, "ample", s) : m \in {0, 7, 24}, s \in BOOLEAN}
  \cup {Caps(9, 40, n, 99, "ample", s) : n \in {1, 2, 9}, s \in BOOLEAN}
  \cup {Caps(9, 40, 99, e, "tight", s) : e \in {1, 2, 12}, s \in BOOLEAN}

=============================================================================
