------------------------- MODULE MCVerificationMemo -------------------------
(***************************************************************************)
(* Two threads, one stored module and one address for rebuilt ones. The    *)
(* module y lives over another algebra, whose opposite cannot be built:    *)
(* its translate fails, and so does Hom between it and x.                  *)
(***************************************************************************)
EXTENDS VerificationMemo, TLC

MCStored == "p" :> "x"
MCAlgebraOf == [c \in Contents |-> IF c = "y" THEN "B" ELSE "A"]
MCFailing == {<<"opposite", <<"B">>>>, <<"hom_dim", <<"x", "y">>>>, <<"hom_dim", <<"y", "x">>>>}

=============================================================================
