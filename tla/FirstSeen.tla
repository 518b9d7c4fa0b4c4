----------------------------- MODULE FirstSeen ------------------------------
(***************************************************************************)
(* What a census promises, with no limits, cuts, replays or counters: it   *)
(* visits the candidates once each and in order, and keeps exactly the     *)
(* first module it sees of every isomorphism class.                        *)
(***************************************************************************)
EXTENDS CensusDomain

VARIABLES domain,   \* the domain under census
          done,     \* how many candidates have been classified
          firsts    \* the retained candidates, in first-seen order

vars == <<domain, done, firsts>>

Init ==
  /\ domain \in Domains
  /\ done = 0
  /\ firsts = <<>>

FirstOfItsClass(c) ==
  \A i \in 1 .. Len(firsts) : domain.class[firsts[i]] # domain.class[c]

Keep ==
  /\ domain.build[done] = "module"
  /\ FirstOfItsClass(done)
  /\ firsts' = Append(firsts, done)

Drop ==
  /\ \/ domain.build[done] = "relation_acts_nonzero"
     \/ domain.build[done] = "module" /\ ~FirstOfItsClass(done)
  /\ UNCHANGED firsts

Classify ==
  /\ done < domain.size
  /\ Keep \/ Drop
  /\ done' = done + 1
  /\ UNCHANGED domain

Next == Classify

Spec == Init /\ [][Next]_vars

=============================================================================
