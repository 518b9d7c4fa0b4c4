--------------------------- MODULE DurablePrefix ---------------------------
(***************************************************************************)
(* What a durable run promises of the rows it computes: a prefix that      *)
(* grows in memory, is saved before it grows again, and after any failure  *)
(* goes on from what was saved.                                            *)
(***************************************************************************)
EXTENDS Naturals

VARIABLES live,    \* rows of the running stream
          saved,   \* rows of the file as processes see it
          safe     \* rows the file may be left with by a loss of power

dvars == <<live, saved, safe>>

Init == live = 0 /\ saved = 0 /\ safe = {0}

\* a chunk is computed only when all before it are in the file
Compute == live = saved /\ live' \in Nat /\ live' > live /\ UNCHANGED <<saved, safe>>

Save == saved' = live /\ safe' = safe \cup {live} /\ UNCHANGED live

Secure == safe' = {saved} /\ UNCHANGED <<live, saved>>

\* the process is gone, or another takes over: what was not saved is lost
Restart == live' = saved /\ UNCHANGED <<saved, safe>>

LosePower == \E n \in safe : live' = n /\ saved' = n /\ safe' = {n}

Next == Compute \/ Save \/ Secure \/ Restart \/ LosePower

Spec == Init /\ [][Next]_dvars

=============================================================================
