---------------------------- MODULE CensusDomain ----------------------------
(***************************************************************************)
(* The raw search domain of a module census (census/domain.rs) and what    *)
(* the algebra answers about it.  A candidate is named by its raw cursor   *)
(* 0, 1, ..., size - 1; the matrix entries the cursor decodes to are       *)
(* abstracted to three answers the engine branches on:                     *)
(*   build[c]       what Module::new returns for candidate c;              *)
(*   compare[c, r]  what is_isomorphic returns for candidates c and r;     *)
(*   class[c]       the isomorphism class of c, which no code computes:    *)
(*                  it is the reference the engine is judged against.      *)
(***************************************************************************)
EXTENDS Integers, Sequences

CONSTANT Domains          \* the census domains under study

BuildResults == {"module", "relation_acts_nonzero", "construction_error"}

CompareResults == {"isomorphic", "not_isomorphic", "unknown", "error"}

Candidates(d) == 0 .. d.size - 1

(***************************************************************************)
(* is_isomorphic certifies its two decisions: "isomorphic" comes with a    *)
(* checked witness and "not_isomorphic" with a distinguishing invariant.   *)
(* It may also give up ("unknown") or reject its input ("error").          *)
(***************************************************************************)
CertifiedComparison(d) ==
  \A c \in Candidates(d), r \in Candidates(d) :
     /\ d.compare[<<c, r>>] \in CompareResults
     /\ d.compare[<<c, r>>] = "isomorphic" => d.class[c] = d.class[r]
     /\ d.compare[<<c, r>>] = "not_isomorphic" => d.class[c] # d.class[r]

\* cursor zero is the zero representation, which every relation sends to zero
IsDomain(d) ==
  /\ d.size \in Nat \ {0}
  /\ \A c \in Candidates(d) : d.build[c] \in BuildResults
  /\ d.build[0] = "module"
  /\ CertifiedComparison(d)

ASSUME DomainsAssumption == \A d \in Domains : IsDomain(d)

-----------------------------------------------------------------------------
(* What a census of d has to find and to compare, without a census.        *)

Modules(d) == {c \in Candidates(d) : d.build[c] = "module"}

\* the first modules of their classes
Firsts(d) == {c \in Modules(d) : \A b \in Modules(d) : b < c => d.class[b] # d.class[c]}

\* a module below n is compared with the firsts before it, up to that of its own class
Comparisons(d, n) ==
  {p \in Modules(d) \X Firsts(d) :
     /\ p[2] < p[1] /\ p[1] < n
     /\ \A b \in Modules(d) : b < p[2] => d.class[b] # d.class[p[1]]}

=============================================================================
