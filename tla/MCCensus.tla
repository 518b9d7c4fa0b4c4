------------------------------ MODULE MCCensus ------------------------------
(***************************************************************************)
(* Small census domains and limits for TLC.  Domain "mixed" has every kind *)
(* of candidate but an error; the others end in an undecided comparison, a *)
(* failed comparison and a failed construction.                            *)
(***************************************************************************)
EXTENDS Census

Good == "module"
Bad == "relation_acts_nonzero"
Broken == "construction_error"

\* Decided by class, but for the listed pairs
Decide(class, n, odd) ==
  [p \in (0 .. n - 1) \X (0 .. n - 1) |->
     IF p \in DOMAIN odd THEN odd[p]
     ELSE IF class[p[1]] = class[p[2]] THEN "isomorphic" ELSE "not_isomorphic"]

Dom(build, class, odd) ==
  LET n == Len(build)
      cl == [c \in 0 .. n - 1 |-> class[c + 1]]
  IN [size |-> n, build |-> [c \in 0 .. n - 1 |-> build[c + 1]], class |-> cl,
      compare |-> Decide(cl, n, odd)]

NoOdd == [p \in {} |-> ""]

MCDomains ==
  {Dom(<<Good, Good, Bad, Good, Good>>, <<1, 2, 0, 2, 1>>, NoOdd),
   Dom(<<Good, Good, Good, Bad>>, <<1, 2, 1, 0>>, [p \in {<<2, 0>>} |-> "unknown"]),
   Dom(<<Good, Good, Bad, Good>>, <<1, 2, 0, 2>>, [p \in {<<3, 1>>} |-> "error"]),
   Dom(<<Good, Good, Broken>>, <<1, 1, 0>>, NoOdd),
   Dom(<<Good>>, <<1>>, NoOdd)}

Limits(retention, cand, reps, assigns, checks, work) ==
  [retention |-> retention, max_candidates |-> cand, max_representatives |-> reps,
   max_assignments |-> assigns, max_isomorphism_checks |-> checks,
   max_work_units |-> work]

Shapes ==
  {<<9, 9, 9, 9, 30>>, <<2, 9, 9, 9, 30>>, <<9, 1, 9, 9, 30>>, <<9, 9, 0, 9, 30>>,
   <<9, 9, 1, 9, 30>>, <<9, 9, 9, 2, 30>>, <<9, 9, 9, 9, 2>>, <<9, 9, 9, 9, 5>>,
   <<9, 9, 9, 9, 6>>, <<9, 9, 9, 0, 30>>, <<3, 2, 1, 2, 6>>}

MCLimits ==
  {Limits(r, x[1], x[2], x[3], x[4], x[5]) : r \in Retentions, x \in Shapes}

-----------------------------------------------------------------------------
(* What the tests and the documents say.                                   *)

\* census/tests.rs asserts of a resumed census: assert!(resumed.verify())
ResumedOutcomeVerifies == pc = "idle" /\ resumes > 0 => verdict # "rejected"

\* research-design.md: "A ceiling below committed work returns ResumeBudget"
NoCeilingBelowCommittedWork == pc # "idle" => WithinLimits(State)

\* Limits whose ceilings only grow from one request to the next
GrowingShapes == {<<9, 9, 9, 9, 2>>, <<9, 9, 9, 9, 30>>}

GrowingLimits ==
  {Limits("all_assignments", x[1], x[2], x[3], x[4], x[5]) : x \in GrowingShapes}

=============================================================================
