------------------------------- MODULE Census -------------------------------
(***************************************************************************)
(* The census engine (census/engine.rs, request.rs, records.rs): one       *)
(* bounded enumeration of a finite domain that can be cut, cancelled or    *)
(* fail, whose outcome is verified by replaying it from nothing, and whose *)
(* verified cuts can be resumed under new limits.                          *)
(*                                                                         *)
(* The engine and the replay are the same loop: verify() calls run_with    *)
(* again.  Variable purpose tells which of the two is running.  A second   *)
(* actor sets the cancellation flag at any time.                           *)
(***************************************************************************)
EXTENDS CensusDomain, FiniteSets

CONSTANTS LimitChoices,   \* the CensusLimits a caller may pass
          MaxResumes      \* bound of the model: resumes in one history

Retentions == {"all_assignments", "representatives_only"}

CensusLimits ==
  [retention : Retentions, max_candidates : Nat, max_representatives : Nat,
   max_assignments : Nat, max_isomorphism_checks : Nat, max_work_units : Nat]

ASSUME LimitsAssumption ==
  /\ LimitChoices \subseteq CensusLimits
  /\ MaxResumes \in Nat

VARIABLES
  domain,                \* the CensusDomain of the request
  (* CensusState: what the engine is working on *)
  limits, cursor, candidates, accepted_modules, rejected_candidates,
  isomorphism_checks, work_units, representatives, assignments,
  (* the locals of enumerate_state and classify_candidate *)
  pc,                    \* "loop": top of the while loop; "compare": classifying
  representative,        \* next representative to compare with (1-based)
  saved,                 \* work_before and checks_before of the candidate
  purpose,               \* "run" for the caller, or "replay" of what the caller holds
  (* the caller *)
  held,                  \* the outcome the caller holds
  verdict,               \* what verify() last said of it
  cancelled,             \* the cancellation flag of the request's control
  progress,              \* the snapshot a polling thread reads
  resumes,               \* resumes so far (bounded by MaxResumes)
  redone,                \* history: resumes that charge a candidate a second time
  lowered                \* history: some resume set a ceiling below what was committed

counts == <<candidates, accepted_modules, rejected_candidates>>
committed == <<cursor, counts, representatives, assignments>>
spent == <<isomorphism_checks, work_units>>
locals == <<representative, saved>>
request == <<domain, limits, purpose>>
history == <<resumes, redone, lowered>>
vars == <<request, committed, spent, locals, pc, cancelled, held, verdict, progress,
          history>>

-----------------------------------------------------------------------------
(* CensusState and outcomes (records.rs).                                  *)

State ==
  [limits |-> limits, cursor |-> cursor, candidates |-> candidates,
   accepted_modules |-> accepted_modules, rejected_candidates |-> rejected_candidates,
   isomorphism_checks |-> isomorphism_checks, work_units |-> work_units,
   representatives |-> representatives, assignments |-> assignments]

Empty(l) ==
  [limits |-> l, cursor |-> 0, candidates |-> 0, accepted_modules |-> 0,
   rejected_candidates |-> 0, isomorphism_checks |-> 0, work_units |-> 0,
   representatives |-> <<>>, assignments |-> <<>>]

Complete == cursor = domain.size

MidCandidateReasons ==
  {"isomorphism_limit", "work_limit_isomorphism", "assignment_limit",
   "representative_limit", "unknown_isomorphism"}

BoundaryReasons == {"cancelled", "candidate_limit", "work_limit_candidate"}

Outcome(kind, reason, s) == [kind |-> kind, reason |-> reason, state |-> s]

-----------------------------------------------------------------------------
(* verify(): the stored state must equal the replayed one.                 *)

\* cancelled and failed outcomes are verified as prefixes
PrefixOutcome(o) == o.kind = "failed" \/ o.reason = "cancelled"

ReplayLimits(o) ==
  IF PrefixOutcome(o)
  THEN [o.state.limits EXCEPT !.max_candidates = o.state.cursor]
  ELSE o.state.limits

SameReplayData(a, b) ==
  /\ a.cursor = b.cursor
  /\ a.candidates = b.candidates
  /\ a.accepted_modules = b.accepted_modules
  /\ a.rejected_candidates = b.rejected_candidates
  /\ a.representatives = b.representatives
  /\ a.assignments = b.assignments
  /\ a.isomorphism_checks = b.isomorphism_checks
  /\ a.work_units = b.work_units

\* verify_state_data, without the matrix and witness checks
VerifyStateData(s) ==
  /\ s.cursor <= domain.size
  /\ s.candidates = s.cursor
  /\ s.candidates = s.accepted_modules + s.rejected_candidates
  /\ IF s.limits.retention = "all_assignments"
     THEN s.accepted_modules = Len(s.representatives) + Len(s.assignments)
     ELSE s.assignments = <<>> /\ s.accepted_modules >= Len(s.representatives)
  /\ \A i \in 1 .. Len(s.representatives) : s.representatives[i] < s.cursor
  /\ \A i \in 1 .. Len(s.assignments) :
       /\ s.assignments[i].cursor < s.cursor
       /\ s.assignments[i].representative \in 1 .. Len(s.representatives)

\* replay_complete, replay_cut and replay_prefix on the outcome of the second run
ReplayAccepts(o, replayed) ==
  /\ VerifyStateData(o.state)
  /\ SameReplayData(o.state, replayed.state)
  /\ IF PrefixOutcome(o)
     THEN replayed.kind # "failed"
     ELSE replayed.kind = o.kind /\ replayed.reason = o.reason

-----------------------------------------------------------------------------
(* control.update and returning from enumerate_state.                      *)

\* only a caller's run has a control
Publish(stage) ==
  progress' = IF purpose = "run"
              THEN [stage |-> stage, completed_work |-> work_units',
                    reserved_work |-> limits.max_work_units]
              ELSE progress

(***************************************************************************)
(* A run hands its outcome to the caller, a replay compares it with the    *)
(* outcome under verification.                                             *)
(***************************************************************************)
Return(kind, reason) ==
  LET outcome == Outcome(kind, reason, State')
  IN /\ UNCHANGED <<request, committed, locals, cancelled, history>>
     /\ pc' = "idle"
     /\ held' = IF purpose = "run" THEN outcome ELSE held
     /\ verdict' = IF purpose = "run" THEN "none"
                   ELSE IF ReplayAccepts(held, outcome) THEN "accepted" ELSE "rejected"

Cut(reason) == Return("cut", reason) /\ Publish("census")

\* the candidate is committed and the loop goes on
Continue ==
  /\ cursor' = cursor + 1
  /\ candidates' = candidates + 1
  /\ pc' = "loop"
  /\ Publish("census")
  /\ UNCHANGED <<request, locals, cancelled, held, verdict, history>>

CommitRejected ==
  /\ rejected_candidates' = rejected_candidates + 1
  /\ UNCHANGED <<accepted_modules, representatives, assignments>>
  /\ Continue

\* mutant of CommitAccepted: the accepted candidate is not counted
CommitUncounted ==
  /\ UNCHANGED <<accepted_modules, rejected_candidates>>
  /\ Continue

CommitAccepted ==
  /\ accepted_modules' = accepted_modules + 1
  /\ UNCHANGED rejected_candidates
  /\ Continue

ReserveWork == work_units' = work_units + 1 /\ UNCHANGED isomorphism_checks

\* mutant of ChargeComparison: the comparison is counted but its work is not reserved
ChargeCheckOnly == UNCHANGED work_units /\ isomorphism_checks' = isomorphism_checks + 1

\* reserve_work and increment_isomorphism_checks around one comparison
ChargeComparison ==
  /\ work_units' = work_units + 1
  /\ isomorphism_checks' = isomorphism_checks + 1

-----------------------------------------------------------------------------
(* The while loop of enumerate_state and the head of process_candidate.    *)

Finish ==
  /\ pc = "loop" /\ Complete
  /\ UNCHANGED spent
  /\ Return("complete", "none")
  /\ Publish("complete")

CancelObserved == purpose = "run" /\ cancelled

\* the cancelled cut publishes nothing
ObserveCancellation ==
  /\ pc = "loop" /\ ~Complete /\ CancelObserved
  /\ UNCHANGED <<spent, progress>>
  /\ Return("cut", "cancelled")

Processing == pc = "loop" /\ ~Complete /\ ~CancelObserved

CutAtCandidateLimit ==
  /\ Processing
  /\ candidates >= limits.max_candidates
  /\ UNCHANGED spent
  /\ Cut("candidate_limit")

CutAtCandidateWork ==
  /\ Processing
  /\ candidates < limits.max_candidates
  /\ work_units >= limits.max_work_units
  /\ UNCHANGED spent
  /\ Cut("work_limit_candidate")

Built(result) ==
  /\ Processing
  /\ candidates < limits.max_candidates
  /\ work_units < limits.max_work_units
  /\ domain.build[cursor] = result

\* mutant of RejectCandidate: the loop goes round without committing the rejection
RejectWithoutCommit == Built("relation_acts_nonzero") /\ UNCHANGED vars

RejectCandidate ==
  /\ Built("relation_acts_nonzero")
  /\ ReserveWork
  /\ CommitRejected

\* the reserved unit is given back
FailConstruction ==
  /\ Built("construction_error")
  /\ UNCHANGED spent
  /\ Return("failed", "none")
  /\ Publish("census")

BeginComparisons ==
  /\ Built("module")
  /\ ReserveWork
  /\ pc' = "compare"
  /\ representative' = 1
  /\ saved' = [work_units |-> work_units, isomorphism_checks |-> isomorphism_checks]
  /\ UNCHANGED <<request, committed, cancelled, held, verdict, progress, history>>

-----------------------------------------------------------------------------
(* classify_candidate and compare_representative.                          *)

Comparing == pc = "compare" /\ representative <= Len(representatives)

CutAtIsomorphismLimit ==
  /\ Comparing
  /\ isomorphism_checks >= limits.max_isomorphism_checks
  /\ UNCHANGED spent
  /\ Cut("isomorphism_limit")

CutAtIsomorphismWork ==
  /\ Comparing
  /\ isomorphism_checks < limits.max_isomorphism_checks
  /\ work_units >= limits.max_work_units
  /\ UNCHANGED spent
  /\ Cut("work_limit_isomorphism")

Compared(answer) ==
  /\ Comparing
  /\ isomorphism_checks < limits.max_isomorphism_checks
  /\ work_units < limits.max_work_units
  /\ domain.compare[<<cursor, representatives[representative]>>] = answer

\* mutant of FailComparison: the work on the candidate is kept
FailWithoutRollback ==
  /\ Compared("error")
  /\ UNCHANGED spent
  /\ Return("failed", "none")
  /\ Publish("census")

\* mutant of FailComparison: the snapshot is published before the work is given back
PublishBeforeRollback ==
  /\ Compared("error")
  /\ work_units' = saved.work_units
  /\ isomorphism_checks' = saved.isomorphism_checks
  /\ Return("failed", "none")
  /\ progress' = IF purpose = "run"
                 THEN [progress EXCEPT !.completed_work = work_units]
                 ELSE progress

\* all work on the candidate is given back
FailComparison ==
  /\ Compared("error")
  /\ work_units' = saved.work_units
  /\ isomorphism_checks' = saved.isomorphism_checks
  /\ Return("failed", "none")
  /\ Publish("census")

\* mutant of NextRepresentative: an undecided comparison counts as different
NextOnUnknown ==
  /\ Compared("not_isomorphic") \/ Compared("unknown")
  /\ ChargeComparison
  /\ representative' = representative + 1
  /\ UNCHANGED <<request, committed, saved, pc, cancelled, held, verdict, progress,
                 history>>

NextRepresentative ==
  /\ Compared("not_isomorphic")
  /\ ChargeComparison
  /\ representative' = representative + 1
  /\ UNCHANGED <<request, committed, saved, pc, cancelled, held, verdict, progress,
                 history>>

CutAtUnknown ==
  /\ Compared("unknown")
  /\ ChargeComparison
  /\ Cut("unknown_isomorphism")

DropDuplicate ==
  /\ Compared("isomorphic")
  /\ limits.retention = "representatives_only"
  /\ ChargeComparison
  /\ UNCHANGED <<representatives, assignments>>
  /\ CommitAccepted

CutAtAssignmentLimit ==
  /\ Compared("isomorphic")
  /\ limits.retention = "all_assignments"
  /\ Len(assignments) >= limits.max_assignments
  /\ ChargeComparison
  /\ Cut("assignment_limit")

AssignDuplicate ==
  /\ Compared("isomorphic")
  /\ limits.retention = "all_assignments"
  /\ Len(assignments) < limits.max_assignments
  /\ ChargeComparison
  /\ assignments' = Append(assignments, [cursor |-> cursor,
                                         representative |-> representative])
  /\ UNCHANGED representatives
  /\ CommitAccepted

\* mutant of AllCompared: the last representative is not compared with
AllComparedEarly == pc = "compare" /\ representative >= Len(representatives)

AllCompared == pc = "compare" /\ representative > Len(representatives)

CutAtRepresentativeLimit ==
  /\ AllCompared
  /\ Len(representatives) >= limits.max_representatives
  /\ UNCHANGED spent
  /\ Cut("representative_limit")

\* mutant of KeepRepresentative: the ceiling is off by one
KeepOneTooMany ==
  /\ AllCompared
  /\ Len(representatives) <= limits.max_representatives
  /\ UNCHANGED <<spent, assignments>>
  /\ representatives' = Append(representatives, cursor)
  /\ CommitAccepted

KeepRepresentative ==
  /\ AllCompared
  /\ Len(representatives) < limits.max_representatives
  /\ UNCHANGED <<spent, assignments>>
  /\ representatives' = Append(representatives, cursor)
  /\ CommitAccepted

-----------------------------------------------------------------------------
(* The caller: cancel, verify, resume.                                     *)

Cancel ==
  /\ pc # "idle" /\ purpose = "run"
  /\ ~cancelled
  /\ cancelled' = TRUE
  /\ UNCHANGED <<request, committed, spent, locals, pc, held, verdict, progress, history>>

\* mutant of Load: the comparison counter starts again from zero
LoadWithoutChecks(s) ==
  /\ pc' = "loop"
  /\ cursor' = s.cursor
  /\ candidates' = s.candidates
  /\ accepted_modules' = s.accepted_modules
  /\ rejected_candidates' = s.rejected_candidates
  /\ isomorphism_checks' = 0
  /\ work_units' = s.work_units
  /\ representatives' = s.representatives
  /\ assignments' = s.assignments
  /\ UNCHANGED <<domain, locals, held, verdict>>

\* enumerate_state starts on s
Load(s) ==
  /\ pc' = "loop"
  /\ cursor' = s.cursor
  /\ candidates' = s.candidates
  /\ accepted_modules' = s.accepted_modules
  /\ rejected_candidates' = s.rejected_candidates
  /\ isomorphism_checks' = s.isomorphism_checks
  /\ work_units' = s.work_units
  /\ representatives' = s.representatives
  /\ assignments' = s.assignments
  /\ UNCHANGED <<domain, locals, held, verdict>>

\* the replay is a fresh run, without a control, under the limits of the outcome
Verify ==
  /\ pc = "idle"
  /\ purpose' = "replay"
  /\ limits' = ReplayLimits(held)
  /\ Load(Empty(ReplayLimits(held)))
  /\ UNCHANGED <<cancelled, progress, history>>

BelowCommitted(l, s) ==
  \/ l.max_candidates < s.candidates
  \/ l.max_representatives < Len(s.representatives)
  \/ l.retention = "all_assignments" /\ l.max_assignments < Len(s.assignments)
  \/ l.max_isomorphism_checks < s.isomorphism_checks
  \/ l.max_work_units < s.work_units

(***************************************************************************)
(* Census::resume and VerifiedCensus::resume: a cut that replay accepted   *)
(* goes on from its state, with the new limits and a fresh control.  A     *)
(* refused resume (other retention, rejected checkpoint, complete or       *)
(* failed outcome) changes nothing and is no step of the model.            *)
(***************************************************************************)
Resume ==
  /\ pc = "idle"
  /\ held.kind = "cut"
  /\ verdict = "accepted"
  /\ resumes < MaxResumes
  /\ \E l \in LimitChoices :
       /\ l.retention = held.state.limits.retention
       /\ limits' = l
       /\ lowered' = (lowered \/ BelowCommitted(l, held.state))
       /\ progress' = [stage |-> "census", completed_work |-> held.state.work_units,
                       reserved_work |-> l.max_work_units]
  /\ Load(held.state)
  /\ purpose' = "run"
  /\ cancelled' = FALSE
  /\ resumes' = resumes + 1
  /\ redone' = redone + (IF held.reason \in MidCandidateReasons THEN 1 ELSE 0)

-----------------------------------------------------------------------------

\* Census::new and run_with: the first request is under way
Init ==
  /\ domain \in Domains
  /\ limits \in LimitChoices
  /\ cursor = 0 /\ candidates = 0 /\ accepted_modules = 0 /\ rejected_candidates = 0
  /\ isomorphism_checks = 0 /\ work_units = 0
  /\ representatives = <<>> /\ assignments = <<>>
  /\ pc = "loop" /\ purpose = "run"
  /\ representative = 1
  /\ saved = [work_units |-> 0, isomorphism_checks |-> 0]
  /\ held = Outcome("none", "none", Empty(limits))
  /\ verdict = "none"
  /\ progress = [stage |-> "census", completed_work |-> 0,
                 reserved_work |-> limits.max_work_units]
  /\ cancelled = FALSE /\ lowered = FALSE
  /\ resumes = 0 /\ redone = 0

LoopStep ==
  \/ Finish \/ ObserveCancellation \/ CutAtCandidateLimit \/ CutAtCandidateWork
  \/ RejectCandidate \/ FailConstruction \/ BeginComparisons

CompareStep ==
  \/ CutAtIsomorphismLimit \/ CutAtIsomorphismWork \/ FailComparison
  \/ NextRepresentative \/ CutAtUnknown \/ DropDuplicate
  \/ CutAtAssignmentLimit \/ AssignDuplicate
  \/ CutAtRepresentativeLimit \/ KeepRepresentative

Engine == LoopStep \/ CompareStep

Next == Engine \/ Cancel \/ Verify \/ Resume

\* the enumeration runs on its caller's thread until it returns
Fairness == WF_vars(Engine)

Spec == Init /\ [][Next]_vars /\ Fairness

-----------------------------------------------------------------------------
(* Properties.                                                             *)

CensusStates ==
  [limits : CensusLimits, cursor : Nat, candidates : Nat, accepted_modules : Nat,
   rejected_candidates : Nat, isomorphism_checks : Nat, work_units : Nat,
   representatives : Seq(Nat),
   assignments : Seq([cursor : Nat, representative : Nat])]

Outcomes ==
  [kind : {"none", "complete", "cut", "failed"},
   reason : MidCandidateReasons \cup BoundaryReasons \cup {"none"},
   state : CensusStates]

\* Every variable keeps its type.
TypeOK ==
  /\ domain \in Domains
  /\ State \in CensusStates
  /\ pc \in {"idle", "loop", "compare"}
  /\ representative \in Nat \ {0}
  /\ saved \in [work_units : Nat, isomorphism_checks : Nat]
  /\ purpose \in {"run", "replay"}
  /\ held \in Outcomes
  /\ verdict \in {"none", "accepted", "rejected"}
  /\ cancelled \in BOOLEAN
  /\ progress \in [stage : {"census", "complete"}, completed_work : Nat,
                   reserved_work : Nat]
  /\ resumes \in Nat
  /\ redone \in Nat
  /\ lowered \in BOOLEAN

\* Whatever was cut, cancelled, rolled back or resumed, the counters of a state describe
\* exactly the records it holds, as verify_state_data demands.
CountersDescribeRecords == VerifyStateData(State) /\ VerifyStateData(held.state)

IsModule(c) == domain.build[c] = "module"

SameClass(c, d) == domain.class[c] = domain.class[d]

RepresentativesAreFirstSeen(s) ==
  \A i \in 1 .. Len(s.representatives) :
     LET r == s.representatives[i] IN
     /\ r < s.cursor
     /\ IsModule(r)
     /\ \A c \in 0 .. r - 1 : IsModule(c) => ~SameClass(c, r)

EveryModuleIsClassified(s) ==
  \A c \in 0 .. s.cursor - 1 :
     /\ domain.build[c] # "construction_error"
     /\ IsModule(c) => \E i \in 1 .. Len(s.representatives) :
                          SameClass(c, s.representatives[i])

AssignmentsAreCorrect(s) ==
  \A i \in 1 .. Len(s.assignments) :
     LET a == s.assignments[i] IN
     /\ a.representative \in 1 .. Len(s.representatives)
     /\ s.representatives[a.representative] < a.cursor
     /\ a.cursor < s.cursor
     /\ IsModule(a.cursor)
     /\ SameClass(a.cursor, s.representatives[a.representative])

Classified(s) ==
  /\ RepresentativesAreFirstSeen(s)
  /\ EveryModuleIsClassified(s)
  /\ AssignmentsAreCorrect(s)

\* The committed prefix is classified: each representative is the first module seen of
\* its class, no accepted candidate is left without a class, no assignment is wrong.
PrefixIsClassified == Classified(State) /\ Classified(held.state)

\* the units of the candidate in progress, which no counter but work_units has
Pending(mid) == IF mid THEN 1 ELSE 0

Balanced(s, surplus) == s.work_units = s.candidates + s.isomorphism_checks + surplus

\* Every work unit is one candidate or one comparison; the only surplus is the candidate
\* in progress and the candidates that a resume charged a second time.
WorkLedger ==
  /\ pc # "idle" =>
       Balanced(State, Pending(pc = "compare") + (IF purpose = "run" THEN redone ELSE 0))
  /\ pc = "idle" \/ purpose = "replay" =>
       Balanced(held.state, Pending(held.reason \in MidCandidateReasons) + redone)

WithinLimits(s) ==
  /\ s.candidates <= s.limits.max_candidates
  /\ Len(s.representatives) <= s.limits.max_representatives
  /\ s.limits.retention = "all_assignments" =>
       Len(s.assignments) <= s.limits.max_assignments
  /\ s.isomorphism_checks <= s.limits.max_isomorphism_checks
  /\ s.work_units <= s.limits.max_work_units

\* The engine stays within all five ceilings unless a resume set one below what was
\* already committed; a replay always does.
CeilingsHold ==
  /\ ~lowered \/ purpose = "replay" => WithinLimits(State)
  /\ ~lowered => WithinLimits(held.state)

\* verify() accepts an outcome exactly when no resume ran a charged candidate again and
\* the ceilings it is replayed under admit it: in particular every outcome of a fresh run,
\* cancelled, cut or failed, and every one resumed from a candidate boundary under
\* ceilings no lower than what was committed.
VerdictIsExact ==
  pc = "idle" /\ verdict # "none" =>
     (verdict = "accepted" <=>
        /\ redone = 0
        /\ WithinLimits([held.state EXCEPT !.limits = ReplayLimits(held)]))

\* At a candidate boundary of a census that never ran a candidate twice, the comparison
\* counter is the number of comparisons the classification needs, no more and no less.
ChecksAreNecessary ==
  pc = "loop" /\ (purpose = "replay" \/ redone = 0) =>
     isomorphism_checks = Cardinality(Comparisons(domain, cursor))

\* What the caller's request has committed: a replay works beside it.
Committed == IF pc = "idle" \/ purpose = "replay" THEN held.state ELSE State

\* the work the classification of the first n candidates needs: a unit for each of them
\* and one for each comparison between their classes
WorkBefore(n) == n + Cardinality(Comparisons(domain, n))

\* candidates begun and charged but never committed: those a resume began again, and the
\* one a cut left unfinished
Abandoned ==
  redone + Pending((pc = "idle" \/ purpose = "replay") /\ held.reason \in MidCandidateReasons)

\* What a polling thread reads.  While no candidate was abandoned it is exactly the work
\* of the committed prefix, also in the middle of a comparison, after a rollback and
\* during a replay.  A cut in the middle of a candidate publishes what that candidate was
\* charged and a resume keeps it: each abandoned candidate adds its unit and at most one
\* comparison with every representative.  Only a complete census is shown as "complete".
ProgressIsAccounted ==
  /\ progress.completed_work - WorkBefore(Committed.cursor)
       \in Abandoned .. Abandoned * (1 + Len(Committed.representatives))
  /\ progress.stage = "complete" =>
       held.kind = "complete" /\ held.state.cursor = domain.size

FS == INSTANCE FirstSeen WITH done <- Committed.cursor,
                              firsts <- Committed.representatives

\* Across cuts, cancellations, failures, replays and resumes the committed prefix only
\* moves as FirstSeen says: one candidate at a time, in order, never back.
RefinesFirstSeen == FS!Spec

\* Every run and every replay returns.
EngineReturns == pc # "idle" ~> pc = "idle"

=============================================================================
