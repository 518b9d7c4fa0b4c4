---------------------------- MODULE CensusProofs ----------------------------
(***************************************************************************)
(* Proofs about the census engine, for every set of domains, every set of  *)
(* limits and any number of resumes.                                       *)
(***************************************************************************)
EXTENDS Census, ProofLibrary, SequenceTheorems, TLAPS

-----------------------------------------------------------------------------
(* Type correctness.                                                       *)

\* The fields of a well-typed state, one by one.
LEMMA StateFields ==
  ASSUME NEW s \in CensusStates
  PROVE  /\ s.limits \in CensusLimits
         /\ s.cursor \in Nat /\ s.candidates \in Nat
         /\ s.accepted_modules \in Nat /\ s.rejected_candidates \in Nat
         /\ s.isomorphism_checks \in Nat /\ s.work_units \in Nat
         /\ s.representatives \in Seq(Nat)
         /\ s.assignments \in Seq([cursor : Nat, representative : Nat])
BY DEF CensusStates

\* A prefix is replayed under well-typed limits.
LEMMA ReplayLimitsType ==
  ASSUME NEW o \in Outcomes
  PROVE  ReplayLimits(o) \in CensusLimits
BY StateFields DEF Outcomes, CensusLimits, ReplayLimits

\* The initial state of an enumeration is well typed.
LEMMA EmptyType ==
  ASSUME NEW l \in CensusLimits
  PROVE  Empty(l) \in CensusStates
BY DEF Empty, CensusStates

VarTypes ==
  /\ limits \in CensusLimits
  /\ cursor \in Nat /\ candidates \in Nat
  /\ accepted_modules \in Nat /\ rejected_candidates \in Nat
  /\ isomorphism_checks \in Nat /\ work_units \in Nat
  /\ representatives \in Seq(Nat)
  /\ assignments \in Seq([cursor : Nat, representative : Nat])

\* The live state is well typed when its variables are.
LEMMA StateTypes == State \in CensusStates <=> VarTypes
BY DEF State, CensusStates, VarTypes

\* The same after a step.
LEMMA StateTypesNext == State' \in CensusStates <=> VarTypes'
BY DEF State, CensusStates, VarTypes

\* Returning an outcome keeps the types.
LEMMA ReturnType ==
  ASSUME TypeOK, NEW kind \in {"complete", "cut", "failed"},
         NEW reason \in MidCandidateReasons \cup BoundaryReasons \cup {"none"},
         work_units' \in Nat, isomorphism_checks' \in Nat,
         Return(kind, reason),
         progress' \in [stage : {"census", "complete"}, completed_work : Nat,
                        reserved_work : Nat]
  PROVE  TypeOK'
<1>1. State' \in CensusStates
  BY StateTypes, StateTypesNext DEF TypeOK, VarTypes, Return, committed, counts, request
<1>2. Outcome(kind, reason, State') \in Outcomes
  BY <1>1 DEF Outcome, Outcomes
<1>3. held' \in Outcomes /\ verdict' \in {"none", "accepted", "rejected"}
  BY <1>2 DEF Return, TypeOK
<1>. QED
  BY <1>1, <1>3 DEF TypeOK, Return, request, locals, history

\* A published snapshot is well typed.
LEMMA PublishType ==
  ASSUME TypeOK, NEW stage \in {"census", "complete"}, Publish(stage),
         work_units' \in Nat
  PROVE  progress' \in [stage : {"census", "complete"}, completed_work : Nat,
                        reserved_work : Nat]
<1>1. limits.max_work_units \in Nat
  BY StateTypes DEF TypeOK, VarTypes, CensusLimits
<1>. QED
  BY <1>1 DEF Publish, TypeOK

\* So does cutting, and going on to the next candidate.
LEMMA CutType ==
  ASSUME TypeOK, NEW reason \in MidCandidateReasons \cup BoundaryReasons, Cut(reason),
         work_units' \in Nat, isomorphism_checks' \in Nat
  PROVE  TypeOK'
BY ReturnType, PublishType DEF Cut

\* Going on with the enumeration keeps the types.
LEMMA ContinueType ==
  ASSUME TypeOK, Continue,
         work_units' \in Nat, isomorphism_checks' \in Nat,
         accepted_modules' \in Nat, rejected_candidates' \in Nat,
         representatives' \in Seq(Nat),
         assignments' \in Seq([cursor : Nat, representative : Nat])
  PROVE  TypeOK'
<1>1. VarTypes
  BY StateTypes DEF TypeOK
<1>2. VarTypes'
  BY <1>1 DEF VarTypes, Continue, request
<1>3. progress' \in [stage : {"census", "complete"}, completed_work : Nat,
                     reserved_work : Nat]
  BY PublishType DEF Continue
<1>. QED
  BY <1>2, <1>3, StateTypesNext DEF TypeOK, Continue, request, locals, history

\* The first state is well typed.
LEMMA InitType == Init => TypeOK
<1>. SUFFICES ASSUME Init PROVE TypeOK
  OBVIOUS
<1>1. limits \in CensusLimits /\ limits.max_work_units \in Nat
  BY LimitsAssumption DEF Init, CensusLimits
<1>2. State \in CensusStates
  BY <1>1, StateTypes DEF Init, VarTypes
<1>3. held \in Outcomes
  BY <1>1, EmptyType DEF Init, Outcome, Outcomes
<1>4. progress \in [stage : {"census", "complete"}, completed_work : Nat,
                    reserved_work : Nat]
  BY <1>1 DEF Init
<1>5. saved \in [work_units : Nat, isomorphism_checks : Nat]
  BY DEF Init
<1>6. cancelled \in BOOLEAN /\ lowered \in BOOLEAN
  BY Zenon DEF Init
<1>7. /\ domain \in Domains /\ pc \in {"idle", "loop", "compare"}
      /\ representative \in Nat \ {0} /\ purpose \in {"run", "replay"}
      /\ verdict \in {"none", "accepted", "rejected"}
      /\ resumes \in Nat /\ redone \in Nat
  BY DEF Init
<1>. QED
  BY <1>2, <1>3, <1>4, <1>5, <1>6, <1>7, Zenon DEF TypeOK

\* Every step keeps the types.
LEMMA NextType == TypeOK /\ [Next]_vars => TypeOK'
<1>. SUFFICES ASSUME TypeOK, [Next]_vars PROVE TypeOK'
  OBVIOUS
<1>. USE DEF spent
<1>1. VarTypes
  BY StateTypes DEF TypeOK
<1>2. CASE LoopStep
  <2>1. CASE Finish
    BY <1>1, <2>1, ReturnType, PublishType DEF Finish, VarTypes
  <2>2. CASE ObserveCancellation
    <3>1. "cancelled" \in BoundaryReasons
      BY DEF BoundaryReasons
    <3>. QED
      BY <1>1, <2>2, <3>1, ReturnType DEF ObserveCancellation, VarTypes, TypeOK
  <2>3. CASE CutAtCandidateLimit
    BY <1>1, <2>3, CutType DEF CutAtCandidateLimit, VarTypes, BoundaryReasons
  <2>4. CASE CutAtCandidateWork
    BY <1>1, <2>4, CutType DEF CutAtCandidateWork, VarTypes, BoundaryReasons
  <2>5. CASE RejectCandidate
    BY <1>1, <2>5, ContinueType
       DEF RejectCandidate, CommitRejected, ReserveWork, VarTypes
  <2>6. CASE FailConstruction
    BY <1>1, <2>6, ReturnType, PublishType DEF FailConstruction, VarTypes
  <2>7. CASE BeginComparisons
    <3>1. VarTypes'
      BY <1>1, <2>7
         DEF BeginComparisons, ReserveWork, VarTypes, request, committed, counts
    <3>. QED
      BY <1>1, <2>7, <3>1, StateTypesNext
         DEF BeginComparisons, TypeOK, VarTypes, request, history
  <2>. QED
    BY <1>2, <2>1, <2>2, <2>3, <2>4, <2>5, <2>6, <2>7 DEF LoopStep
<1>3. CASE CompareStep
  <2>1. CASE CutAtIsomorphismLimit
    BY <1>1, <2>1, CutType DEF CutAtIsomorphismLimit, VarTypes, MidCandidateReasons
  <2>2. CASE CutAtIsomorphismWork
    BY <1>1, <2>2, CutType DEF CutAtIsomorphismWork, VarTypes, MidCandidateReasons
  <2>3. CASE FailComparison
    BY <1>1, <2>3, ReturnType, PublishType DEF FailComparison, VarTypes, TypeOK
  <2>4. CASE NextRepresentative
    <3>1. VarTypes'
      BY <1>1, <2>4
         DEF NextRepresentative, ChargeComparison, VarTypes, request, committed, counts
    <3>. QED
      BY <1>1, <2>4, <3>1, StateTypesNext
         DEF NextRepresentative, TypeOK, VarTypes, request, history
  <2>5. CASE CutAtUnknown
    BY <1>1, <2>5, CutType
       DEF CutAtUnknown, ChargeComparison, VarTypes, MidCandidateReasons
  <2>6. CASE DropDuplicate
    BY <1>1, <2>6, ContinueType
       DEF DropDuplicate, CommitAccepted, ChargeComparison, VarTypes
  <2>7. CASE CutAtAssignmentLimit
    BY <1>1, <2>7, CutType
       DEF CutAtAssignmentLimit, ChargeComparison, VarTypes, MidCandidateReasons
  <2>8. CASE AssignDuplicate
    BY <1>1, <2>8, ContinueType
       DEF AssignDuplicate, CommitAccepted, ChargeComparison, VarTypes, TypeOK
  <2>9. CASE CutAtRepresentativeLimit
    BY <1>1, <2>9, CutType DEF CutAtRepresentativeLimit, VarTypes, MidCandidateReasons
  <2>10. CASE KeepRepresentative
    BY <1>1, <2>10, ContinueType DEF KeepRepresentative, CommitAccepted, VarTypes
  <2>. QED
    BY <1>3, <2>1, <2>2, <2>3, <2>4, <2>5, <2>6, <2>7, <2>8, <2>9, <2>10
       DEF CompareStep
<1>4. CASE Cancel
  BY <1>1, <1>4, StateTypesNext
     DEF Cancel, TypeOK, VarTypes, request, committed, counts, locals, history
<1>5. CASE Verify
  <2>1. ReplayLimits(held) \in CensusLimits
    BY ReplayLimitsType DEF TypeOK
  <2>2. VarTypes'
    BY <1>5, <2>1 DEF Verify, Load, Empty, VarTypes
  <2>. QED
    BY <1>5, <2>2, StateTypesNext DEF Verify, Load, TypeOK, locals, history
<1>6. CASE Resume
  <2>1. held.state \in CensusStates
    BY DEF TypeOK, Outcomes
  <2>2. limits' \in CensusLimits
    BY <1>6, LimitsAssumption DEF Resume
  <2>3. VarTypes'
    BY <1>6, <2>1, <2>2, StateFields DEF Resume, Load, VarTypes
  <2>4. progress' \in [stage : {"census", "complete"}, completed_work : Nat,
                       reserved_work : Nat]
    BY <1>6, <2>1, <2>2, StateFields DEF Resume, CensusLimits
  <2>5. lowered' \in BOOLEAN /\ redone' \in Nat /\ resumes' \in Nat
    BY <1>6 DEF Resume, TypeOK
  <2>. QED
    BY <1>6, <2>3, <2>4, <2>5, StateTypesNext DEF Resume, Load, TypeOK, locals
<1>7. CASE UNCHANGED vars
  BY <1>1, <1>7, StateTypesNext
     DEF vars, TypeOK, VarTypes, request, committed, counts, locals, history
<1>. QED
  BY <1>2, <1>3, <1>4, <1>5, <1>6, <1>7 DEF Next, Engine

\* The census engine never leaves its types.
THEOREM TypeCorrect == Spec => []TypeOK
<1>1. Init => TypeOK
  BY InitType
<1>2. TypeOK /\ [Next]_vars => TypeOK'
  BY NextType
<1>. QED
  BY <1>1, <1>2, PTL DEF Spec

-----------------------------------------------------------------------------
(* Classification.  A state is sound when its counters describe its        *)
(* records and its records classify the prefix.  The live state and the    *)
(* held one are sound together, because replay and resume exchange them;   *)
(* while a candidate is being compared, it differs from every              *)
(* representative it has been compared with.                               *)

Sound(s) == VerifyStateData(s) /\ Classified(s)

ComparePoint ==
  pc = "compare" =>
    /\ cursor < domain.size
    /\ IsModule(cursor)
    /\ representative <= Len(representatives) + 1
    /\ \A i \in 1 .. representative - 1 : ~SameClass(cursor, representatives[i])

ClassInv == Sound(State) /\ Sound(held.state) /\ ComparePoint

(***************************************************************************)
(* What the definition of Sound says about the variables of the live       *)
(* state, in four parts that the steps disturb separately.                 *)
(***************************************************************************)
CountVars ==
  /\ cursor <= domain.size
  /\ candidates = cursor
  /\ candidates = accepted_modules + rejected_candidates
  /\ limits.retention = "all_assignments" =>
       accepted_modules = Len(representatives) + Len(assignments)
  /\ limits.retention # "all_assignments" =>
       assignments = <<>> /\ accepted_modules >= Len(representatives)

FirstSeenVars ==
  \A i \in 1 .. Len(representatives) :
     /\ representatives[i] < cursor
     /\ IsModule(representatives[i])
     /\ \A c \in 0 .. representatives[i] - 1 :
          IsModule(c) => ~SameClass(c, representatives[i])

PrefixVars ==
  \A c \in 0 .. cursor - 1 :
     /\ domain.build[c] # "construction_error"
     /\ IsModule(c) => \E i \in 1 .. Len(representatives) :
                          SameClass(c, representatives[i])

AssignmentVars ==
  \A i \in 1 .. Len(assignments) :
     /\ assignments[i].representative \in 1 .. Len(representatives)
     /\ representatives[assignments[i].representative] < assignments[i].cursor
     /\ assignments[i].cursor < cursor
     /\ IsModule(assignments[i].cursor)
     /\ SameClass(assignments[i].cursor,
                  representatives[assignments[i].representative])

SoundVars == CountVars /\ FirstSeenVars /\ PrefixVars /\ AssignmentVars

\* Soundness of the live state, variable by variable.
LEMMA SoundState == Sound(State) <=> SoundVars
BY SMTT(30) DEF State, Sound, VerifyStateData, Classified, RepresentativesAreFirstSeen,
       EveryModuleIsClassified, AssignmentsAreCorrect,
       SoundVars, CountVars, FirstSeenVars, PrefixVars, AssignmentVars

\* The same after a step.
LEMMA SoundStateNext == Sound(State)' <=> SoundVars'
BY SMTT(30) DEF State, Sound, VerifyStateData, Classified, RepresentativesAreFirstSeen,
       EveryModuleIsClassified, AssignmentsAreCorrect,
       SoundVars, CountVars, FirstSeenVars, PrefixVars, AssignmentVars

\* What the caller holds stays sound while it is left alone.
LEMMA HeldSound ==
  ASSUME ClassInv, held' = held, domain' = domain
  PROVE  Sound(held.state)'
BY DEF ClassInv, Sound, VerifyStateData, Classified, RepresentativesAreFirstSeen,
       EveryModuleIsClassified, AssignmentsAreCorrect, IsModule, SameClass

\* An enumeration starts sound.
LEMMA EmptySound ==
  ASSUME TypeOK, NEW l \in CensusLimits
  PROVE  Sound(Empty(l))
<1>1. domain.size \in Nat
  BY DomainsAssumption DEF TypeOK, IsDomain
<1>. QED
  BY <1>1 DEF Sound, Empty, VerifyStateData, Classified, RepresentativesAreFirstSeen,
              EveryModuleIsClassified, AssignmentsAreCorrect

\* Returning commits nothing.
LEMMA ReturnSound ==
  ASSUME TypeOK, ClassInv, NEW kind, NEW reason, Return(kind, reason)
  PROVE  ClassInv'
<1>1. domain' = domain /\ pc' = "idle"
  BY DEF Return, request
<1>2. SoundVars'
  <2>1. SoundVars
    BY SoundState DEF ClassInv
  <2>. QED
    BY <2>1 DEF SoundVars, CountVars, FirstSeenVars, PrefixVars, AssignmentVars,
                IsModule, SameClass, Return, request, committed, counts
<1>3. Sound(State)'
  BY <1>2, SoundStateNext
<1>4. Sound(held.state)'
  <2>1. CASE purpose = "run"
    BY <2>1, <1>3 DEF Return, Outcome
  <2>2. CASE purpose # "run"
    BY <2>2, <1>1, HeldSound DEF Return
  <2>. QED
    BY <2>1, <2>2
<1>. QED
  BY <1>1, <1>3, <1>4 DEF ClassInv, ComparePoint

\* The facts every commit step starts from: the parts of the invariant, and the numbers
\* in them as plain facts, so that no leaf has to look into the sequences' types.
Numbers ==
  /\ cursor \in Nat /\ candidates \in Nat
  /\ accepted_modules \in Nat /\ rejected_candidates \in Nat
  /\ Len(representatives) \in Nat /\ Len(assignments) \in Nat
  /\ \A i \in 1 .. Len(representatives) : representatives[i] \in Nat
  /\ \A i \in 1 .. Len(assignments) : assignments[i].cursor \in Nat

\* What the invariant says of the state while the loop runs.
LEMMA LoopFacts ==
  ASSUME TypeOK, ClassInv
  PROVE  /\ CountVars /\ FirstSeenVars /\ PrefixVars /\ AssignmentVars
         /\ Numbers
         /\ domain.size \in Nat
         /\ CertifiedComparison(domain)
<1>1. SoundVars /\ VarTypes
  BY SoundState, StateTypes DEF ClassInv, TypeOK
<1>2. domain.size \in Nat /\ CertifiedComparison(domain)
  BY DomainsAssumption DEF TypeOK, IsDomain
<1>3. Numbers
  <2>1. \A i \in 1 .. Len(assignments) : assignments[i].cursor \in Nat
    <3>. DEFINE Assignment == [cursor : Nat, representative : Nat]
    <3>. SUFFICES ASSUME NEW i \in 1 .. Len(assignments)
         PROVE  assignments[i].cursor \in Nat
      OBVIOUS
    <3>1. assignments \in Seq(Assignment)
      BY <1>1 DEF VarTypes
    <3>. HIDE DEF Assignment
    <3>2. assignments[i] \in Assignment
      BY <3>1, ElementOfSeq
    <3>. QED
      BY <3>2 DEF Assignment
  <2>2. \A i \in 1 .. Len(representatives) : representatives[i] \in Nat
    BY <1>1, ElementOfSeq DEF VarTypes
  <2>3. Len(representatives) \in Nat /\ Len(assignments) \in Nat
    BY <1>1, LenProperties DEF VarTypes
  <2>4. /\ cursor \in Nat /\ candidates \in Nat
        /\ accepted_modules \in Nat /\ rejected_candidates \in Nat
    BY <1>1 DEF VarTypes
  <2>. QED
    BY <2>1, <2>2, <2>3, <2>4 DEF Numbers
<1>. QED
  BY <1>1, <1>2, <1>3 DEF SoundVars

\* What a commit does to the counters.
LEMMA CountStep ==
  ASSUME Numbers, CountVars, domain.size \in Nat, cursor # domain.size,
         domain' = domain, limits' = limits,
         cursor' = cursor + 1, candidates' = candidates + 1,
         \/ /\ rejected_candidates' = rejected_candidates + 1
            /\ accepted_modules' = accepted_modules
            /\ assignments' = assignments
            /\ Len(representatives') = Len(representatives)
         \/ /\ rejected_candidates' = rejected_candidates
            /\ accepted_modules' = accepted_modules + 1
            /\ \/ /\ Len(representatives') = Len(representatives) + 1
                  /\ assignments' = assignments
               \/ /\ Len(representatives') = Len(representatives)
                  /\ limits.retention = "all_assignments"
                  /\ Len(assignments') = Len(assignments) + 1
               \/ /\ Len(representatives') = Len(representatives)
                  /\ limits.retention # "all_assignments"
                  /\ assignments' = assignments
  PROVE  CountVars'
<1>. USE DEF Numbers
<1>1. cursor' <= domain'.size /\ candidates' = cursor'
  <2>1. cursor <= domain.size /\ candidates = cursor /\ cursor \in Nat
    BY DEF CountVars
  <2>. QED
    BY <2>1
<1>2. candidates' = accepted_modules' + rejected_candidates'
  BY DEF CountVars
<1>3. limits'.retention = "all_assignments" =>
        accepted_modules' = Len(representatives') + Len(assignments')
  BY DEF CountVars
<1>4. limits'.retention # "all_assignments" =>
        assignments' = <<>> /\ accepted_modules' >= Len(representatives')
  BY DEF CountVars
<1>. QED
  BY <1>1, <1>2, <1>3, <1>4 DEF CountVars

\* Rejecting the candidate at the cursor keeps the prefix classified.
LEMMA RejectSound ==
  ASSUME TypeOK, ClassInv, RejectCandidate
  PROVE  ClassInv'
<1>1. /\ domain' = domain /\ held' = held /\ pc' = "loop" /\ limits' = limits
      /\ cursor' = cursor + 1 /\ candidates' = candidates + 1
      /\ rejected_candidates' = rejected_candidates + 1
      /\ accepted_modules' = accepted_modules
      /\ representatives' = representatives /\ assignments' = assignments
  BY DEF RejectCandidate, CommitRejected, Continue, request
<1>2. /\ CountVars /\ FirstSeenVars /\ PrefixVars /\ AssignmentVars /\ Numbers
      /\ domain.size \in Nat
  BY LoopFacts
<1>3. cursor # domain.size /\ domain.build[cursor] = "relation_acts_nonzero"
  BY DEF RejectCandidate, Built, Processing, Complete
<1>4. CountVars'
  BY <1>1, <1>2, <1>3, CountStep
<1>5. FirstSeenVars'
  BY <1>1, <1>2 DEF FirstSeenVars, Numbers, IsModule, SameClass
<1>6. PrefixVars'
  <2>1. SUFFICES ASSUME NEW c \in (0 .. cursor - 1)'
                 PROVE  (/\ domain.build[c] # "construction_error"
                         /\ IsModule(c) => \E i \in 1 .. Len(representatives) :
                                              SameClass(c, representatives[i]))'
    BY DEF PrefixVars
  <2>2. c \in 0 .. cursor
    BY <1>1, <1>2 DEF Numbers
  <2>3. CASE c = cursor
    BY <1>1, <1>3, <2>3 DEF IsModule
  <2>4. CASE c # cursor
    <3>1. c \in 0 .. cursor - 1
      BY <1>2, <2>4, <2>2 DEF Numbers
    <3>. QED
      BY <1>1, <1>2, <3>1 DEF PrefixVars, IsModule, SameClass
  <2>. QED
    BY <2>3, <2>4
<1>7. AssignmentVars'
  BY <1>1, <1>2, SMTT(30) DEF AssignmentVars, Numbers, IsModule, SameClass
<1>. QED
  BY <1>1, <1>4, <1>5, <1>6, <1>7, SoundStateNext, HeldSound
     DEF ClassInv, ComparePoint, SoundVars

\* Every comparison is between candidates of the domain, and is certified.
LEMMA ComparedClasses ==
  ASSUME TypeOK, ClassInv, Comparing
  PROVE  /\ representative \in 1 .. Len(representatives)
         /\ LET r == representatives[representative]
            IN /\ r \in Nat /\ r < cursor
               /\ domain.compare[<<cursor, r>>] = "isomorphic" => SameClass(cursor, r)
               /\ domain.compare[<<cursor, r>>] = "not_isomorphic" =>
                    ~SameClass(cursor, r)
<1>. DEFINE r == representatives[representative]
<1>1. FirstSeenVars /\ Numbers /\ domain.size \in Nat /\ CertifiedComparison(domain)
  BY LoopFacts
<1>2. representative \in 1 .. Len(representatives)
  BY <1>1 DEF Comparing, TypeOK, Numbers
<1>3. r \in Nat /\ r < cursor
  BY <1>1, <1>2 DEF FirstSeenVars, Numbers
<1>4. cursor < domain.size
  BY DEF ClassInv, ComparePoint, Comparing
<1>5. cursor \in Candidates(domain) /\ r \in Candidates(domain)
  BY <1>1, <1>3, <1>4 DEF Candidates, Numbers
<1>. QED
  BY <1>1, <1>2, <1>3, <1>5 DEF CertifiedComparison, SameClass

\* An accepted candidate that shares the class of a representative extends the prefix.
LEMMA PrefixStep ==
  ASSUME Numbers, PrefixVars, IsModule(cursor), cursor' = cursor + 1, domain' = domain,
         Len(representatives') \in Nat,
         Len(representatives') >= Len(representatives),
         \A i \in 1 .. Len(representatives) : representatives'[i] = representatives[i],
         \E i \in 1 .. Len(representatives') : SameClass(cursor, representatives'[i])
  PROVE  PrefixVars'
<1>. SUFFICES ASSUME NEW c \in 0 .. cursor'- 1
     PROVE  /\ domain.build[c] # "construction_error"
            /\ IsModule(c) => \E i \in 1 .. Len(representatives') :
                                 SameClass(c, representatives'[i])
  BY DEF PrefixVars, IsModule, SameClass
<1>1. CASE c = cursor
  BY <1>1 DEF IsModule
<1>2. CASE c # cursor
  <2>1. c \in 0 .. cursor - 1
    BY <1>2 DEF Numbers
  <2>2. ASSUME IsModule(c)
        PROVE  \E i \in 1 .. Len(representatives') : SameClass(c, representatives'[i])
    <3>1. PICK i \in 1 .. Len(representatives) : SameClass(c, representatives[i])
      BY <2>1, <2>2 DEF PrefixVars
    <3>2. i \in 1 .. Len(representatives') /\ representatives'[i] = representatives[i]
      BY <3>1 DEF Numbers
    <3>. QED
      BY <3>1, <3>2
  <2>. QED
    BY <2>1, <2>2 DEF PrefixVars
<1>. QED
  BY <1>1, <1>2

\* Accepting a duplicate keeps the prefix classified, with or without its record.
LEMMA DuplicateSound ==
  ASSUME TypeOK, ClassInv, DropDuplicate \/ AssignDuplicate
  PROVE  ClassInv'
<1>1. /\ domain' = domain /\ held' = held /\ pc' = "loop" /\ limits' = limits
      /\ cursor' = cursor + 1 /\ candidates' = candidates + 1
      /\ rejected_candidates' = rejected_candidates
      /\ accepted_modules' = accepted_modules + 1
      /\ representatives' = representatives
  BY DEF DropDuplicate, AssignDuplicate, CommitAccepted, Continue, request
<1>2. /\ CountVars /\ FirstSeenVars /\ PrefixVars /\ AssignmentVars /\ Numbers
      /\ domain.size \in Nat
  BY LoopFacts
<1>3. Compared("isomorphic") /\ pc = "compare"
  BY DEF DropDuplicate, AssignDuplicate, Compared, Comparing
<1>4. IsModule(cursor) /\ cursor < domain.size
  BY <1>3 DEF ClassInv, ComparePoint
<1>5. /\ representative \in 1 .. Len(representatives)
      /\ representatives[representative] < cursor
      /\ SameClass(cursor, representatives[representative])
  BY <1>3, ComparedClasses DEF Compared
<1>6. \/ assignments' = assignments /\ limits.retention # "all_assignments"
      \/ /\ assignments' = Append(assignments, [cursor |-> cursor,
                                                representative |-> representative])
         /\ limits.retention = "all_assignments"
  BY DEF DropDuplicate, AssignDuplicate
<1>7. ASSUME assignments' = assignments /\ limits.retention # "all_assignments"
      PROVE  CountVars' /\ AssignmentVars'
  <2>1. CountVars'
    BY <1>1, <1>2, <1>4, <1>7, CountStep
  <2>2. AssignmentVars'
    BY <1>1, <1>2, <1>7 DEF AssignmentVars, Numbers, IsModule, SameClass
  <2>. QED
    BY <2>1, <2>2
<1>8. ASSUME assignments' = Append(assignments, [cursor |-> cursor,
                                                 representative |-> representative]),
             limits.retention = "all_assignments"
      PROVE  CountVars' /\ AssignmentVars'
  <2>1. /\ Len(assignments') = Len(assignments) + 1
        /\ \A i \in 1 .. Len(assignments) : assignments'[i] = assignments[i]
        /\ assignments'[Len(assignments) + 1] = [cursor |-> cursor,
                                                 representative |-> representative]
    BY <1>8, StateTypes DEF TypeOK, VarTypes
  <2>2. CountVars'
    BY <1>1, <1>2, <1>4, <1>8, <2>1, CountStep
  <2>3. AssignmentVars'
    <3>. SUFFICES ASSUME NEW i \in 1 .. Len(assignments')
         PROVE  LET a == assignments'[i]
                IN /\ a.representative \in 1 .. Len(representatives)
                   /\ representatives[a.representative] < a.cursor
                   /\ a.cursor < cursor + 1
                   /\ IsModule(a.cursor)
                   /\ SameClass(a.cursor, representatives[a.representative])
      BY <1>1 DEF AssignmentVars, IsModule, SameClass
    <3>1. CASE i \in 1 .. Len(assignments)
      BY <3>1, <1>2, <2>1 DEF AssignmentVars, Numbers
    <3>2. CASE i = Len(assignments) + 1
      BY <3>2, <1>2, <1>4, <1>5, <2>1 DEF Numbers
    <3>. QED
      BY <3>1, <3>2, <1>2, <2>1 DEF Numbers
  <2>. QED
    BY <2>2, <2>3
<1>9. CountVars' /\ AssignmentVars'
  BY <1>6, <1>7, <1>8
<1>10. FirstSeenVars'
  BY <1>1, <1>2 DEF FirstSeenVars, Numbers, IsModule, SameClass
<1>11. PrefixVars'
  BY <1>1, <1>2, <1>4, <1>5, PrefixStep DEF Numbers
<1>. QED
  BY <1>1, <1>9, <1>10, <1>11, SoundStateNext, HeldSound
     DEF ClassInv, ComparePoint, SoundVars

\* A candidate that differs from every representative is the first of its class.
LEMMA KeepSound ==
  ASSUME TypeOK, ClassInv, KeepRepresentative
  PROVE  ClassInv'
<1>1. /\ domain' = domain /\ held' = held /\ pc' = "loop" /\ limits' = limits
      /\ cursor' = cursor + 1 /\ candidates' = candidates + 1
      /\ rejected_candidates' = rejected_candidates
      /\ accepted_modules' = accepted_modules + 1
      /\ assignments' = assignments
      /\ representatives' = Append(representatives, cursor)
  BY DEF KeepRepresentative, CommitAccepted, Continue, request
<1>2. /\ CountVars /\ FirstSeenVars /\ PrefixVars /\ AssignmentVars /\ Numbers
      /\ domain.size \in Nat
  BY LoopFacts
<1>3. pc = "compare" /\ representative > Len(representatives)
  BY DEF KeepRepresentative, AllCompared
<1>4. /\ IsModule(cursor) /\ cursor < domain.size
      /\ \A i \in 1 .. Len(representatives) : ~SameClass(cursor, representatives[i])
  BY <1>2, <1>3 DEF ClassInv, ComparePoint, TypeOK, Numbers
<1>5. /\ Len(representatives') = Len(representatives) + 1
      /\ \A i \in 1 .. Len(representatives) : representatives'[i] = representatives[i]
      /\ representatives'[Len(representatives) + 1] = cursor
  BY <1>1, StateTypes DEF TypeOK, VarTypes
<1>6. CountVars'
  BY <1>1, <1>2, <1>4, <1>5, CountStep
<1>7. FirstSeenVars'
  <2>. SUFFICES ASSUME NEW i \in 1 .. Len(representatives')
       PROVE  /\ representatives'[i] < cursor + 1
              /\ IsModule(representatives'[i])
              /\ \A c \in 0 .. representatives'[i] - 1 :
                   IsModule(c) => ~SameClass(c, representatives'[i])
    BY <1>1 DEF FirstSeenVars, IsModule, SameClass
  <2>1. CASE i \in 1 .. Len(representatives)
    BY <2>1, <1>2, <1>5 DEF FirstSeenVars, Numbers
  <2>2. CASE i = Len(representatives) + 1
    <3>1. \A c \in 0 .. cursor - 1 : IsModule(c) => ~SameClass(c, cursor)
      BY <1>2, <1>4 DEF PrefixVars, SameClass
    <3>. QED
      BY <2>2, <3>1, <1>2, <1>4, <1>5 DEF Numbers
  <2>. QED
    BY <2>1, <2>2, <1>2, <1>5 DEF Numbers
<1>8. PrefixVars'
  <2>1. SameClass(cursor, representatives'[Len(representatives) + 1])
    BY <1>5 DEF SameClass
  <2>2. /\ Len(representatives') \in Nat /\ Len(representatives') >= Len(representatives)
        /\ Len(representatives) + 1 \in 1 .. Len(representatives')
    BY <1>2, <1>5 DEF Numbers
  <2>. QED
    BY <1>1, <1>2, <1>4, <1>5, <2>1, <2>2, PrefixStep
<1>9. AssignmentVars'
  BY <1>1, <1>2, <1>5, SMTT(30) DEF AssignmentVars, Numbers, IsModule, SameClass
<1>. QED
  BY <1>1, <1>6, <1>7, <1>8, <1>9, SoundStateNext, HeldSound
     DEF ClassInv, ComparePoint, SoundVars

\* The caller's steps exchange the live state and the held one.
LEMMA VerifySound ==
  ASSUME TypeOK, ClassInv, Verify
  PROVE  ClassInv'
<1>1. ReplayLimits(held) \in CensusLimits
  BY ReplayLimitsType DEF TypeOK
<1>2. Sound(Empty(ReplayLimits(held)))
  BY <1>1, EmptySound
<1>3. State' = Empty(ReplayLimits(held)) /\ domain' = domain /\ held' = held
  BY DEF State, Verify, Load, Empty
<1>4. Sound(State)'
  BY <1>2, <1>3 DEF Sound, VerifyStateData, Classified, RepresentativesAreFirstSeen,
                    EveryModuleIsClassified, AssignmentsAreCorrect, IsModule, SameClass
<1>. QED
  BY <1>3, <1>4, HeldSound DEF ClassInv, ComparePoint, Verify, Load

\* A resume takes up a sound state.
LEMMA ResumeSound ==
  ASSUME TypeOK, ClassInv, Resume
  PROVE  ClassInv'
<1>1. /\ domain' = domain /\ held' = held /\ pc' = "loop"
      /\ limits'.retention = held.state.limits.retention
      /\ cursor' = held.state.cursor
      /\ candidates' = held.state.candidates
      /\ accepted_modules' = held.state.accepted_modules
      /\ rejected_candidates' = held.state.rejected_candidates
      /\ representatives' = held.state.representatives
      /\ assignments' = held.state.assignments
  BY DEF Resume, Load
<1>2. VerifyStateData(held.state) /\ Classified(held.state)
  BY DEF ClassInv, Sound
<1>3. CountVars'
  BY <1>1, <1>2 DEF CountVars, VerifyStateData
<1>4. FirstSeenVars' /\ PrefixVars' /\ AssignmentVars'
  BY <1>1, <1>2
     DEF Classified, RepresentativesAreFirstSeen, EveryModuleIsClassified,
         AssignmentsAreCorrect, FirstSeenVars, PrefixVars, AssignmentVars,
         IsModule, SameClass
<1>. QED
  BY <1>1, <1>3, <1>4, SoundStateNext, HeldSound DEF ClassInv, ComparePoint, SoundVars

\* A step that commits nothing and leaves the caller's outcome alone only has to keep
\* the facts about the candidate in progress.
LEMMA CommitsNothing ==
  ASSUME TypeOK, ClassInv, UNCHANGED <<domain, limits, committed, held>>, ComparePoint'
  PROVE  ClassInv'
<1>1. SoundVars
  BY SoundState DEF ClassInv
<1>2. SoundVars'
  BY <1>1 DEF SoundVars, CountVars, FirstSeenVars, PrefixVars, AssignmentVars,
              IsModule, SameClass, committed, counts
<1>. QED
  BY <1>2, SoundStateNext, HeldSound DEF ClassInv

\* The invariant of the classes holds when an engine starts.
LEMMA ClassInvInit == Init => ClassInv
<1>. SUFFICES ASSUME Init PROVE ClassInv
  OBVIOUS
<1>1. TypeOK /\ limits \in CensusLimits
  BY InitType, LimitsAssumption DEF Init
<1>2. Sound(Empty(limits))
  BY <1>1, EmptySound
<1>3. State = Empty(limits) /\ held.state = Empty(limits) /\ pc = "loop"
  BY DEF Init, State, Empty, Outcome
<1>. QED
  BY <1>2, <1>3 DEF ClassInv, ComparePoint

\* Every step keeps it.
LEMMA ClassInvNext == TypeOK /\ ClassInv /\ [Next]_vars => ClassInv'
<1>. SUFFICES ASSUME TypeOK, ClassInv, [Next]_vars PROVE ClassInv'
  OBVIOUS
<1>1. CASE \E kind, reason : Return(kind, reason)
  BY <1>1, ReturnSound
<1>2. CASE LoopStep /\ ~ \E kind, reason : Return(kind, reason)
  <2>1. CASE RejectCandidate
    BY <2>1, RejectSound
  <2>2. CASE BeginComparisons
    <3>1. ComparePoint'
      <4>1. pc = "loop" /\ ~Complete /\ CountVars /\ Numbers /\ domain.size \in Nat
        BY <2>2, LoopFacts DEF BeginComparisons, Built, Processing
      <4>2. cursor < domain.size
        <5>1. cursor # domain.size /\ cursor <= domain.size /\ cursor \in Nat
          BY <4>1 DEF Complete, CountVars, Numbers
        <5>. QED
          BY <4>1, <5>1
      <4>3. Len(representatives) \in Nat
        BY <4>1 DEF Numbers
      <4>. QED
        BY <2>2, <4>2, <4>3
           DEF BeginComparisons, Built, ComparePoint, IsModule, SameClass,
               request, committed
    <3>. QED
      BY <2>2, <3>1, CommitsNothing DEF BeginComparisons, request
  <2>. QED
    BY <1>2, <2>1, <2>2
       DEF LoopStep, Cut, Finish, ObserveCancellation, CutAtCandidateLimit,
           CutAtCandidateWork, FailConstruction
<1>3. CASE CompareStep /\ ~ \E kind, reason : Return(kind, reason)
  <2>1. CASE NextRepresentative
    <3>1. ComparePoint'
      <4>. DEFINE r == representatives[representative]
      <4>1. /\ pc = "compare" /\ Comparing
            /\ domain.compare[<<cursor, r>>] = "not_isomorphic"
        BY <2>1 DEF NextRepresentative, Compared, Comparing
      <4>2. representative \in 1 .. Len(representatives) /\ ~SameClass(cursor, r)
        BY <4>1, ComparedClasses
      <4>3. /\ cursor < domain.size /\ IsModule(cursor)
            /\ \A i \in 1 .. representative - 1 :
                  ~SameClass(cursor, representatives[i])
        BY <4>1 DEF ClassInv, ComparePoint
      <4>4. Len(representatives) \in Nat
        BY LoopFacts DEF Numbers
      <4>5. \A i \in 1 .. representative : ~SameClass(cursor, representatives[i])
        BY <4>2, <4>3, <4>4
      <4>. QED
        BY <2>1, <4>2, <4>3, <4>4, <4>5
           DEF NextRepresentative, ComparePoint, IsModule, SameClass,
               request, committed
    <3>. QED
      BY <2>1, <3>1, CommitsNothing DEF NextRepresentative, request
  <2>2. CASE DropDuplicate \/ AssignDuplicate
    BY <2>2, DuplicateSound
  <2>3. CASE KeepRepresentative
    BY <2>3, KeepSound
  <2>. QED
    BY <1>3, <2>1, <2>2, <2>3
       DEF CompareStep, Cut, CutAtIsomorphismLimit, CutAtIsomorphismWork,
           FailComparison, CutAtUnknown, CutAtAssignmentLimit,
           CutAtRepresentativeLimit
<1>4. CASE Cancel
  BY <1>4, CommitsNothing
     DEF Cancel, ClassInv, ComparePoint, IsModule, SameClass, request, committed, locals
<1>5. CASE Verify
  BY <1>5, VerifySound
<1>6. CASE Resume
  BY <1>6, ResumeSound
<1>7. CASE UNCHANGED vars
  BY <1>7, CommitsNothing
     DEF vars, ClassInv, ComparePoint, IsModule, SameClass, request, committed, locals
<1>. QED
  BY <1>1, <1>2, <1>3, <1>4, <1>5, <1>6, <1>7 DEF Next, Engine

\* The inductive invariant of the classification holds throughout.
THEOREM SoundAlways == Spec => [](TypeOK /\ ClassInv)
<1>1. Init => TypeOK /\ ClassInv
  BY InitType, ClassInvInit
<1>2. TypeOK /\ ClassInv /\ [Next]_vars => TypeOK' /\ ClassInv'
  BY NextType, ClassInvNext
<1>. QED
  BY <1>1, <1>2, PTL DEF Spec

\* The counters of the live state and of the held outcome describe their records, for
\* any domain, any limits and any history of cuts, cancellations, failures and resumes.
THEOREM CountersCorrect == Spec => []CountersDescribeRecords
<1>1. ClassInv => CountersDescribeRecords
  BY DEF ClassInv, Sound, CountersDescribeRecords
<1>. QED
  BY <1>1, SoundAlways, PTL

\* Representatives are exactly the first-seen modules of their classes and every
\* committed candidate is classified, whatever was cut, failed, replayed or resumed.
THEOREM ClassificationCorrect == Spec => []PrefixIsClassified
<1>1. ClassInv => PrefixIsClassified
  BY DEF ClassInv, Sound, PrefixIsClassified
<1>. QED
  BY <1>1, SoundAlways, PTL

-----------------------------------------------------------------------------
(* The work ledger.  A failed comparison goes back to the saved totals,    *)
(* so they have to balance too.                                            *)

Redone == IF purpose = "run" THEN redone ELSE 0

SavedBalances ==
  pc = "compare" =>
    saved.work_units = candidates + saved.isomorphism_checks + Redone

LedgerInv == WorkLedger /\ SavedBalances

\* The counters of a well-typed state, as plain numbers.
LEMMA LiveNumbers ==
  ASSUME TypeOK
  PROVE  /\ candidates \in Nat /\ isomorphism_checks \in Nat /\ work_units \in Nat
         /\ saved.work_units \in Nat /\ saved.isomorphism_checks \in Nat
         /\ redone \in Nat /\ Redone \in Nat
BY StateTypes DEF TypeOK, VarTypes, Redone

\* What the ledger says of an enumeration under way.
LEMMA LiveLedger ==
  ASSUME TypeOK, LedgerInv
  PROVE  /\ pc = "loop" => work_units = candidates + isomorphism_checks + Redone
         /\ pc = "compare" =>
              /\ work_units = candidates + isomorphism_checks + 1 + Redone
              /\ saved.work_units = candidates + saved.isomorphism_checks + Redone
BY LiveNumbers
   DEF LedgerInv, WorkLedger, SavedBalances, Balanced, Pending, State, Redone

\* An outcome balances when the totals it is returned with do.
LEMMA ReturnLedger ==
  ASSUME TypeOK, LedgerInv, NEW kind, NEW reason, Return(kind, reason),
         isomorphism_checks' \in Nat,
         work_units' = candidates + isomorphism_checks'
                         + Pending(reason \in MidCandidateReasons) + Redone
  PROVE  LedgerInv'
<1>1. pc' = "idle" /\ purpose' = purpose /\ redone' = redone /\ candidates' = candidates
  BY DEF Return, request, history, committed, counts
<1>2. Balanced(held.state, Pending(held.reason \in MidCandidateReasons) + redone)'
  <2>1. CASE purpose = "run"
    <3>1. /\ held'.state.work_units = work_units'
          /\ held'.state.candidates = candidates
          /\ held'.state.isomorphism_checks = isomorphism_checks'
          /\ held'.reason = reason
      BY <1>1, <2>1 DEF Return, Outcome, State
    <3>2. Pending(reason \in MidCandidateReasons) \in Nat
      BY DEF Pending
    <3>3. candidates \in Nat /\ redone \in Nat /\ Redone = redone
      BY <2>1, LiveNumbers DEF Redone
    <3>. QED
      BY <1>1, <3>1, <3>2, <3>3 DEF Balanced
  <2>2. CASE purpose # "run"
    <3>1. held' = held /\ purpose = "replay"
      BY <2>2 DEF Return, TypeOK
    <3>. QED
      BY <1>1, <3>1 DEF LedgerInv, WorkLedger, Balanced
  <2>. QED
    BY <2>1, <2>2
<1>. QED
  BY <1>1, <1>2 DEF LedgerInv, WorkLedger, SavedBalances

\* The same for a commit.
LEMMA ContinueLedger ==
  ASSUME TypeOK, LedgerInv, Continue, pc # "idle",
         isomorphism_checks' \in Nat,
         work_units' = candidates + 1 + isomorphism_checks' + Redone
  PROVE  LedgerInv'
<1>1. /\ pc' = "loop" /\ purpose' = purpose /\ redone' = redone /\ held' = held
      /\ candidates' = candidates + 1
  BY DEF Continue, request, history
<1>2. Balanced(State, Pending(pc = "compare")
                        + (IF purpose = "run" THEN redone ELSE 0))'
  BY <1>1, LiveNumbers DEF Balanced, Pending, State, Redone
<1>. QED
  BY <1>1, <1>2 DEF LedgerInv, WorkLedger, SavedBalances, Balanced

\* The ledger of the work is balanced when an engine starts.
LEMMA LedgerInit == Init => LedgerInv
BY DEF Init, LedgerInv, WorkLedger, SavedBalances, Balanced, Pending, State

\* A step of the loop that compares nothing keeps it balanced.
LEMMA LoopLedger ==
  ASSUME TypeOK, LedgerInv, LoopStep
  PROVE  LedgerInv'
<1>. USE LiveNumbers, LiveLedger DEF spent
<1>1. pc = "loop" /\ pc # "idle"
  BY DEF LoopStep, Finish, ObserveCancellation, CutAtCandidateLimit,
         CutAtCandidateWork, RejectCandidate, FailConstruction, BeginComparisons,
         Built, Processing
<1>2. ASSUME NEW kind, NEW reason, reason \notin MidCandidateReasons,
             Return(kind, reason), UNCHANGED spent
      PROVE  LedgerInv'
  BY <1>1, <1>2, ReturnLedger DEF Pending
<1>3. /\ "none" \notin MidCandidateReasons /\ "cancelled" \notin MidCandidateReasons
      /\ "candidate_limit" \notin MidCandidateReasons
      /\ "work_limit_candidate" \notin MidCandidateReasons
  BY DEF MidCandidateReasons
<1>4. CASE RejectCandidate
  BY <1>1, <1>4, ContinueLedger DEF RejectCandidate, ReserveWork, CommitRejected
<1>5. CASE BeginComparisons
  <2>1. /\ pc' = "compare" /\ purpose' = purpose /\ redone' = redone /\ held' = held
        /\ candidates' = candidates /\ work_units' = work_units + 1
        /\ isomorphism_checks' = isomorphism_checks
        /\ saved'.work_units = work_units
        /\ saved'.isomorphism_checks = isomorphism_checks
    BY <1>5 DEF BeginComparisons, ReserveWork, request, history, committed, counts
  <2>2. Balanced(State, Pending(pc = "compare")
                          + (IF purpose = "run" THEN redone ELSE 0))'
    BY <1>1, <2>1 DEF Balanced, Pending, State, Redone
  <2>3. SavedBalances'
    BY <1>1, <2>1 DEF SavedBalances, Redone
  <2>. QED
    BY <1>1, <2>1, <2>2, <2>3 DEF LedgerInv, WorkLedger, Balanced
<1>. QED
  BY <1>2, <1>3, <1>4, <1>5
     DEF LoopStep, Cut, Finish, ObserveCancellation, CutAtCandidateLimit,
         CutAtCandidateWork, FailConstruction

\* So does a comparison.
LEMMA CompareLedger ==
  ASSUME TypeOK, LedgerInv, CompareStep
  PROVE  LedgerInv'
<1>. USE LiveNumbers, LiveLedger
<1>1. pc = "compare" /\ pc # "idle"
  BY DEF CompareStep, CutAtIsomorphismLimit, CutAtIsomorphismWork, FailComparison,
         NextRepresentative, CutAtUnknown, DropDuplicate, CutAtAssignmentLimit,
         AssignDuplicate, CutAtRepresentativeLimit, KeepRepresentative, Compared,
         Comparing, AllCompared
<1>2. ASSUME NEW reason \in MidCandidateReasons, Cut(reason),
             UNCHANGED spent \/ ChargeComparison
      PROVE  LedgerInv'
  <2>1. Pending(reason \in MidCandidateReasons) = 1
    BY <1>2 DEF Pending
  <2>. QED
    BY <1>1, <1>2, <2>1, ReturnLedger DEF Cut, spent, ChargeComparison
<1>3. CASE FailComparison
  <2>1. Pending("none" \in MidCandidateReasons) = 0
    BY DEF Pending, MidCandidateReasons
  <2>. QED
    BY <1>1, <1>3, <2>1, ReturnLedger DEF FailComparison
<1>4. ASSUME Continue, UNCHANGED spent \/ ChargeComparison
      PROVE  LedgerInv'
  BY <1>1, <1>4, ContinueLedger DEF spent, ChargeComparison
<1>5. CASE NextRepresentative
  <2>1. /\ pc' = "compare" /\ purpose' = purpose /\ redone' = redone /\ held' = held
        /\ candidates' = candidates /\ work_units' = work_units + 1
        /\ isomorphism_checks' = isomorphism_checks + 1 /\ saved' = saved
    BY <1>1, <1>5
       DEF NextRepresentative, ChargeComparison, request, history, committed, counts
  <2>2. Balanced(State, Pending(pc = "compare")
                          + (IF purpose = "run" THEN redone ELSE 0))'
    BY <1>1, <2>1 DEF Balanced, Pending, State, Redone
  <2>3. SavedBalances'
    BY <1>1, <2>1 DEF SavedBalances, Redone
  <2>. QED
    BY <1>1, <2>1, <2>2, <2>3 DEF LedgerInv, WorkLedger, Balanced
<1>. QED
  BY <1>2, <1>3, <1>4, <1>5
     DEF CompareStep, CutAtIsomorphismLimit, CutAtIsomorphismWork, CutAtUnknown,
         DropDuplicate, CutAtAssignmentLimit, AssignDuplicate,
         CutAtRepresentativeLimit, KeepRepresentative, CommitAccepted,
         MidCandidateReasons

\* Every step keeps the ledger balanced.
LEMMA LedgerNext == TypeOK /\ LedgerInv /\ [Next]_vars => LedgerInv'
<1>. SUFFICES ASSUME TypeOK, LedgerInv, [Next]_vars PROVE LedgerInv'
  OBVIOUS
<1>1. CASE Engine
  BY <1>1, LoopLedger, CompareLedger DEF Engine
<1>2. CASE Cancel \/ UNCHANGED vars
  <2>1. /\ UNCHANGED <<pc, purpose, redone, held, saved, candidates, work_units,
                       isomorphism_checks>>
    BY <1>2 DEF Cancel, vars, request, history, committed, counts, spent, locals
  <2>. QED
    BY <2>1 DEF LedgerInv, WorkLedger, SavedBalances, Balanced, State, Redone
<1>3. CASE Verify
  <2>1. /\ pc = "idle" /\ pc' = "loop" /\ purpose' = "replay"
        /\ redone' = redone /\ held' = held
        /\ candidates' = 0 /\ work_units' = 0 /\ isomorphism_checks' = 0
    BY <1>3 DEF Verify, Load, Empty, history
  <2>. QED
    BY <2>1 DEF LedgerInv, WorkLedger, SavedBalances, Balanced, Pending, State
<1>4. CASE Resume
  <2>1. /\ pc = "idle" /\ pc' = "loop" /\ purpose' = "run"
        /\ candidates' = held.state.candidates
        /\ work_units' = held.state.work_units
        /\ isomorphism_checks' = held.state.isomorphism_checks
        /\ redone' = redone + Pending(held.reason \in MidCandidateReasons)
    BY <1>4 DEF Resume, Load, Pending
  <2>2. /\ held.state.candidates \in Nat /\ held.state.isomorphism_checks \in Nat
        /\ redone \in Nat /\ Pending(held.reason \in MidCandidateReasons) \in Nat
    BY StateFields DEF TypeOK, Outcomes, Pending
  <2>3. held.state.work_units = held.state.candidates + held.state.isomorphism_checks
           + (Pending(held.reason \in MidCandidateReasons) + redone)
    BY <2>1 DEF LedgerInv, WorkLedger, Balanced
  <2>4. work_units' = candidates' + isomorphism_checks' + (0 + redone')
    BY <2>1, <2>2, <2>3
  <2>. QED
    BY <2>1, <2>4 DEF LedgerInv, WorkLedger, SavedBalances, Balanced, Pending, State
<1>. QED
  BY <1>1, <1>2, <1>3, <1>4 DEF Next

\* Every work unit is accounted for, in every enumeration, replay and outcome: one per
\* candidate, one per comparison, one for the candidate in progress and one for every
\* candidate that a resume charged again.
THEOREM WorkIsAccounted == Spec => []WorkLedger
<1>1. Init => LedgerInv
  BY LedgerInit
<1>2. TypeOK /\ LedgerInv /\ [Next]_vars => LedgerInv'
  BY LedgerNext
<1>3. LedgerInv => WorkLedger
  BY DEF LedgerInv
<1>. QED
  BY <1>1, <1>2, <1>3, TypeCorrect, PTL DEF Spec

-----------------------------------------------------------------------------
(* The ceilings.  A candidate is only begun below max_candidates, and a    *)
(* rollback never raises the totals.                                       *)

Bound == ~lowered \/ purpose = "replay"

BeganWithin ==
  pc = "compare" =>
    /\ candidates < limits.max_candidates
    /\ saved.work_units <= work_units
    /\ saved.isomorphism_checks <= isomorphism_checks

CeilingsInv == CeilingsHold /\ BeganWithin

\* WithinLimits of the live state, in two parts: what a commit and what a charge moves.
RecordsWithin ==
  /\ candidates <= limits.max_candidates
  /\ Len(representatives) <= limits.max_representatives
  /\ limits.retention = "all_assignments" => Len(assignments) <= limits.max_assignments

SpentWithin ==
  /\ isomorphism_checks <= limits.max_isomorphism_checks
  /\ work_units <= limits.max_work_units

\* The limits of the live state, variable by variable.
LEMMA WithinState == WithinLimits(State) <=> RecordsWithin /\ SpentWithin
BY DEF WithinLimits, State, RecordsWithin, SpentWithin

\* The same after a step.
LEMMA WithinStateNext == WithinLimits(State)' <=> RecordsWithin' /\ SpentWithin'
BY DEF WithinLimits, State, RecordsWithin, SpentWithin

\* The ceilings and the lengths are numbers.
LEMMA LimitNumbers ==
  ASSUME TypeOK
  PROVE  /\ limits.max_candidates \in Nat /\ limits.max_representatives \in Nat
         /\ limits.max_assignments \in Nat
         /\ limits.max_isomorphism_checks \in Nat /\ limits.max_work_units \in Nat
         /\ Len(representatives) \in Nat /\ Len(assignments) \in Nat
BY StateTypes, LenProperties DEF TypeOK, VarTypes, CensusLimits

\* Returning keeps the ceilings when the totals it returns are within them.
LEMMA ReturnCeilings ==
  ASSUME TypeOK, CeilingsInv, NEW kind, NEW reason, Return(kind, reason),
         Bound => RecordsWithin /\ SpentWithin'
  PROVE  CeilingsInv'
<1>1. /\ pc' = "idle" /\ purpose' = purpose /\ lowered' = lowered /\ limits' = limits
      /\ candidates' = candidates /\ representatives' = representatives
      /\ assignments' = assignments
  BY DEF Return, request, history, committed, counts
<1>2. Bound' => WithinLimits(State)'
  BY <1>1, WithinStateNext DEF Bound, RecordsWithin
<1>3. ~lowered' => WithinLimits(held.state)'
  <2>1. CASE purpose = "run"
    <3>1. held'.state = State'
      BY <2>1 DEF Return, Outcome
    <3>. QED
      BY <1>2, <3>1 DEF Bound, WithinLimits
  <2>2. CASE purpose # "run"
    <3>1. held' = held
      BY <2>2 DEF Return
    <3>. QED
      BY <1>1, <3>1 DEF CeilingsInv, CeilingsHold, WithinLimits
  <2>. QED
    BY <2>1, <2>2
<1>. QED
  BY <1>1, <1>2, <1>3 DEF CeilingsInv, CeilingsHold, BeganWithin, Bound

\* So does a commit whose record fits.
LEMMA ContinueCeilings ==
  ASSUME TypeOK, CeilingsInv, Continue, candidates < limits.max_candidates,
         Bound => SpentWithin' /\ RecordsWithin,
         Len(representatives') <= limits.max_representatives
           \/ representatives' = representatives,
         Len(assignments') <= limits.max_assignments \/ assignments' = assignments
  PROVE  CeilingsInv'
<1>1. /\ pc' = "loop" /\ purpose' = purpose /\ lowered' = lowered /\ limits' = limits
      /\ candidates' = candidates + 1 /\ held' = held
  BY DEF Continue, request, history
<1>2. Bound => RecordsWithin'
  BY <1>1, LiveNumbers, LimitNumbers, SMTT(30) DEF RecordsWithin
<1>3. Bound' => WithinLimits(State)'
  BY <1>1, <1>2, WithinStateNext DEF Bound
<1>. QED
  BY <1>1, <1>3 DEF CeilingsInv, CeilingsHold, BeganWithin, Bound, WithinLimits

\* The ceilings are kept when an engine starts.
LEMMA CeilingsInit == Init => CeilingsInv
<1>. SUFFICES ASSUME Init PROVE CeilingsInv
  OBVIOUS
<1>1. limits \in CensusLimits
  BY LimitsAssumption DEF Init
<1>2. WithinLimits(Empty(limits))
  BY <1>1 DEF WithinLimits, Empty, CensusLimits
<1>3. State = Empty(limits) /\ held.state = Empty(limits) /\ pc = "loop"
  BY DEF Init, State, Empty, Outcome
<1>. QED
  BY <1>2, <1>3 DEF CeilingsInv, CeilingsHold, BeganWithin

\* A step of the loop that compares nothing stays within the limits.
LEMMA LoopCeilings ==
  ASSUME TypeOK, CeilingsInv, LoopStep
  PROVE  CeilingsInv'
<1>. USE LiveNumbers, LimitNumbers
<1>1. Bound /\ pc = "loop" => RecordsWithin /\ SpentWithin
  BY WithinState DEF CeilingsInv, CeilingsHold, Bound
<1>2. pc = "loop"
  BY DEF LoopStep, Finish, ObserveCancellation, CutAtCandidateLimit,
         CutAtCandidateWork, RejectCandidate, FailConstruction, BeginComparisons,
         Built, Processing
<1>3. ASSUME NEW kind, NEW reason, Return(kind, reason), UNCHANGED spent
      PROVE  CeilingsInv'
  <2>1. Bound => SpentWithin'
    BY <1>1, <1>2, <1>3 DEF SpentWithin, spent, Return, request
  <2>. QED
    BY <1>1, <1>2, <1>3, <2>1, ReturnCeilings
<1>4. ASSUME RejectCandidate \/ BeginComparisons
      PROVE  /\ candidates < limits.max_candidates
             /\ limits' = limits
             /\ work_units' = work_units + 1
             /\ isomorphism_checks' = isomorphism_checks
             /\ Bound => SpentWithin'
  <2>1. /\ candidates < limits.max_candidates /\ work_units < limits.max_work_units
        /\ limits' = limits
        /\ work_units' = work_units + 1 /\ isomorphism_checks' = isomorphism_checks
    BY <1>4 DEF RejectCandidate, BeginComparisons, Built, ReserveWork, CommitRejected,
                Continue, request
  <2>. QED
    BY <1>1, <1>2, <2>1 DEF SpentWithin
<1>5. CASE RejectCandidate
  <2>1. /\ Continue /\ representatives' = representatives /\ assignments' = assignments
    BY <1>5 DEF RejectCandidate, CommitRejected
  <2>. QED
    BY <1>1, <1>2, <1>4, <1>5, <2>1, ContinueCeilings
<1>6. CASE BeginComparisons
  <2>1. /\ purpose' = purpose /\ lowered' = lowered /\ held' = held
        /\ candidates' = candidates /\ representatives' = representatives
        /\ assignments' = assignments
        /\ saved' = [work_units |-> work_units,
                     isomorphism_checks |-> isomorphism_checks]
    BY <1>6 DEF BeginComparisons, request, history, committed, counts
  <2>2. Bound' => WithinLimits(State)'
    BY <1>1, <1>2, <1>4, <1>6, <2>1, WithinStateNext DEF Bound, RecordsWithin
  <2>3. BeganWithin'
    BY <1>4, <1>6, <2>1 DEF BeganWithin
  <2>. QED
    BY <2>1, <2>2, <2>3 DEF CeilingsInv, CeilingsHold, Bound, WithinLimits
<1>. QED
  BY <1>3, <1>5, <1>6
     DEF LoopStep, Cut, Finish, ObserveCancellation, CutAtCandidateLimit,
         CutAtCandidateWork, FailConstruction

\* So does a comparison.
LEMMA CompareCeilings ==
  ASSUME TypeOK, CeilingsInv, CompareStep
  PROVE  CeilingsInv'
<1>. USE LiveNumbers, LimitNumbers
<1>1. pc = "compare"
  BY DEF CompareStep, CutAtIsomorphismLimit, CutAtIsomorphismWork, FailComparison,
         NextRepresentative, CutAtUnknown, DropDuplicate, CutAtAssignmentLimit,
         AssignDuplicate, CutAtRepresentativeLimit, KeepRepresentative, Compared,
         Comparing, AllCompared
<1>2. /\ Bound => RecordsWithin /\ SpentWithin
      /\ candidates < limits.max_candidates
      /\ saved.work_units <= work_units
      /\ saved.isomorphism_checks <= isomorphism_checks
  BY <1>1, WithinState DEF CeilingsInv, CeilingsHold, Bound, BeganWithin
<1>3. ASSUME limits' = limits,
             \/ UNCHANGED spent
             \/ /\ ChargeComparison
                /\ isomorphism_checks < limits.max_isomorphism_checks
                /\ work_units < limits.max_work_units
             \/ /\ work_units' = saved.work_units
                /\ isomorphism_checks' = saved.isomorphism_checks
      PROVE  Bound => SpentWithin'
  BY <1>2, <1>3, SMTT(30) DEF SpentWithin, spent, ChargeComparison
<1>4. CASE \/ CutAtIsomorphismLimit \/ CutAtIsomorphismWork \/ CutAtUnknown
           \/ CutAtAssignmentLimit \/ CutAtRepresentativeLimit \/ FailComparison
  <2>1. PICK kind, reason : Return(kind, reason)
    BY <1>4 DEF CutAtIsomorphismLimit, CutAtIsomorphismWork, CutAtUnknown,
                CutAtAssignmentLimit, CutAtRepresentativeLimit, FailComparison, Cut
  <2>2. limits' = limits
    BY <2>1 DEF Return, request
  <2>3. Bound => SpentWithin'
    BY <1>3, <1>4, <2>2
       DEF CutAtIsomorphismLimit, CutAtIsomorphismWork, CutAtUnknown,
           CutAtAssignmentLimit, CutAtRepresentativeLimit, FailComparison, Compared
  <2>. QED
    BY <1>2, <2>1, <2>3, ReturnCeilings
<1>5. CASE DropDuplicate \/ AssignDuplicate \/ KeepRepresentative
  <2>1. Continue /\ limits' = limits
    BY <1>5 DEF DropDuplicate, AssignDuplicate, KeepRepresentative, CommitAccepted,
                Continue, request
  <2>2. Bound => SpentWithin'
    BY <1>3, <1>5, <2>1
       DEF DropDuplicate, AssignDuplicate, KeepRepresentative, Compared, spent
  <2>3. /\ \/ Len(representatives') <= limits.max_representatives
           \/ representatives' = representatives
        /\ \/ Len(assignments') <= limits.max_assignments
           \/ assignments' = assignments
    <3>1. representatives \in Seq(Nat)
          /\ assignments \in Seq([cursor : Nat, representative : Nat])
          /\ cursor \in Nat /\ representative \in Nat
      BY StateTypes DEF TypeOK, VarTypes
    <3>2. CASE DropDuplicate
      BY <3>2 DEF DropDuplicate
    <3>3. CASE AssignDuplicate
      BY <3>1, <3>3 DEF AssignDuplicate
    <3>4. CASE KeepRepresentative
      BY <3>1, <3>4 DEF KeepRepresentative
    <3>. QED
      BY <1>5, <3>2, <3>3, <3>4
  <2>. QED
    BY <1>2, <2>1, <2>2, <2>3, ContinueCeilings
<1>6. CASE NextRepresentative
  <2>1. /\ purpose' = purpose /\ lowered' = lowered /\ held' = held /\ limits' = limits
        /\ candidates' = candidates /\ representatives' = representatives
        /\ assignments' = assignments /\ saved' = saved
    BY <1>6 DEF NextRepresentative, request, history, committed, counts
  <2>2. Bound => SpentWithin'
    BY <1>3, <1>6, <2>1 DEF NextRepresentative, Compared
  <2>3. Bound' => WithinLimits(State)'
    BY <1>2, <2>1, <2>2, WithinStateNext DEF Bound, RecordsWithin
  <2>4. work_units' = work_units + 1 /\ isomorphism_checks' = isomorphism_checks + 1
    BY <1>6 DEF NextRepresentative, ChargeComparison
  <2>5. BeganWithin'
    BY <1>2, <2>1, <2>4, SMTT(30) DEF BeganWithin
  <2>. QED
    BY <2>1, <2>3, <2>5 DEF CeilingsInv, CeilingsHold, Bound, WithinLimits
<1>. QED
  BY <1>4, <1>5, <1>6 DEF CompareStep

\* Every step stays within the limits.
LEMMA CeilingsNext == TypeOK /\ CeilingsInv /\ [Next]_vars => CeilingsInv'
<1>. SUFFICES ASSUME TypeOK, CeilingsInv, [Next]_vars PROVE CeilingsInv'
  OBVIOUS
<1>1. CASE Engine
  BY <1>1, LoopCeilings, CompareCeilings DEF Engine
<1>2. CASE Cancel \/ UNCHANGED vars
  <2>1. UNCHANGED <<pc, purpose, lowered, held, saved, limits, cursor, candidates,
                    accepted_modules, rejected_candidates, work_units,
                    isomorphism_checks, representatives, assignments>>
    BY <1>2 DEF Cancel, vars, request, history, committed, counts, spent, locals
  <2>. QED
    BY <2>1 DEF CeilingsInv, CeilingsHold, BeganWithin, WithinLimits, State
<1>3. CASE Verify
  <2>1. ReplayLimits(held) \in CensusLimits
    BY ReplayLimitsType DEF TypeOK
  <2>2. WithinLimits(Empty(ReplayLimits(held)))
    BY <2>1 DEF WithinLimits, Empty, CensusLimits
  <2>3. State' = Empty(ReplayLimits(held)) /\ held' = held /\ lowered' = lowered
        /\ pc' = "loop"
    BY <1>3 DEF State, Verify, Load, Empty, history
  <2>. QED
    BY <2>2, <2>3 DEF CeilingsInv, CeilingsHold, BeganWithin, WithinLimits
<1>4. CASE Resume
  <2>1. /\ held' = held /\ pc' = "loop" /\ purpose' = "run"
        /\ limits' \in CensusLimits
        /\ limits'.retention = held.state.limits.retention
        /\ candidates' = held.state.candidates
        /\ work_units' = held.state.work_units
        /\ isomorphism_checks' = held.state.isomorphism_checks
        /\ representatives' = held.state.representatives
        /\ assignments' = held.state.assignments
    BY <1>4, LimitsAssumption DEF Resume, Load
  <2>2. /\ held.state.candidates \in Nat /\ held.state.work_units \in Nat
        /\ held.state.isomorphism_checks \in Nat
        /\ Len(held.state.representatives) \in Nat
        /\ Len(held.state.assignments) \in Nat
    <3>1. held.state \in CensusStates
      BY DEF TypeOK, Outcomes
    <3>. QED
      BY <3>1, StateFields, LenProperties
  <2>3. ~lowered' => RecordsWithin' /\ SpentWithin'
    <3>1. lowered' = (lowered \/ BelowCommitted(limits', held.state))
      BY <1>4 DEF Resume
    <3>2. /\ limits'.max_candidates \in Nat /\ limits'.max_representatives \in Nat
          /\ limits'.max_assignments \in Nat
          /\ limits'.max_isomorphism_checks \in Nat /\ limits'.max_work_units \in Nat
      BY <2>1 DEF CensusLimits
    <3>3. ~BelowCommitted(limits', held.state) => RecordsWithin' /\ SpentWithin'
      BY <2>1, <2>2, <3>2, SMTT(30) DEF BelowCommitted, RecordsWithin, SpentWithin
    <3>. QED
      BY <3>1, <3>3, Zenon
  <2>4. ~lowered' => WithinLimits(held.state)'
    <3>1. ~lowered' => ~lowered
      BY <1>4, Zenon DEF Resume
    <3>. QED
      BY <2>1, <3>1 DEF CeilingsInv, CeilingsHold, WithinLimits
  <2>5. ~lowered' => WithinLimits(State)'
    BY <2>3, WithinStateNext
  <2>6. BeganWithin'
    BY <2>1 DEF BeganWithin
  <2>. QED
    BY <2>1, <2>4, <2>5, <2>6 DEF CeilingsInv, CeilingsHold
<1>. QED
  BY <1>1, <1>2, <1>3, <1>4 DEF Next

\* No history of cuts, failures, replays and resumes takes the engine over a ceiling,
\* unless a resume set one below what was already committed.
THEOREM CeilingsAreKept == Spec => []CeilingsHold
<1>1. Init => CeilingsInv
  BY CeilingsInit
<1>2. TypeOK /\ CeilingsInv /\ [Next]_vars => CeilingsInv'
  BY CeilingsNext
<1>3. CeilingsInv => CeilingsHold
  BY DEF CeilingsInv
<1>. QED
  BY <1>1, <1>2, <1>3, TypeCorrect, PTL DEF Spec

-----------------------------------------------------------------------------
(* What is published: the work of the last candidate boundary or of the    *)
(* last return.  While a request runs, it never says "complete".           *)

PublishedWork ==
  /\ progress.completed_work =
       IF pc = "compare" /\ purpose = "run" THEN saved.work_units
       ELSE Committed.work_units
  /\ progress.stage = "complete" =>
       held.kind = "complete" /\ held.state.cursor = domain.size

RunsAsCensus == pc # "idle" /\ purpose = "run" => progress.stage = "census"

ProgressInv == PublishedWork /\ RunsAsCensus

\* The reported progress is right when an engine starts.
LEMMA ProgressInit == Init => ProgressInv
BY DEF Init, ProgressInv, PublishedWork, RunsAsCensus, Committed, State

\* A snapshot published by a cut or a commit is what is then committed.
LEMMA CutProgress ==
  ASSUME TypeOK, ProgressInv, NEW kind, NEW reason, Return(kind, reason), pc # "idle",
         Publish("census") \/ UNCHANGED progress,
         purpose = "run" /\ UNCHANGED progress => progress.completed_work = work_units'
  PROVE  ProgressInv'
<1>1. pc' = "idle" /\ purpose' = purpose /\ domain' = domain
  BY DEF Return, request
<1>2. CASE purpose = "run"
  <2>1. held'.state.work_units = work_units'
    BY <1>2 DEF Return, Outcome, State
  <2>2. progress'.completed_work = work_units' /\ progress'.stage = "census"
    BY <1>2 DEF Publish, ProgressInv, RunsAsCensus
  <2>. QED
    BY <1>1, <2>1, <2>2 DEF ProgressInv, PublishedWork, RunsAsCensus, Committed
<1>3. CASE purpose # "run"
  <2>1. purpose = "replay" /\ held' = held /\ progress' = progress
    BY <1>3 DEF Return, Publish, TypeOK
  <2>. QED
    BY <1>1, <2>1 DEF ProgressInv, PublishedWork, RunsAsCensus, Committed
<1>. QED
  BY <1>2, <1>3

\* Going on with the enumeration keeps it right.
LEMMA ContinueProgress ==
  ASSUME TypeOK, ProgressInv, Continue, pc # "idle"
  PROVE  ProgressInv'
<1>1. pc' = "loop" /\ purpose' = purpose /\ domain' = domain /\ held' = held
  BY DEF Continue, request
<1>2. CASE purpose = "run"
  <2>1. progress'.completed_work = work_units' /\ progress'.stage = "census"
    BY <1>2 DEF Continue, Publish
  <2>. QED
    BY <1>1, <1>2, <2>1
       DEF ProgressInv, PublishedWork, RunsAsCensus, Committed, State
<1>3. CASE purpose # "run"
  <2>1. purpose = "replay" /\ progress' = progress
    BY <1>3 DEF Continue, Publish, TypeOK
  <2>. QED
    BY <1>1, <2>1 DEF ProgressInv, PublishedWork, RunsAsCensus, Committed
<1>. QED
  BY <1>2, <1>3

\* A step of the loop that compares nothing keeps it right.
LEMMA LoopProgress ==
  ASSUME TypeOK, ProgressInv, LoopStep
  PROVE  ProgressInv'
<1>1. /\ pc = "loop" /\ pc # "idle"
      /\ purpose = "run" => progress.completed_work = work_units
  BY DEF LoopStep, Finish, ObserveCancellation, CutAtCandidateLimit,
         CutAtCandidateWork, RejectCandidate, FailConstruction, BeginComparisons,
         Built, Processing, ProgressInv, PublishedWork, Committed, State, TypeOK
<1>2. CASE Finish
  <2>1. pc' = "idle" /\ purpose' = purpose /\ domain' = domain /\ cursor = domain.size
    BY <1>2 DEF Finish, Complete, Return, request
  <2>2. CASE purpose = "run"
    <3>1. /\ held'.state.work_units = work_units' /\ held'.kind = "complete"
          /\ held'.state.cursor = cursor
      BY <1>2, <2>2 DEF Finish, Return, Outcome, State, committed
    <3>2. progress'.completed_work = work_units'
      BY <1>2, <2>2 DEF Finish, Publish
    <3>. QED
      BY <2>1, <3>1, <3>2
         DEF ProgressInv, PublishedWork, RunsAsCensus, Committed
  <2>3. CASE purpose # "run"
    <3>1. purpose = "replay" /\ held' = held /\ progress' = progress
      BY <1>2, <2>3 DEF Finish, Return, Publish, TypeOK
    <3>. QED
      BY <1>1, <2>1, <3>1
         DEF ProgressInv, PublishedWork, RunsAsCensus, Committed
  <2>. QED
    BY <2>2, <2>3
<1>3. CASE \/ ObserveCancellation \/ CutAtCandidateLimit \/ CutAtCandidateWork
           \/ FailConstruction
  <2>1. PICK kind, reason : Return(kind, reason)
    BY <1>3 DEF ObserveCancellation, CutAtCandidateLimit, CutAtCandidateWork,
                FailConstruction, Cut
  <2>2. Publish("census") \/ UNCHANGED progress
    BY <1>3 DEF ObserveCancellation, CutAtCandidateLimit, CutAtCandidateWork,
                FailConstruction, Cut
  <2>3. work_units' = work_units
    BY <1>3 DEF ObserveCancellation, CutAtCandidateLimit, CutAtCandidateWork,
                FailConstruction, spent
  <2>. QED
    BY <1>1, <2>1, <2>2, <2>3, CutProgress
<1>4. CASE RejectCandidate
  BY <1>1, <1>4, ContinueProgress DEF RejectCandidate, CommitRejected
<1>5. CASE BeginComparisons
  <2>1. /\ pc' = "compare" /\ purpose' = purpose /\ domain' = domain
        /\ held' = held /\ progress' = progress
        /\ saved'.work_units = work_units
    BY <1>5 DEF BeginComparisons, request
  <2>. QED
    BY <1>1, <2>1
       DEF ProgressInv, PublishedWork, RunsAsCensus, Committed, TypeOK
<1>. QED
  BY <1>2, <1>3, <1>4, <1>5 DEF LoopStep

\* So does a comparison.
LEMMA CompareProgress ==
  ASSUME TypeOK, ProgressInv, CompareStep
  PROVE  ProgressInv'
<1>1. /\ pc = "compare" /\ pc # "idle"
  BY DEF CompareStep, CutAtIsomorphismLimit, CutAtIsomorphismWork, FailComparison,
         NextRepresentative, CutAtUnknown, DropDuplicate, CutAtAssignmentLimit,
         AssignDuplicate, CutAtRepresentativeLimit, KeepRepresentative, Compared,
         Comparing, AllCompared
<1>2. CASE \/ CutAtIsomorphismLimit \/ CutAtIsomorphismWork \/ CutAtUnknown
           \/ CutAtAssignmentLimit \/ CutAtRepresentativeLimit \/ FailComparison
  <2>1. PICK kind, reason : Return(kind, reason)
    BY <1>2 DEF CutAtIsomorphismLimit, CutAtIsomorphismWork, CutAtUnknown,
                CutAtAssignmentLimit, CutAtRepresentativeLimit, FailComparison, Cut
  <2>2. Publish("census")
    BY <1>2 DEF CutAtIsomorphismLimit, CutAtIsomorphismWork, CutAtUnknown,
                CutAtAssignmentLimit, CutAtRepresentativeLimit, FailComparison, Cut
  <2>3. purpose = "run" => progress'.completed_work = work_units'
    BY <2>2 DEF Publish
  <2>. QED
    BY <1>1, <2>1, <2>2, <2>3, CutProgress
<1>3. CASE DropDuplicate \/ AssignDuplicate \/ KeepRepresentative
  BY <1>1, <1>3, ContinueProgress
     DEF DropDuplicate, AssignDuplicate, KeepRepresentative, CommitAccepted
<1>4. CASE NextRepresentative
  <2>1. UNCHANGED <<pc, purpose, domain, held, progress, saved>>
    BY <1>4 DEF NextRepresentative, request
  <2>. QED
    BY <1>1, <2>1
       DEF ProgressInv, PublishedWork, RunsAsCensus, Committed, TypeOK
<1>. QED
  BY <1>2, <1>3, <1>4 DEF CompareStep

\* Every step keeps the reported progress right.
LEMMA ProgressNext == TypeOK /\ ProgressInv /\ [Next]_vars => ProgressInv'
<1>. SUFFICES ASSUME TypeOK, ProgressInv, [Next]_vars PROVE ProgressInv'
  OBVIOUS
<1>1. CASE Engine
  BY <1>1, LoopProgress, CompareProgress DEF Engine
<1>2. CASE Cancel \/ UNCHANGED vars
  <2>1. UNCHANGED <<pc, purpose, domain, held, progress, saved, work_units>>
    BY <1>2 DEF Cancel, vars, request, spent, locals
  <2>2. State'.work_units = State.work_units
    BY <2>1 DEF State
  <2>. QED
    BY <2>1, <2>2 DEF ProgressInv, PublishedWork, RunsAsCensus, Committed
<1>3. CASE Verify
  <2>1. /\ pc = "idle" /\ pc' = "loop" /\ purpose' = "replay" /\ domain' = domain
        /\ held' = held /\ progress' = progress
    BY <1>3 DEF Verify, Load
  <2>. QED
    BY <2>1 DEF ProgressInv, PublishedWork, RunsAsCensus, Committed
<1>4. CASE Resume
  <2>1. /\ pc' = "loop" /\ purpose' = "run"
        /\ progress'.stage = "census"
        /\ progress'.completed_work = held.state.work_units
        /\ work_units' = held.state.work_units
    BY <1>4 DEF Resume, Load
  <2>2. State'.work_units = work_units'
    BY DEF State
  <2>. QED
    BY <2>1, <2>2 DEF ProgressInv, PublishedWork, RunsAsCensus, Committed
<1>. QED
  BY <1>1, <1>2, <1>3, <1>4 DEF Next

-----------------------------------------------------------------------------
(***************************************************************************)
(* The census engine implements FirstSeen: under the mapping of module     *)
(* Census (done is the committed cursor, firsts the committed              *)
(* representatives) every commit of a caller's run is a step Classify and  *)
(* everything else - comparisons, cuts, rollbacks, cancellations, replays, *)
(* resumes - is a stutter.                                                 *)
(***************************************************************************)

\* Where the mapping reads the committed prefix.
LEMMA MappedLive ==
  ASSUME pc # "idle", purpose = "run"
  PROVE  Committed.cursor = cursor /\ Committed.representatives = representatives
BY DEF Committed, State

\* What a running enumeration commits is its live cursor and representatives.
LEMMA MappedLiveNext ==
  ASSUME pc' # "idle", purpose' = "run"
  PROVE  Committed'.cursor = cursor' /\ Committed'.representatives = representatives'
BY DEF Committed, State

\* The initial states map to initial states of FirstSeen.
LEMMA MappedInit == Init => FS!Init
BY DEF Init, FS!Init, Committed, State

\* Returning an outcome commits nothing.
LEMMA ReturnStutters ==
  ASSUME pc # "idle", TypeOK, NEW kind, NEW reason, Return(kind, reason)
  PROVE  UNCHANGED FS!vars
<1>1. pc' = "idle" /\ domain' = domain
  BY DEF Return, request
<1>2. CASE purpose = "run"
  <2>1. held'.state.cursor = cursor /\ held'.state.representatives = representatives
    BY <1>2 DEF Return, Outcome, State, committed
  <2>. QED
    BY <1>1, <1>2, <2>1, MappedLive DEF FS!vars, Committed
<1>3. CASE purpose # "run"
  <2>1. purpose = "replay" /\ held' = held
    BY <1>3 DEF Return, TypeOK
  <2>. QED
    BY <1>1, <2>1 DEF FS!vars, Committed
<1>. QED
  BY <1>2, <1>3

\* A replay's commits are not the caller's.
LEMMA ReplayStutters ==
  ASSUME TypeOK, Continue, purpose # "run"
  PROVE  UNCHANGED FS!vars
<1>1. purpose = "replay" /\ purpose' = "replay" /\ held' = held /\ domain' = domain
  BY DEF Continue, request, TypeOK
<1>. QED
  BY <1>1 DEF FS!vars, Committed

\* A rejected candidate and a duplicate are dropped, the first of a class is kept.
LEMMA RejectMaps ==
  ASSUME TypeOK, ClassInv, RejectCandidate
  PROVE  FS!Next \/ UNCHANGED FS!vars
<1>1. CASE purpose = "run"
  <2>1. /\ pc = "loop" /\ pc' = "loop" /\ purpose' = purpose /\ domain' = domain
        /\ cursor' = cursor + 1 /\ representatives' = representatives
        /\ cursor # domain.size /\ domain.build[cursor] = "relation_acts_nonzero"
    BY DEF RejectCandidate, Built, Processing, Complete, CommitRejected, Continue,
           request
  <2>2. cursor < domain.size
    <3>1. cursor \in Nat /\ domain.size \in Nat /\ cursor <= domain.size
      BY LoopFacts DEF Numbers, CountVars
    <3>. QED
      BY <2>1, <3>1
  <2>. QED
    BY <1>1, <2>1, <2>2, MappedLive, MappedLiveNext DEF FS!Next, FS!Classify, FS!Drop
<1>2. CASE purpose # "run"
  BY <1>2, ReplayStutters DEF RejectCandidate, CommitRejected
<1>. QED
  BY <1>1, <1>2

\* A duplicate maps to a step of FirstSeen or to a stutter.
LEMMA DuplicateMaps ==
  ASSUME TypeOK, ClassInv, DropDuplicate \/ AssignDuplicate
  PROVE  FS!Next \/ UNCHANGED FS!vars
<1>1. CASE purpose = "run"
  <2>1. /\ pc = "compare" /\ pc' = "loop" /\ purpose' = purpose /\ domain' = domain
        /\ cursor' = cursor + 1 /\ representatives' = representatives
        /\ Comparing
        /\ domain.compare[<<cursor, representatives[representative]>>] = "isomorphic"
    BY DEF DropDuplicate, AssignDuplicate, Compared, Comparing, CommitAccepted,
           Continue, request
  <2>2. IsModule(cursor) /\ cursor < domain.size
    BY <2>1 DEF ClassInv, ComparePoint
  <2>3. /\ representative \in 1 .. Len(representatives)
        /\ SameClass(cursor, representatives[representative])
    BY <2>1, ComparedClasses
  <2>4. ~FS!FirstOfItsClass(cursor)
    BY <1>1, <2>1, <2>3, MappedLive DEF FS!FirstOfItsClass, SameClass
  <2>. QED
    BY <1>1, <2>1, <2>2, <2>4, MappedLive, MappedLiveNext
       DEF FS!Next, FS!Classify, FS!Drop, IsModule
<1>2. CASE purpose # "run"
  BY <1>2, ReplayStutters DEF DropDuplicate, AssignDuplicate, CommitAccepted
<1>. QED
  BY <1>1, <1>2

\* So does a new representative.
LEMMA KeepMaps ==
  ASSUME TypeOK, ClassInv, KeepRepresentative
  PROVE  FS!Next \/ UNCHANGED FS!vars
<1>1. CASE purpose = "run"
  <2>1. /\ pc = "compare" /\ pc' = "loop" /\ purpose' = purpose /\ domain' = domain
        /\ cursor' = cursor + 1
        /\ representatives' = Append(representatives, cursor)
        /\ representative > Len(representatives)
    BY DEF KeepRepresentative, AllCompared, CommitAccepted, Continue, request
  <2>2. IsModule(cursor) /\ cursor < domain.size
    BY <2>1 DEF ClassInv, ComparePoint
  <2>3. \A i \in 1 .. Len(representatives) : ~SameClass(cursor, representatives[i])
    <3>1. representative \in Nat /\ Len(representatives) \in Nat
      BY LoopFacts DEF TypeOK, Numbers
    <3>. QED
      BY <2>1, <3>1 DEF ClassInv, ComparePoint
  <2>4. FS!FirstOfItsClass(cursor)
    BY <1>1, <2>1, <2>3, MappedLive DEF FS!FirstOfItsClass, SameClass
  <2>. QED
    BY <1>1, <2>1, <2>2, <2>4, MappedLive, MappedLiveNext
       DEF FS!Next, FS!Classify, FS!Keep, IsModule
<1>2. CASE purpose # "run"
  BY <1>2, ReplayStutters DEF KeepRepresentative, CommitAccepted
<1>. QED
  BY <1>1, <1>2

\* Every step maps to a step of FirstSeen or to a stutter.
LEMMA MappedNext ==
  TypeOK /\ ClassInv /\ [Next]_vars => [FS!Next]_FS!vars
<1>. SUFFICES ASSUME TypeOK, ClassInv, [Next]_vars
     PROVE  FS!Next \/ UNCHANGED FS!vars
  BY DEF FS!vars
<1>1. CASE /\ Engine
           /\ \E kind, reason : Return(kind, reason)
  <2>1. pc # "idle"
    BY <1>1 DEF Engine, LoopStep, CompareStep, Finish, ObserveCancellation,
         CutAtCandidateLimit,
         CutAtCandidateWork, RejectCandidate, FailConstruction, BeginComparisons,
         Built, Processing, CutAtIsomorphismLimit, CutAtIsomorphismWork, FailComparison,
         NextRepresentative, CutAtUnknown, DropDuplicate, CutAtAssignmentLimit,
         AssignDuplicate, CutAtRepresentativeLimit, KeepRepresentative, Compared,
         Comparing, AllCompared
  <2>. QED
    BY <1>1, <2>1, ReturnStutters
<1>2. CASE LoopStep /\ ~ \E kind, reason : Return(kind, reason)
  <2>1. CASE BeginComparisons
    <3>1. UNCHANGED <<purpose, domain, held, cursor, representatives>>
          /\ pc = "loop" /\ pc' = "compare"
      BY <2>1 DEF BeginComparisons, Built, Processing, request, committed
    <3>2. State'.cursor = State.cursor
          /\ State'.representatives = State.representatives
      BY <3>1 DEF State
    <3>. QED
      BY <3>1, <3>2 DEF FS!vars, Committed
  <2>. QED
    BY <1>2, <2>1, RejectMaps
       DEF LoopStep, Cut, Finish, ObserveCancellation, CutAtCandidateLimit,
           CutAtCandidateWork, FailConstruction
<1>3. CASE CompareStep /\ ~ \E kind, reason : Return(kind, reason)
  <2>1. CASE NextRepresentative
    <3>1. UNCHANGED <<purpose, domain, held, cursor, representatives, pc>>
      BY <2>1 DEF NextRepresentative, request, committed
    <3>2. State'.cursor = State.cursor
          /\ State'.representatives = State.representatives
      BY <3>1 DEF State
    <3>. QED
      BY <3>1, <3>2 DEF FS!vars, Committed
  <2>. QED
    BY <1>3, <2>1, DuplicateMaps, KeepMaps
       DEF CompareStep, Cut, CutAtIsomorphismLimit, CutAtIsomorphismWork,
           FailComparison, CutAtUnknown, CutAtAssignmentLimit,
           CutAtRepresentativeLimit
<1>4. CASE Cancel \/ UNCHANGED vars
  <2>1. UNCHANGED <<purpose, domain, held, cursor, representatives, pc>>
    BY <1>4 DEF Cancel, vars, request, committed
  <2>2. State'.cursor = State.cursor
        /\ State'.representatives = State.representatives
    BY <2>1 DEF State
  <2>. QED
    BY <2>1, <2>2 DEF FS!vars, Committed
<1>5. CASE Verify
  <2>1. pc = "idle" /\ purpose' = "replay" /\ held' = held /\ domain' = domain
    BY <1>5 DEF Verify, Load
  <2>. QED
    BY <2>1 DEF FS!vars, Committed
<1>6. CASE Resume
  <2>1. /\ pc = "idle" /\ pc' = "loop" /\ purpose' = "run" /\ domain' = domain
        /\ cursor' = held.state.cursor
        /\ representatives' = held.state.representatives
    BY <1>6 DEF Resume, Load
  <2>. QED
    BY <2>1, MappedLiveNext DEF FS!vars, Committed
<1>. QED
  BY <1>1, <1>2, <1>3, <1>4, <1>5, <1>6 DEF Next, Engine

\* The census classifies every candidate once and in order and keeps the first module of
\* every class, however often it is cut, cancelled, replayed and resumed.
THEOREM ImplementsFirstSeen == Spec => RefinesFirstSeen
<1>1. Init => FS!Init
  BY MappedInit
<1>2. TypeOK /\ ClassInv /\ [Next]_vars => [FS!Next]_FS!vars
  BY MappedNext
<1>. QED
  BY <1>1, <1>2, SoundAlways, PTL DEF Spec, RefinesFirstSeen, FS!Spec

-----------------------------------------------------------------------------
(* Counting the members of a set of numbers below a bound.  The records of *)
(* a census are fixed by such counts: the representative with i firsts     *)
(* below it is the one at position i + 1.                                  *)

Under(S, n) == {c \in S : c < n}

Below(S, n) == Cardinality(Under(S, n))

\* The numbers of a set below a bound are finitely many.
LEMMA BelowType ==
  ASSUME NEW S \in SUBSET Nat, NEW n \in Nat
  PROVE  IsFiniteSet(Under(S, n)) /\ Below(S, n) \in Nat
<1>1. Under(S, n) \in SUBSET Nat
  BY DEF Under
<1>2. \A c \in Under(S, n) : c <= n
  BY DEF Under
<1>3. IsFiniteSet(Under(S, n))
  BY <1>1, <1>2, FS_BoundedSetOfNaturals
<1>. QED
  BY <1>3, FS_CardinalityType DEF Below

\* None is below 0.
LEMMA BelowZero ==
  ASSUME NEW S \in SUBSET Nat
  PROVE  Below(S, 0) = 0
<1>1. \A c \in Under(S, 0) : FALSE
  BY DEF Under
<1>. QED
  BY <1>1, FS_EmptySet DEF Below

\* One more is below the next bound if the bound is in the set.
LEMMA BelowNext ==
  ASSUME NEW S \in SUBSET Nat, NEW n \in Nat
  PROVE  Below(S, n + 1) = IF n \in S THEN Below(S, n) + 1 ELSE Below(S, n)
<1>1. n \notin Under(S, n)
  BY DEF Under
<1>2. CASE n \in S
  <2>1. Under(S, n + 1) = Under(S, n) \cup {n}
    <3>1. \A c \in Under(S, n + 1) : c \in Under(S, n) \/ c = n
      BY DEF Under
    <3>2. \A c \in Under(S, n) : c \in Under(S, n + 1)
      BY DEF Under
    <3>3. n \in Under(S, n + 1)
      BY <1>2 DEF Under
    <3>. QED
      BY <3>1, <3>2, <3>3
  <2>2. Cardinality(Under(S, n) \cup {n}) = Cardinality(Under(S, n)) + 1
    BY <1>1, BelowType, FS_AddElement
  <2>. QED
    BY <1>2, <2>1, <2>2 DEF Below
<1>3. CASE n \notin S
  <2>1. Under(S, n + 1) = Under(S, n)
    <3>1. \A c \in Under(S, n + 1) : c \in Under(S, n)
      BY <1>3 DEF Under
    <3>2. \A c \in Under(S, n) : c \in Under(S, n + 1)
      BY DEF Under
    <3>. QED
      BY <3>1, <3>2
  <2>. QED
    BY <1>3, <2>1 DEF Below
<1>. QED
  BY <1>2, <1>3

\* No fewer are below a greater bound.
LEMMA BelowMonotone ==
  ASSUME NEW S \in SUBSET Nat, NEW m \in Nat, NEW n \in Nat, m <= n
  PROVE  Below(S, m) <= Below(S, n)
<1>1. Under(S, m) \in SUBSET Under(S, n)
  <2>1. \A c \in Under(S, m) : c \in Under(S, n)
    BY DEF Under
  <2>. QED
    BY <2>1
<1>. QED
  BY <1>1, BelowType, FS_Subset DEF Below

\* More are below a bound than below an element under it.
LEMMA BelowGrows ==
  ASSUME NEW S \in SUBSET Nat, NEW m \in S, NEW n \in Nat, m < n
  PROVE  Below(S, m) < Below(S, n)
<1>1. Below(S, m + 1) = Below(S, m) + 1
  BY BelowNext
<1>2. Below(S, m + 1) <= Below(S, n)
  BY BelowMonotone
<1>. QED
  BY <1>1, <1>2, BelowType

\* An element is known by how many are below it.
LEMMA BelowInjective ==
  ASSUME NEW S \in SUBSET Nat, NEW m \in S, NEW n \in S, Below(S, m) = Below(S, n)
  PROVE  m = n
<1>1. ~(m < n) /\ ~(n < m)
  BY BelowGrows, BelowType
<1>. QED
  BY <1>1

-----------------------------------------------------------------------------
(* The modules of a domain, and the comparisons that classify them.        *)

Duplicates(d) == Modules(d) \ Firsts(d)

Required(d, n) == Cardinality(Comparisons(d, n))

\* The modules, first classes and duplicates of a domain are sets of naturals.
LEMMA DomainTypes ==
  ASSUME NEW d \in Domains
  PROVE  /\ Modules(d) \in SUBSET Nat /\ Firsts(d) \in SUBSET Nat
         /\ Duplicates(d) \in SUBSET Nat
         /\ Firsts(d) \subseteq Modules(d) /\ Modules(d) \subseteq Candidates(d)
         /\ Candidates(d) \subseteq Nat
         /\ d.size \in Nat /\ CertifiedComparison(d)
<1>1. d.size \in Nat /\ CertifiedComparison(d)
  BY DomainsAssumption DEF IsDomain
<1>2. Candidates(d) \subseteq Nat
  BY <1>1 DEF Candidates
<1>. QED
  BY <1>1, <1>2 DEF Modules, Firsts, Duplicates

\* Every module has a first of its class, not after it.
LEMMA FirstOfClass ==
  ASSUME NEW d \in Domains, NEW m \in Modules(d)
  PROVE  \E f \in Firsts(d) : f <= m /\ d.class[f] = d.class[m]
<1>. DEFINE Has(c) == \E f \in Firsts(d) : f <= c /\ d.class[f] = d.class[c]
            S == {n \in Nat : \A c \in Modules(d) : c < n => Has(c)}
<1>. USE DomainTypes
<1>1. 0 \in S
  OBVIOUS
<1>2. ASSUME NEW n \in Nat, n \in S
      PROVE  n + 1 \in S
  <2>. SUFFICES ASSUME NEW c \in Modules(d), c < n + 1 PROVE Has(c)
    OBVIOUS
  <2>1. CASE c < n
    BY <1>2, <2>1
  <2>2. CASE c \in Firsts(d)
    BY <2>2
  <2>3. CASE c = n /\ c \notin Firsts(d)
    <3>1. PICK b \in Modules(d) : b < c /\ d.class[b] = d.class[c]
      BY <2>3 DEF Firsts
    <3>2. Has(b) /\ b \in Nat /\ c \in Nat
      BY <1>2, <2>3, <3>1
    <3>3. PICK f \in Firsts(d) : f <= b /\ d.class[f] = d.class[b]
      BY <3>2
    <3>4. f <= c /\ d.class[f] = d.class[c]
      BY <3>1, <3>2, <3>3
    <3>. QED
      BY <3>4
  <2>. QED
    BY <2>1, <2>2, <2>3
<1>3. Nat \subseteq S
  BY <1>1, <1>2, SetInduction
<1>4. m \in Nat /\ m + 1 \in S
  BY <1>3
<1>. QED
  BY <1>4

\* A class has one first.
LEMMA FirstsDiffer ==
  ASSUME NEW d \in Domains, NEW f \in Firsts(d), NEW g \in Firsts(d),
         d.class[f] = d.class[g]
  PROVE  f = g
<1>1. f \in Nat /\ g \in Nat /\ ~(f < g) /\ ~(g < f)
  BY DomainTypes DEF Firsts
<1>. QED
  BY <1>1

\* The comparisons before a cursor are finitely many.
LEMMA ComparisonsFinite ==
  ASSUME NEW d \in Domains, NEW n \in Nat
  PROVE  IsFiniteSet(Comparisons(d, n)) /\ Required(d, n) \in Nat
<1>1. Comparisons(d, n) \in SUBSET (Candidates(d) \X Candidates(d))
  BY DomainTypes DEF Comparisons
<1>2. IsFiniteSet(Candidates(d))
  BY DomainTypes, FS_Interval DEF Candidates
<1>. QED
  BY <1>1, <1>2, FS_Product, FS_Subset, FS_CardinalityType DEF Required

\* None is required before the first candidate.
LEMMA RequiredZero ==
  ASSUME NEW d \in Domains
  PROVE  Required(d, 0) = 0
<1>1. Comparisons(d, 0) = {}
  BY DomainTypes DEF Comparisons
<1>. QED
  BY <1>1, FS_EmptySet DEF Required

\* No fewer are required before a later cursor.
LEMMA RequiredMonotone ==
  ASSUME NEW d \in Domains, NEW m \in Nat, NEW n \in Nat, m <= n
  PROVE  Comparisons(d, m) \subseteq Comparisons(d, n) /\ Required(d, m) <= Required(d, n)
<1>1. Comparisons(d, m) \in SUBSET Comparisons(d, n)
  BY DomainTypes DEF Comparisons
<1>. QED
  BY <1>1, ComparisonsFinite, FS_Subset DEF Required

\* A candidate that is no module needs no comparison.
LEMMA NothingRequired ==
  ASSUME NEW d \in Domains, NEW n \in Nat, n \notin Modules(d)
  PROVE  Comparisons(d, n + 1) = Comparisons(d, n)
BY DomainTypes DEF Comparisons

-----------------------------------------------------------------------------
(* Two enumerations of the same candidates have the same records.          *)

ListsFirsts(d, s) ==
  /\ Len(s.representatives) = Below(Firsts(d), s.cursor)
  /\ \A i \in 1 .. Len(s.representatives) :
       s.representatives[i] \in Firsts(d) /\ Below(Firsts(d), s.representatives[i]) = i - 1

ListsDuplicates(d, s) ==
  s.limits.retention = "all_assignments" =>
    /\ Len(s.assignments) = Below(Duplicates(d), s.cursor)
    /\ \A i \in 1 .. Len(s.assignments) :
         /\ s.assignments[i].cursor \in Duplicates(d)
         /\ Below(Duplicates(d), s.assignments[i].cursor) = i - 1

Decided(d, s) ==
  \A p \in Comparisons(d, s.cursor) : d.compare[p] \in {"isomorphic", "not_isomorphic"}

Enumerated(d, s) ==
  /\ ListsFirsts(d, s)
  /\ s.accepted_modules = Below(Modules(d), s.cursor)
  /\ ListsDuplicates(d, s)
  /\ Decided(d, s)

\* The representatives of a prefix are its firsts in increasing order.
LEMMA ListedFirsts ==
  ASSUME NEW d \in Domains, NEW s \in CensusStates, ListsFirsts(d, s)
  PROVE  /\ Len(s.representatives) \in Nat
         /\ \A i \in 1 .. Len(s.representatives) :
              /\ s.representatives[i] \in Firsts(d) /\ s.representatives[i] \in Nat
              /\ s.representatives[i] < s.cursor
         /\ \A i, j \in 1 .. Len(s.representatives) :
              s.representatives[i] < s.representatives[j] => i < j
         /\ \A i, j \in 1 .. Len(s.representatives) :
              s.representatives[i] = s.representatives[j] => i = j
         /\ \A f \in Firsts(d) : f < s.cursor =>
              \E i \in 1 .. Len(s.representatives) : s.representatives[i] = f
<1>. DEFINE reps == s.representatives
            F == Firsts(d)
<1>1. PICK n, c : n = Len(reps) /\ c = s.cursor
  OBVIOUS
<1>2. n \in Nat /\ c \in Nat /\ F \in SUBSET Nat
  BY <1>1, StateFields, LenProperties, DomainTypes
<1>3. n = Below(F, c) /\ \A i \in 1 .. n : reps[i] \in F /\ Below(F, reps[i]) = i - 1
  BY <1>1 DEF ListsFirsts
<1>. HIDE DEF F
<1>4. \A i \in 1 .. n : reps[i] \in Nat
  BY <1>2, <1>3
<1>5. \A i \in 1 .. n : reps[i] < c
  <2>. SUFFICES ASSUME NEW i \in 1 .. n, ~(reps[i] < c) PROVE FALSE
    OBVIOUS
  <2>1. c <= reps[i]
    BY <1>2, <1>4
  <2>2. Below(F, c) <= Below(F, reps[i])
    BY <1>2, <1>4, <2>1, BelowMonotone
  <2>. QED
    BY <1>2, <1>3, <2>2
<1>6. ASSUME NEW i \in 1 .. n, NEW j \in 1 .. n, reps[i] < reps[j] PROVE i < j
  <2>1. Below(F, reps[i]) < Below(F, reps[j])
    BY <1>2, <1>3, <1>4, <1>6, BelowGrows
  <2>. QED
    BY <1>2, <1>3, <2>1
<1>7. ASSUME NEW i \in 1 .. n, NEW j \in 1 .. n, reps[i] = reps[j] PROVE i = j
  BY <1>2, <1>3, <1>7
<1>8. ASSUME NEW f \in F, f < c
      PROVE  \E i \in 1 .. n : reps[i] = f
  <2>1. PICK i : i = Below(F, f) + 1
    OBVIOUS
  <2>2. f \in Nat /\ Below(F, f) \in Nat /\ Below(F, f) < Below(F, c)
    BY <1>2, <1>8, BelowType, BelowGrows
  <2>3. i \in 1 .. n /\ i - 1 = Below(F, f)
    BY <1>2, <1>3, <2>1, <2>2
  <2>4. reps[i] = f
    BY <1>2, <1>3, <2>3, BelowInjective
  <2>. QED
    BY <2>3, <2>4
<1>. QED
  BY <1>1, <1>2, <1>3, <1>4, <1>5, <1>6, <1>7, <1>8 DEF F

\* The firsts below a prefix are those of any longer one.
LEMMA SameFirsts ==
  ASSUME NEW d \in Domains, NEW s \in CensusStates, NEW t \in CensusStates,
         ListsFirsts(d, s), ListsFirsts(d, t), s.cursor <= t.cursor
  PROVE  /\ Len(s.representatives) <= Len(t.representatives)
         /\ \A i \in 1 .. Len(s.representatives) :
              s.representatives[i] = t.representatives[i]
<1>. DEFINE F == Firsts(d)
<1>1. PICK m, n : m = Len(s.representatives) /\ n = Len(t.representatives)
  OBVIOUS
<1>2. m \in Nat /\ n \in Nat /\ F \in SUBSET Nat /\ s.cursor \in Nat /\ t.cursor \in Nat
  BY <1>1, StateFields, LenProperties, DomainTypes
<1>3. /\ m = Below(F, s.cursor) /\ n = Below(F, t.cursor)
      /\ \A i \in 1 .. m : s.representatives[i] \in F /\ Below(F, s.representatives[i]) = i - 1
      /\ \A i \in 1 .. n : t.representatives[i] \in F /\ Below(F, t.representatives[i]) = i - 1
  BY <1>1 DEF ListsFirsts
<1>. HIDE DEF F
<1>4. m <= n
  BY <1>2, <1>3, BelowMonotone
<1>5. ASSUME NEW i \in 1 .. m PROVE s.representatives[i] = t.representatives[i]
  <2>1. i \in 1 .. n
    BY <1>2, <1>4
  <2>2. /\ s.representatives[i] \in F /\ t.representatives[i] \in F
        /\ Below(F, s.representatives[i]) = Below(F, t.representatives[i])
    BY <1>3, <2>1
  <2>3. \A a, b \in F : Below(F, a) = Below(F, b) => a = b
    BY <1>2, BelowInjective
  <2>. QED
    BY <2>2, <2>3
<1>. QED
  BY <1>1, <1>4, <1>5

\* The assignments are those of the duplicates, and each names the first of its class.
AssignsTo(d, s) ==
  \A i \in 1 .. Len(s.assignments) :
    /\ s.assignments[i].representative \in 1 .. Len(s.representatives)
    /\ d.class[s.assignments[i].cursor]
         = d.class[s.representatives[s.assignments[i].representative]]

\* Of two states of an enumeration, the later begins with the assignments
\* of the earlier.
LEMMA SameAssignments ==
  ASSUME NEW d \in Domains, NEW s \in CensusStates, NEW t \in CensusStates,
         s.limits.retention = "all_assignments", t.limits.retention = "all_assignments",
         Enumerated(d, s), Enumerated(d, t), AssignsTo(d, s), AssignsTo(d, t),
         s.cursor <= t.cursor
  PROVE  /\ Len(s.assignments) <= Len(t.assignments)
         /\ \A i \in 1 .. Len(s.assignments) : s.assignments[i] = t.assignments[i]
<1>. DEFINE D == Duplicates(d)
            A == [cursor : Nat, representative : Nat]
<1>1. PICK m, n : m = Len(s.assignments) /\ n = Len(t.assignments)
  OBVIOUS
<1>2. /\ m \in Nat /\ n \in Nat /\ D \in SUBSET Nat /\ s.cursor \in Nat /\ t.cursor \in Nat
      /\ s.assignments \in Seq(A) /\ t.assignments \in Seq(A)
  BY <1>1, StateFields, LenProperties, DomainTypes
<1>3. /\ m = Below(D, s.cursor) /\ n = Below(D, t.cursor)
      /\ \A i \in 1 .. m : s.assignments[i].cursor \in D /\ Below(D, s.assignments[i].cursor) = i - 1
      /\ \A i \in 1 .. n : t.assignments[i].cursor \in D /\ Below(D, t.assignments[i].cursor) = i - 1
  BY <1>1 DEF Enumerated, ListsDuplicates
<1>. HIDE DEF D
<1>4. m <= n
  BY <1>2, <1>3, BelowMonotone
<1>5. ASSUME NEW i \in 1 .. m PROVE s.assignments[i] = t.assignments[i]
  <2>1. i \in 1 .. n
    BY <1>2, <1>4
  <2>2. s.assignments[i].cursor = t.assignments[i].cursor
    <3>1. /\ s.assignments[i].cursor \in D /\ t.assignments[i].cursor \in D
          /\ Below(D, s.assignments[i].cursor) = Below(D, t.assignments[i].cursor)
      BY <1>3, <2>1
    <3>2. \A a, b \in D : Below(D, a) = Below(D, b) => a = b
      BY <1>2, BelowInjective
    <3>. QED
      BY <3>1, <3>2
  <2>3. PICK j, k : j = s.assignments[i].representative /\ k = t.assignments[i].representative
    OBVIOUS
  <2>4. /\ j \in 1 .. Len(s.representatives) /\ k \in 1 .. Len(t.representatives)
        /\ d.class[s.representatives[j]] = d.class[t.representatives[k]]
    BY <1>1, <2>1, <2>2, <2>3 DEF AssignsTo
  <2>5. /\ s.representatives[j] \in Firsts(d) /\ t.representatives[k] \in Firsts(d)
        /\ j \in 1 .. Len(t.representatives) /\ s.representatives[j] = t.representatives[j]
    <3>1. ListsFirsts(d, s) /\ ListsFirsts(d, t)
      BY DEF Enumerated
    <3>. QED
      BY <2>4, <3>1, ListedFirsts, SameFirsts
  <2>6. t.representatives[j] = t.representatives[k]
    BY <2>4, <2>5, FirstsDiffer
  <2>7. j = k
    BY <2>4, <2>5, <2>6, ListedFirsts DEF Enumerated
  <2>8. s.assignments[i] \in A /\ t.assignments[i] \in A
    BY <1>1, <1>2, <2>1, ElementOfSeq
  <2>9. \A a, b \in A : a.cursor = b.cursor /\ a.representative = b.representative => a = b
    OBVIOUS
  <2>. QED
    BY <2>2, <2>3, <2>7, <2>8, <2>9
<1>. QED
  BY <1>1, <1>4, <1>5

-----------------------------------------------------------------------------
(* The comparisons of the candidate at the cursor.                         *)

\* the answers to the comparisons before representative r
Passed(d, s, r) ==
  \A i \in 1 .. r - 1 : d.compare[<<s.cursor, s.representatives[i]>>] = "not_isomorphic"

\* the comparisons with the first j representatives
With(s, j) == {<<s.cursor, s.representatives[i]>> : i \in 1 .. j}

\* The answers are certified.
LEMMA AnswersAreTrue ==
  ASSUME NEW d \in Domains, NEW s \in CensusStates, ListsFirsts(d, s),
         s.cursor \in Modules(d), NEW i \in 1 .. Len(s.representatives)
  PROVE  LET answer == d.compare[<<s.cursor, s.representatives[i]>>]
         IN /\ answer \in CompareResults
            /\ answer = "isomorphic" => d.class[s.cursor] = d.class[s.representatives[i]]
            /\ answer = "not_isomorphic" => d.class[s.cursor] # d.class[s.representatives[i]]
<1>1. s.cursor \in Candidates(d) /\ s.representatives[i] \in Candidates(d)
  BY DomainTypes, ListedFirsts
<1>. QED
  BY <1>1, DomainTypes DEF CertifiedComparison

\* A module told apart from every representative is the first of its class ...
LEMMA ToldApart ==
  ASSUME NEW d \in Domains, NEW s \in CensusStates, ListsFirsts(d, s),
         s.cursor \in Modules(d), Passed(d, s, Len(s.representatives) + 1)
  PROVE  s.cursor \in Firsts(d)
<1>1. PICK n, c, reps : n = Len(s.representatives) /\ c = s.cursor /\ reps = s.representatives
  OBVIOUS
<1>2. n \in Nat /\ c \in Nat
  BY <1>1, ListedFirsts, StateFields
<1>3. SUFFICES ASSUME NEW b \in Modules(d), b < c, d.class[b] = d.class[c] PROVE FALSE
  BY <1>1 DEF Firsts
<1>4. PICK f \in Firsts(d) : f <= b /\ d.class[f] = d.class[b]
  BY FirstOfClass
<1>5. f < c
  BY <1>2, <1>3, <1>4, DomainTypes
<1>6. PICK i \in 1 .. n : reps[i] = f
  BY <1>1, <1>2, <1>5, ListedFirsts
<1>7. d.compare[<<c, reps[i]>>] = "not_isomorphic"
  BY <1>1, <1>2, <1>6 DEF Passed
<1>. QED
  BY <1>1, <1>3, <1>4, <1>6, <1>7, AnswersAreTrue

\* ... and one isomorphic to a representative is not.
LEMMA FoundClass ==
  ASSUME NEW d \in Domains, NEW s \in CensusStates, ListsFirsts(d, s),
         s.cursor \in Modules(d), NEW r \in 1 .. Len(s.representatives),
         d.compare[<<s.cursor, s.representatives[r]>>] = "isomorphic"
  PROVE  s.cursor \in Duplicates(d)
<1>1. d.class[s.cursor] = d.class[s.representatives[r]]
  BY AnswersAreTrue
<1>2. s.representatives[r] \in Modules(d) /\ s.representatives[r] < s.cursor
  BY ListedFirsts, DomainTypes
<1>. QED
  BY <1>1, <1>2 DEF Firsts, Duplicates

\* The comparisons made are those before the cursor and those with the first
\* j representatives, counted once each.
LEMMA WithCounts ==
  ASSUME NEW d \in Domains, NEW s \in CensusStates, ListsFirsts(d, s),
         NEW j \in 0 .. Len(s.representatives)
  PROVE  /\ IsFiniteSet(Comparisons(d, s.cursor) \cup With(s, j))
         /\ Cardinality(Comparisons(d, s.cursor) \cup With(s, j)) = Required(d, s.cursor) + j
<1>1. PICK n, c, reps : n = Len(s.representatives) /\ c = s.cursor /\ reps = s.representatives
  OBVIOUS
<1>2. n \in Nat /\ c \in Nat /\ j \in Nat /\ j <= n
  BY <1>1, ListedFirsts, StateFields
<1>20. \A i, k \in 1 .. n : reps[i] = reps[k] => i = k
  BY <1>1, ListedFirsts
<1>3. PICK f : f = [i \in 1 .. j |-> <<c, reps[i]>>]
  OBVIOUS
<1>4. PICK W : W = {<<c, reps[i]>> : i \in 1 .. j} /\ W = With(s, j)
  BY <1>1 DEF With
<1>5. f \in Bijection(1 .. j, W)
  <2>1. f \in [1 .. j -> W]
    BY <1>3, <1>4
  <2>2. \A x, y \in 1 .. j : f[x] = f[y] => x = y
    BY <1>2, <1>20, <1>3
  <2>3. \A w \in W : \E x \in 1 .. j : f[x] = w
    BY <1>3, <1>4
  <2>. QED
    BY <2>1, <2>2, <2>3 DEF Bijection, Injection, Surjection, IsInjective
<1>6. IsFiniteSet(W) /\ Cardinality(W) = j
  <2>1. IsFiniteSet(1 .. j) /\ Cardinality(1 .. j) = j /\ ExistsBijection(1 .. j, W)
    BY <1>2, <1>5, FS_Interval DEF ExistsBijection
  <2>. QED
    BY <2>1, FS_Bijection
<1>7. Comparisons(d, c) \cap W = {}
  <2>1. \A p \in Comparisons(d, c) : p[1] < c
    BY DEF Comparisons
  <2>2. \A p \in W : p[1] = c
    BY <1>4
  <2>. QED
    BY <1>2, <2>1, <2>2
<1>8. IsFiniteSet(Comparisons(d, c)) /\ Required(d, c) \in Nat
  BY <1>2, ComparisonsFinite
<1>9. Cardinality(Comparisons(d, c) \cap W) = 0
  BY <1>7, FS_EmptySet
<1>10. /\ IsFiniteSet(Comparisons(d, c) \cup W)
       /\ Cardinality(Comparisons(d, c) \cup W) = Required(d, c) + j
  <2>1. PICK A : A = Comparisons(d, c)
    OBVIOUS
  <2>2. /\ IsFiniteSet(A \cup W)
        /\ Cardinality(A \cup W) = Cardinality(A) + Cardinality(W) - Cardinality(A \cap W)
    BY <1>6, <1>8, <2>1, FS_Union
  <2>3. Cardinality(A) = Required(d, c)
    BY <2>1 DEF Required
  <2>. QED
    BY <1>2, <1>6, <1>8, <1>9, <2>1, <2>2, <2>3
<1>. QED
  BY <1>1, <1>4, <1>10

\* A comparison whose predecessors told the classes apart is required.
LEMMA WithRequired ==
  ASSUME NEW d \in Domains, NEW s \in CensusStates, ListsFirsts(d, s),
         s.cursor \in Modules(d), NEW j \in 0 .. Len(s.representatives), Passed(d, s, j)
  PROVE  With(s, j) \subseteq Comparisons(d, s.cursor + 1)
<1>1. PICK n, c, reps : n = Len(s.representatives) /\ c = s.cursor /\ reps = s.representatives
  OBVIOUS
<1>2. /\ n \in Nat /\ c \in Nat /\ j \in Nat /\ j <= n
      /\ \A i \in 1 .. n : reps[i] \in Firsts(d) /\ reps[i] \in Nat /\ reps[i] < c
      /\ \A i, k \in 1 .. n : reps[i] < reps[k] => i < k
      /\ \A f \in Firsts(d) : f < c => \E i \in 1 .. n : reps[i] = f
  BY <1>1, ListedFirsts, StateFields
<1>3. \A i \in 1 .. n : i < j => d.class[reps[i]] # d.class[c]
  <2>. SUFFICES ASSUME NEW i \in 1 .. n, i < j PROVE d.class[reps[i]] # d.class[c]
    OBVIOUS
  <2>1. d.compare[<<c, reps[i]>>] = "not_isomorphic"
    <3>1. i \in 1 .. j - 1
      BY <1>2
    <3>. QED
      BY <1>1, <3>1 DEF Passed
  <2>. QED
    BY <1>1, <2>1, AnswersAreTrue
<1>4. SUFFICES ASSUME NEW i \in 1 .. j PROVE <<c, reps[i]>> \in Comparisons(d, c + 1)
  BY <1>1 DEF With
<1>5. i \in 1 .. n /\ i <= j
  BY <1>2
<1>6. ASSUME NEW b \in Modules(d), b < reps[i], d.class[b] = d.class[c]
      PROVE  FALSE
  <2>1. PICK f \in Firsts(d) : f <= b /\ d.class[f] = d.class[b]
    BY FirstOfClass
  <2>2. f \in Nat /\ b \in Nat /\ reps[i] \in Nat /\ reps[i] < c
    BY <1>2, <1>5, DomainTypes
  <2>3. f < reps[i] /\ f < c
    BY <1>2, <1>6, <2>1, <2>2
  <2>4. PICK k \in 1 .. n : reps[k] = f
    BY <1>2, <2>3
  <2>5. k < i
    BY <1>2, <1>5, <2>3, <2>4
  <2>6. k < j
    BY <1>2, <1>5, <2>5
  <2>. QED
    BY <1>3, <1>6, <2>1, <2>4, <2>6
<1>7. c \in Modules(d) /\ reps[i] \in Firsts(d) /\ reps[i] < c /\ c < c + 1
  BY <1>1, <1>2, <1>5
<1>. QED
  BY <1>6, <1>7 DEF Comparisons

\* No other comparison is, once one found the class or all were made.
LEMMA NothingElse ==
  ASSUME NEW d \in Domains, NEW s \in CensusStates, ListsFirsts(d, s),
         NEW j \in 0 .. Len(s.representatives),
         \/ j = Len(s.representatives)
         \/ j > 0 /\ d.class[s.cursor] = d.class[s.representatives[j]]
  PROVE  Comparisons(d, s.cursor + 1) \subseteq Comparisons(d, s.cursor) \cup With(s, j)
<1>1. PICK n, c, reps : n = Len(s.representatives) /\ c = s.cursor /\ reps = s.representatives
  OBVIOUS
<1>2. /\ n \in Nat /\ c \in Nat /\ j \in Nat /\ j <= n
      /\ \A i \in 1 .. n : reps[i] \in Firsts(d) /\ reps[i] \in Nat
      /\ \A i, k \in 1 .. n : reps[i] < reps[k] => i < k
      /\ \A i, k \in 1 .. n : reps[i] = reps[k] => i = k
      /\ \A f \in Firsts(d) : f < c => \E i \in 1 .. n : reps[i] = f
  BY <1>1, ListedFirsts, StateFields
<1>3. SUFFICES ASSUME NEW p \in Comparisons(d, c + 1), p \notin Comparisons(d, c)
               PROVE  \E i \in 1 .. j : p = <<c, reps[i]>>
  BY <1>1 DEF With
<1>4. /\ p \in Modules(d) \X Firsts(d) /\ p[2] < p[1] /\ p[1] < c + 1 /\ ~(p[1] < c)
      /\ \A b \in Modules(d) : b < p[2] => d.class[b] # d.class[p[1]]
  BY <1>3 DEF Comparisons
<1>5. PICK f \in Firsts(d) : p = <<c, f>> /\ f < c
  <2>1. p[1] \in Nat /\ p[1] = c /\ p[2] \in Firsts(d) /\ p = <<p[1], p[2]>>
    BY <1>2, <1>4, DomainTypes
  <2>. QED
    BY <1>4, <2>1
<1>6. PICK i \in 1 .. n : reps[i] = f
  BY <1>2, <1>5
<1>7. CASE j = n
  BY <1>5, <1>6, <1>7
<1>8. CASE j > 0 /\ d.class[c] = d.class[reps[j]]
  <2>1. j \in 1 .. n /\ reps[j] \in Modules(d)
    BY <1>2, <1>8, DomainTypes
  <2>2. ~(reps[j] < f)
    BY <1>4, <1>5, <1>8, <2>1
  <2>3. reps[j] \in Nat /\ f \in Nat
    BY <1>2, <1>6, <2>1
  <2>4. f < reps[j] \/ f = reps[j]
    BY <2>2, <2>3
  <2>5. i <= j
    BY <1>2, <1>6, <2>1, <2>4
  <2>. QED
    BY <1>2, <1>5, <1>6, <2>5
<1>. QED
  BY <1>1, <1>7, <1>8

\* How many comparisons a module takes: at least those made so far ...
LEMMA RequiredAtLeast ==
  ASSUME NEW d \in Domains, NEW s \in CensusStates, ListsFirsts(d, s),
         s.cursor \in Modules(d), NEW j \in 0 .. Len(s.representatives), Passed(d, s, j)
  PROVE  Required(d, s.cursor) + j <= Required(d, s.cursor + 1)
<1>1. s.cursor \in Nat /\ s.cursor + 1 \in Nat /\ s.cursor <= s.cursor + 1
  BY StateFields
<1>2. Comparisons(d, s.cursor) \cup With(s, j) \in SUBSET Comparisons(d, s.cursor + 1)
  BY <1>1, WithRequired, RequiredMonotone
<1>. QED
  BY <1>1, <1>2, WithCounts, ComparisonsFinite, FS_Subset, ZenonT(40) DEF Required

\* ... and no more when the last of them found the class, or none was left.
LEMMA RequiredExactly ==
  ASSUME NEW d \in Domains, NEW s \in CensusStates, ListsFirsts(d, s),
         s.cursor \in Modules(d), NEW j \in 0 .. Len(s.representatives), Passed(d, s, j),
         \/ j = Len(s.representatives)
         \/ j > 0 /\ d.class[s.cursor] = d.class[s.representatives[j]]
  PROVE  /\ Comparisons(d, s.cursor + 1) = Comparisons(d, s.cursor) \cup With(s, j)
         /\ Required(d, s.cursor + 1) = Required(d, s.cursor) + j
<1>1. s.cursor \in Nat /\ s.cursor + 1 \in Nat /\ s.cursor <= s.cursor + 1
  BY StateFields
<1>2. Comparisons(d, s.cursor + 1) = Comparisons(d, s.cursor) \cup With(s, j)
  BY <1>1, WithRequired, NothingElse, RequiredMonotone
<1>. QED
  BY <1>2, WithCounts DEF Required

-----------------------------------------------------------------------------
(* Every commit enumerates one candidate more.                             *)

\* The initial state is a prefix of the enumeration.
LEMMA EmptyEnumerated ==
  ASSUME NEW d \in Domains, NEW l \in CensusLimits
  PROVE  Enumerated(d, Empty(l))
<1>1. /\ Empty(l).cursor = 0 /\ Empty(l).accepted_modules = 0
      /\ Len(Empty(l).representatives) = 0 /\ Len(Empty(l).assignments) = 0
  BY DEF Empty
<1>2. /\ Below(Modules(d), 0) = 0 /\ Below(Firsts(d), 0) = 0 /\ Below(Duplicates(d), 0) = 0
  BY DomainTypes, BelowZero
<1>3. Comparisons(d, 0) = {}
  BY DomainTypes DEF Comparisons
<1>. QED
  BY <1>1, <1>2, <1>3 DEF Enumerated, ListsFirsts, ListsDuplicates, Decided

\* A state that differs only in its counters and limits is the same prefix.
LEMMA SameEnumerated ==
  ASSUME NEW d \in Domains, NEW s \in CensusStates, NEW t \in CensusStates,
         Enumerated(d, s), t.cursor = s.cursor, t.representatives = s.representatives,
         t.accepted_modules = s.accepted_modules, t.assignments = s.assignments,
         t.limits.retention = s.limits.retention
  PROVE  Enumerated(d, t)
BY DEF Enumerated, ListsFirsts, ListsDuplicates, Decided

\* Rejecting a candidate that is no module gives the next prefix.
LEMMA RejectEnumerates ==
  ASSUME NEW d \in Domains, NEW s \in CensusStates, NEW t \in CensusStates,
         Enumerated(d, s), s.cursor \notin Modules(d),
         t.cursor = s.cursor + 1, t.representatives = s.representatives,
         t.accepted_modules = s.accepted_modules, t.assignments = s.assignments,
         t.limits.retention = s.limits.retention
  PROVE  Enumerated(d, t) /\ Required(d, t.cursor) = Required(d, s.cursor)
<1>1. s.cursor \in Nat /\ s.cursor \notin Firsts(d) /\ s.cursor \notin Duplicates(d)
  BY StateFields, DomainTypes DEF Duplicates
<1>2. /\ Below(Modules(d), s.cursor + 1) = Below(Modules(d), s.cursor)
      /\ Below(Firsts(d), s.cursor + 1) = Below(Firsts(d), s.cursor)
      /\ Below(Duplicates(d), s.cursor + 1) = Below(Duplicates(d), s.cursor)
  BY <1>1, DomainTypes, BelowNext
<1>3. Comparisons(d, s.cursor + 1) = Comparisons(d, s.cursor)
  BY <1>1, NothingRequired
<1>. QED
  BY <1>2, <1>3 DEF Enumerated, ListsFirsts, ListsDuplicates, Decided, Required

\* A candidate that was told apart from every representative is the first of its class.
LEMMA KeepEnumerates ==
  ASSUME NEW d \in Domains, NEW s \in CensusStates, NEW t \in CensusStates,
         Enumerated(d, s), s.cursor \in Modules(d),
         Passed(d, s, Len(s.representatives) + 1),
         t.cursor = s.cursor + 1, t.representatives = Append(s.representatives, s.cursor),
         t.accepted_modules = s.accepted_modules + 1, t.assignments = s.assignments,
         t.limits.retention = s.limits.retention
  PROVE  /\ Enumerated(d, t) /\ s.cursor \in Firsts(d)
         /\ Required(d, t.cursor) = Required(d, s.cursor) + Len(s.representatives)
<1>1. PICK n, c, reps : n = Len(s.representatives) /\ c = s.cursor /\ reps = s.representatives
  OBVIOUS
<1>2. n \in Nat /\ c \in Nat /\ reps \in Seq(Nat) /\ ListsFirsts(d, s)
  BY <1>1, ListedFirsts, StateFields DEF Enumerated
<1>3. c \in Firsts(d)
  BY <1>1, <1>2, ToldApart
<1>4. c \notin Duplicates(d) /\ c \in Modules(d)
  BY <1>1, <1>3 DEF Duplicates
<1>5. ListsFirsts(d, t)
  <2>1. PICK F, g : F = Firsts(d) /\ g = t.representatives
    OBVIOUS
  <2>2. n = Below(F, c) /\ \A i \in 1 .. n : reps[i] \in F /\ Below(F, reps[i]) = i - 1
    BY <1>1, <1>2, <2>1 DEF ListsFirsts
  <2>3. Len(g) = n + 1 /\ (\A i \in 1 .. n : g[i] = reps[i]) /\ g[n + 1] = c
    BY <1>1, <1>2, <2>1
  <2>4. F \in SUBSET Nat /\ c \in F
    BY <1>3, <2>1, DomainTypes
  <2>5. n + 1 = Below(F, c + 1) /\ \A i \in 1 .. n + 1 : g[i] \in F /\ Below(F, g[i]) = i - 1
    <3>1. n + 1 = Below(F, c + 1)
      BY <1>2, <2>2, <2>4, BelowNext
    <3>2. ASSUME NEW i \in 1 .. n + 1 PROVE g[i] \in F /\ Below(F, g[i]) = i - 1
      <4>1. i \in 1 .. n \/ i = n + 1
        BY <1>2
      <4>. QED
        BY <1>2, <2>2, <2>3, <2>4, <4>1
    <3>. QED
      BY <3>1, <3>2
  <2>. QED
    BY <1>1, <2>1, <2>3, <2>5 DEF ListsFirsts
<1>6. t.accepted_modules = Below(Modules(d), t.cursor)
  BY <1>1, <1>2, <1>4, DomainTypes, BelowNext DEF Enumerated
<1>7. ListsDuplicates(d, t)
  <2>1. Below(Duplicates(d), c + 1) = Below(Duplicates(d), c)
    BY <1>2, <1>4, DomainTypes, BelowNext
  <2>. QED
    BY <1>1, <2>1 DEF Enumerated, ListsDuplicates
<1>8. Passed(d, s, n)
  BY <1>1, <1>2, SMTT(30) DEF Passed
<1>9. /\ Comparisons(d, c + 1) = Comparisons(d, c) \cup With(s, n)
      /\ Required(d, c + 1) = Required(d, c) + n
  <2>1. n \in 0 .. n
    BY <1>2
  <2>. QED
    BY <1>1, <1>2, <1>8, <2>1, RequiredExactly
<1>10. Decided(d, t)
  <2>1. \A p \in With(s, n) : d.compare[p] = "not_isomorphic"
    BY <1>1, <1>2 DEF With, Passed
  <2>. QED
    BY <1>1, <1>9, <2>1 DEF Enumerated, Decided
<1>. QED
  BY <1>1, <1>3, <1>5, <1>6, <1>7, <1>9, <1>10 DEF Enumerated

\* A candidate isomorphic to a representative is a duplicate, recorded or not.
LEMMA DuplicateEnumerates ==
  ASSUME NEW d \in Domains, NEW s \in CensusStates, NEW t \in CensusStates,
         Enumerated(d, s), s.cursor \in Modules(d),
         NEW r \in 1 .. Len(s.representatives), Passed(d, s, r),
         d.compare[<<s.cursor, s.representatives[r]>>] = "isomorphic",
         t.cursor = s.cursor + 1, t.representatives = s.representatives,
         t.accepted_modules = s.accepted_modules + 1,
         s.limits.retention = "all_assignments" =>
           t.assignments = Append(s.assignments, [cursor |-> s.cursor, representative |-> r]),
         t.limits.retention = s.limits.retention
  PROVE  /\ Enumerated(d, t) /\ s.cursor \in Duplicates(d)
         /\ Required(d, t.cursor) = Required(d, s.cursor) + r
<1>1. PICK n, c, reps : n = Len(s.representatives) /\ c = s.cursor /\ reps = s.representatives
  OBVIOUS
<1>2. n \in Nat /\ c \in Nat /\ reps \in Seq(Nat) /\ ListsFirsts(d, s)
  BY <1>1, ListedFirsts, StateFields DEF Enumerated
<1>3. d.class[c] = d.class[reps[r]]
  BY <1>1, <1>2, AnswersAreTrue
<1>4. c \notin Firsts(d)
  BY <1>1, <1>2, FoundClass DEF Duplicates
<1>5. c \in Duplicates(d) /\ c \in Modules(d)
  BY <1>1, <1>4 DEF Duplicates
<1>6. ListsFirsts(d, t)
  <2>1. Below(Firsts(d), c + 1) = Below(Firsts(d), c)
    BY <1>2, <1>4, DomainTypes, BelowNext
  <2>. QED
    BY <1>1, <1>2, <2>1 DEF ListsFirsts
<1>7. t.accepted_modules = Below(Modules(d), t.cursor)
  <2>1. Below(Modules(d), c + 1) = Below(Modules(d), c) + 1
    BY <1>2, <1>5, DomainTypes, BelowNext
  <2>. QED
    BY <1>1, <2>1 DEF Enumerated
<1>8. ListsDuplicates(d, t)
  <2>. SUFFICES ASSUME t.limits.retention = "all_assignments"
       PROVE  /\ Len(t.assignments) = Below(Duplicates(d), c + 1)
              /\ \A i \in 1 .. Len(t.assignments) :
                   /\ t.assignments[i].cursor \in Duplicates(d)
                   /\ Below(Duplicates(d), t.assignments[i].cursor) = i - 1
    BY <1>1 DEF ListsDuplicates
  <2>1. PICK D, m : D = Duplicates(d) /\ m = Len(s.assignments)
    OBVIOUS
  <2>2. PICK f, g : /\ f = [i \in 1 .. m |-> s.assignments[i].cursor]
                    /\ g = [i \in 1 .. m + 1 |-> t.assignments[i].cursor]
    OBVIOUS
  <2>3. m \in Nat /\ s.assignments \in Seq([cursor : Nat, representative : Nat])
    BY <2>1, StateFields, LenProperties
  <2>4. /\ Len(t.assignments) = m + 1
        /\ \A i \in 1 .. m : t.assignments[i] = s.assignments[i]
        /\ t.assignments[m + 1].cursor = c
    <3>1. PICK e, a : e = [cursor |-> c, representative |-> r] /\ a = s.assignments
      OBVIOUS
    <3>2. r \in Nat
      BY <1>1, <1>2
    <3>3. e \in [cursor : Nat, representative : Nat] /\ e.cursor = c
      BY <1>2, <3>1, <3>2
    <3>4. t.assignments = Append(a, e) /\ m = Len(a)
      BY <1>1, <2>1, <3>1
    <3>5. /\ Len(Append(a, e)) = m + 1 /\ Append(a, e)[m + 1] = e
          /\ \A i \in 1 .. m : Append(a, e)[i] = a[i]
      BY <2>3, <3>1, <3>3, <3>4, AppendProperties
    <3>. QED
      BY <3>1, <3>3, <3>4, <3>5
  <2>5. m = Below(D, c) /\ \A i \in 1 .. m : f[i] \in D /\ Below(D, f[i]) = i - 1
    BY <1>1, <2>1, <2>2 DEF Enumerated, ListsDuplicates
  <2>6. (\A i \in 1 .. m : g[i] = f[i]) /\ g[m + 1] = c
    <3>1. m + 1 \in 1 .. m + 1 /\ \A i \in 1 .. m : i \in 1 .. m + 1
      BY <2>3
    <3>2. g[m + 1] = c
      BY <2>2, <2>4, <3>1
    <3>3. ASSUME NEW i \in 1 .. m PROVE g[i] = f[i]
      <4>1. g[i] = t.assignments[i].cursor
        BY <2>2, <3>1
      <4>2. f[i] = s.assignments[i].cursor
        BY <2>2
      <4>. QED
        BY <2>4, <4>1, <4>2
    <3>. QED
      BY <3>2, <3>3
  <2>7. D \in SUBSET Nat /\ c \in D
    BY <1>5, <2>1, DomainTypes
  <2>8. m + 1 = Below(D, c + 1) /\ \A i \in 1 .. m + 1 : g[i] \in D /\ Below(D, g[i]) = i - 1
    <3>1. m + 1 = Below(D, c + 1)
      BY <1>2, <2>5, <2>7, BelowNext
    <3>2. ASSUME NEW i \in 1 .. m + 1 PROVE g[i] \in D /\ Below(D, g[i]) = i - 1
      <4>1. CASE i \in 1 .. m
        BY <2>5, <2>6, <4>1
      <4>2. CASE i = m + 1
        <5>1. g[i] = c /\ i - 1 = m
          BY <2>3, <2>6, <4>2
        <5>. QED
          BY <2>5, <2>7, <5>1
      <4>. QED
        BY <2>3, <4>1, <4>2
    <3>. QED
      BY <3>1, <3>2
  <2>. QED
    BY <2>1, <2>2, <2>4, <2>8
<1>9. /\ Comparisons(d, c + 1) = Comparisons(d, c) \cup With(s, r)
      /\ Required(d, c + 1) = Required(d, c) + r
  <2>1. r \in 0 .. n /\ r > 0
    BY <1>1, <1>2
  <2>. QED
    BY <1>1, <1>2, <1>3, <2>1, RequiredExactly
<1>10. Decided(d, t)
  <2>1. \A p \in With(s, r) : d.compare[p] \in {"isomorphic", "not_isomorphic"}
    <3>. SUFFICES ASSUME NEW i \in 1 .. r
         PROVE  d.compare[<<c, reps[i]>>] \in {"isomorphic", "not_isomorphic"}
      BY <1>1 DEF With
    <3>1. i = r \/ i \in 1 .. r - 1
      BY <1>1, <1>2
    <3>. QED
      BY <1>1, <3>1 DEF Passed
  <2>. QED
    BY <1>1, <1>9, <2>1 DEF Enumerated, Decided
<1>. QED
  BY <1>1, <1>5, <1>6, <1>7, <1>8, <1>9, <1>10 DEF Enumerated

-----------------------------------------------------------------------------
(* Where an enumeration stops: at the top of the loop (position 0) or at   *)
(* a comparison of the candidate at the cursor (its position, with one     *)
(* past the last representative for the keeping of a new one).             *)

Begun(d, s) == s.cursor \in Modules(d) /\ s.cursor < s.limits.max_candidates

Answer(d, s, r) == d.compare[<<s.cursor, s.representatives[r]>>]

\* a fresh enumeration can pay for the comparison at position r
Affords(d, s, r) ==
  /\ Required(d, s.cursor) + r - 1 < s.limits.max_isomorphism_checks
  /\ s.cursor + Required(d, s.cursor) + r < s.limits.max_work_units

\* a fresh enumeration gets to position r
Arrives(d, s, r) ==
  /\ Begun(d, s)
  /\ s.cursor + Required(d, s.cursor) < s.limits.max_work_units
  /\ r \in 1 .. Len(s.representatives) + 1
  /\ Passed(d, s, r)
  /\ r > 1 => Affords(d, s, r - 1)

StopsAtTop(d, o) ==
  LET s == o.state IN
  \/ o.kind = "complete" /\ o.reason = "none" /\ s.cursor = d.size
  \/ o.kind = "cut" /\ o.reason = "cancelled"
  \/ /\ o.kind = "cut" /\ o.reason = "candidate_limit" /\ s.cursor < d.size
     /\ s.cursor >= s.limits.max_candidates
  \/ /\ o.kind = "cut" /\ o.reason = "work_limit_candidate" /\ s.cursor < d.size
     /\ s.cursor < s.limits.max_candidates
     /\ s.cursor + Required(d, s.cursor) >= s.limits.max_work_units
  \/ /\ o.kind = "failed" /\ o.reason = "none" /\ s.cursor < d.size
     /\ s.cursor < s.limits.max_candidates
     /\ s.cursor + Required(d, s.cursor) < s.limits.max_work_units
     /\ d.build[s.cursor] = "construction_error"

StopsComparing(d, o, r) ==
  LET s == o.state IN
  /\ r <= Len(s.representatives)
  /\ \/ /\ o.kind = "cut" /\ o.reason = "isomorphism_limit"
        /\ Required(d, s.cursor) + r - 1 >= s.limits.max_isomorphism_checks
     \/ /\ o.kind = "cut" /\ o.reason = "work_limit_isomorphism"
        /\ Required(d, s.cursor) + r - 1 < s.limits.max_isomorphism_checks
        /\ s.cursor + Required(d, s.cursor) + r >= s.limits.max_work_units
     \/ /\ Affords(d, s, r)
        /\ \/ o.kind = "failed" /\ o.reason = "none" /\ Answer(d, s, r) = "error"
           \/ o.kind = "cut" /\ o.reason = "unknown_isomorphism" /\ Answer(d, s, r) = "unknown"
           \/ /\ o.kind = "cut" /\ o.reason = "assignment_limit"
              /\ Answer(d, s, r) = "isomorphic"
              /\ s.limits.retention = "all_assignments"
              /\ Len(s.assignments) >= s.limits.max_assignments

StopsKeeping(o, r) ==
  /\ r = Len(o.state.representatives) + 1
  /\ o.kind = "cut" /\ o.reason = "representative_limit"
  /\ Len(o.state.representatives) >= o.state.limits.max_representatives

\* the comparisons of the candidate at the cursor that the outcome keeps
Charged(o, r) ==
  IF o.reason \in {"unknown_isomorphism", "assignment_limit"} THEN r
  ELSE IF o.reason \in MidCandidateReasons THEN r - 1
  ELSE 0

Halts(d, o, r) ==
  /\ o.state.isomorphism_checks = Required(d, o.state.cursor) + Charged(o, r)
  /\ \/ r = 0 /\ StopsAtTop(d, o)
     \/ /\ r > 0
        /\ Arrives(d, o.state, r)
        /\ StopsComparing(d, o, r) \/ StopsKeeping(o, r)

Halted(d, o) == \E r \in Nat : Halts(d, o, r)

-----------------------------------------------------------------------------
(* A replay stops where the outcome it is judged by stopped.               *)

\* what the classification proof knows of a state
Sane(d, s) ==
  /\ s.cursor <= d.size
  /\ s.candidates = s.cursor
  /\ s.candidates = s.accepted_modules + s.rejected_candidates
  /\ s.limits.retention # "all_assignments" => s.assignments = <<>>
  /\ AssignsTo(d, s)
  /\ \A c \in 0 .. s.cursor - 1 : d.build[c] # "construction_error"

\* A sound state has counts, assignments and built candidates that fit its cursor.
LEMMA SoundSane ==
  ASSUME NEW s, Sound(s)
  PROVE  Sane(domain, s)
BY DEF Sound, VerifyStateData, Classified, EveryModuleIsClassified, AssignmentsAreCorrect,
       SameClass, Sane, AssignsTo

\* The limits of a state, as plain numbers.
LEMMA CeilingTypes ==
  ASSUME NEW s \in CensusStates
  PROVE  /\ s.limits.max_candidates \in Nat /\ s.limits.max_representatives \in Nat
         /\ s.limits.max_assignments \in Nat /\ s.limits.max_isomorphism_checks \in Nat
         /\ s.limits.max_work_units \in Nat
         /\ s.cursor \in Nat /\ s.candidates \in Nat /\ s.isomorphism_checks \in Nat
         /\ s.work_units \in Nat
         /\ Len(s.representatives) \in Nat /\ Len(s.assignments) \in Nat
<1>1. s.limits \in CensusLimits
  BY StateFields
<1>2. Len(s.representatives) \in Nat /\ Len(s.assignments) \in Nat
  BY StateFields, LenProperties
<1>. QED
  BY <1>1, <1>2, StateFields DEF CensusLimits

\* No state within the same limits goes on beyond a stop.
LEMMA NoneGoesOn ==
  ASSUME NEW d \in Domains, NEW o \in Outcomes, NEW t \in CensusStates, NEW r \in Nat,
         Enumerated(d, o.state), Enumerated(d, t), Sane(d, t),
         o.state.cursor < t.cursor, t.limits = o.state.limits, WithinLimits(t),
         Required(d, t.cursor) <= t.isomorphism_checks,
         t.cursor + Required(d, t.cursor) <= t.work_units,
         o.reason # "cancelled", Halts(d, o, r)
  PROVE  FALSE
<1>1. PICK s, c, n, L, k : /\ s = o.state /\ c = s.cursor /\ n = t.cursor
                           /\ L = s.limits /\ k = Required(d, c)
  OBVIOUS
<1>2. /\ s \in CensusStates /\ c \in Nat /\ n \in Nat /\ c < n /\ c + 1 <= n /\ n <= d.size
      /\ d.size \in Nat
      /\ L.max_candidates \in Nat /\ L.max_representatives \in Nat
      /\ L.max_assignments \in Nat /\ L.max_isomorphism_checks \in Nat
      /\ L.max_work_units \in Nat
      /\ t.isomorphism_checks \in Nat /\ t.work_units \in Nat
      /\ Len(s.representatives) \in Nat
  <2>1. s \in CensusStates
    BY <1>1 DEF Outcomes
  <2>2. n \in Nat /\ t.isomorphism_checks \in Nat /\ t.work_units \in Nat
    BY <1>1, CeilingTypes
  <2>3. n <= d.size /\ d.size \in Nat /\ c < n
    BY <1>1, DomainTypes DEF Sane
  <2>4. c \in Nat
    BY <1>1, <2>1, CeilingTypes
  <2>5. /\ L.max_candidates \in Nat /\ L.max_representatives \in Nat
        /\ L.max_assignments \in Nat /\ L.max_isomorphism_checks \in Nat
        /\ L.max_work_units \in Nat
        /\ Len(s.representatives) \in Nat
    BY <1>1, <2>1, CeilingTypes
  <2>. QED
    BY <2>1, <2>2, <2>3, <2>4, <2>5
<1>3. /\ Required(d, c + 1) \in Nat /\ Required(d, n) \in Nat /\ k \in Nat
      /\ k <= Required(d, n) /\ Required(d, c + 1) <= Required(d, n)
      /\ Comparisons(d, c + 1) \subseteq Comparisons(d, n)
  <2>1. c + 1 \in Nat /\ c <= n
    BY <1>2
  <2>2. Required(d, c + 1) \in Nat /\ Required(d, n) \in Nat /\ k \in Nat
    BY <1>1, <1>2, <2>1, ComparisonsFinite
  <2>3. k <= Required(d, n)
    BY <1>1, <1>2, <2>1, RequiredMonotone
  <2>. QED
    BY <1>2, <2>1, <2>2, <2>3, RequiredMonotone
<1>4. /\ n <= L.max_candidates /\ Len(t.representatives) <= L.max_representatives
      /\ L.retention = "all_assignments" => Len(t.assignments) <= L.max_assignments
      /\ Required(d, n) <= L.max_isomorphism_checks
      /\ n + Required(d, n) <= L.max_work_units
  <2>1. t.candidates = n /\ t.limits = L
    BY <1>1 DEF Sane
  <2>2. t.isomorphism_checks <= L.max_isomorphism_checks /\ t.work_units <= L.max_work_units
    BY <2>1 DEF WithinLimits
  <2>. QED
    <3>1. /\ n <= L.max_candidates /\ Len(t.representatives) <= L.max_representatives
          /\ L.retention = "all_assignments" => Len(t.assignments) <= L.max_assignments
      BY <2>1 DEF WithinLimits
    <3>2. Required(d, n) <= t.isomorphism_checks /\ n + Required(d, n) <= t.work_units
      BY <1>1
    <3>3. Required(d, n) <= L.max_isomorphism_checks
      BY <1>2, <1>3, <2>2, <3>2
    <3>4. n + Required(d, n) <= L.max_work_units
      BY <1>2, <1>3, <2>2, <3>2
    <3>. QED
      BY <3>1, <3>3, <3>4
<1>5. CASE StopsAtTop(d, o)
  <2>1. d.build[c] # "construction_error"
    <3>1. c \in 0 .. n - 1
      BY <1>2
    <3>. QED
      BY <1>1, <3>1 DEF Sane
  <2>2. CASE s.cursor = d.size
    BY <1>1, <1>2, <2>2
  <2>3. CASE s.cursor >= L.max_candidates
    BY <1>1, <1>2, <1>4, <2>3, SMTT(30)
  <2>4. CASE s.cursor + Required(d, s.cursor) >= L.max_work_units
    <3>1. c + k >= L.max_work_units
      BY <1>1, <2>4
    <3>2. c + k < n + Required(d, n)
      BY <1>2, <1>3
    <3>. QED
      BY <1>2, <1>3, <1>4, <3>1, <3>2, SMTT(30)
  <2>. QED
    BY <1>1, <1>5, <2>1, <2>2, <2>3, <2>4 DEF StopsAtTop
<1>6. ASSUME r > 0, Arrives(d, s, r), StopsComparing(d, o, r)
      PROVE  FALSE
  <2>1. /\ r \in 1 .. Len(s.representatives) /\ r \in 0 .. Len(s.representatives)
        /\ c \in Modules(d) /\ ListsFirsts(d, s) /\ Passed(d, s, r)
    BY <1>1, <1>2, <1>6 DEF StopsComparing, Arrives, Begun, Enumerated
  <2>2. k + r <= Required(d, n)
    <3>1. k + r <= Required(d, c + 1)
      BY <1>1, <1>2, <2>1, RequiredAtLeast
    <3>. QED
      BY <1>3, <3>1
  <2>3. Answer(d, s, r) \in {"isomorphic", "not_isomorphic"}
    <3>1. <<c, s.representatives[r]>> \in With(s, r)
      BY <1>1, <2>1 DEF With
    <3>2. <<c, s.representatives[r]>> \in Comparisons(d, n)
      BY <1>1, <1>2, <1>3, <2>1, <3>1, WithRequired
    <3>. QED
      BY <1>1, <3>2 DEF Enumerated, Decided, Answer
  <2>4. ASSUME Answer(d, s, r) = "isomorphic", L.retention = "all_assignments"
        PROVE  Len(s.assignments) < Len(t.assignments)
    <3>1. c \in Duplicates(d)
      BY <1>1, <1>2, <2>1, <2>4, FoundClass DEF Answer
    <3>2. Below(Duplicates(d), c) < Below(Duplicates(d), n)
      BY <1>2, <3>1, DomainTypes, BelowGrows
    <3>. QED
      BY <1>1, <2>4, <3>2 DEF Enumerated, ListsDuplicates
  <2>5. Len(s.assignments) \in Nat /\ Len(t.assignments) \in Nat
    BY <1>2, CeilingTypes
  <2>6. o.reason \in {"isomorphism_limit", "work_limit_isomorphism", "assignment_limit"}
    BY <1>1, <1>6, <2>3 DEF StopsComparing
  <2>7. CASE o.reason = "isomorphism_limit"
    BY <1>1, <1>2, <1>3, <1>4, <1>6, <2>2, <2>7, SMTT(30) DEF StopsComparing
  <2>8. CASE o.reason = "work_limit_isomorphism"
    <3>1. c + k + r >= L.max_work_units
      BY <1>1, <1>6, <2>8 DEF StopsComparing
    <3>. QED
      BY <1>2, <1>3, <1>4, <2>2, <3>1
  <2>9. CASE o.reason = "assignment_limit"
    BY <1>1, <1>2, <1>4, <1>6, <2>4, <2>5, <2>9, SMTT(30) DEF StopsComparing
  <2>. QED
    BY <2>6, <2>7, <2>8, <2>9
<1>7. ASSUME Arrives(d, s, r), StopsKeeping(o, r)
      PROVE  FALSE
  <2>1. c \in Firsts(d)
    BY <1>1, <1>2, <1>7, ToldApart DEF StopsKeeping, Arrives, Begun, Enumerated
  <2>2. Below(Firsts(d), c) < Below(Firsts(d), n)
    BY <1>2, <2>1, DomainTypes, BelowGrows
  <2>3. Len(s.representatives) < Len(t.representatives)
    BY <1>1, <2>2 DEF Enumerated, ListsFirsts
  <2>4. Len(t.representatives) \in Nat
    BY CeilingTypes
  <2>. QED
    BY <1>1, <1>2, <1>4, <1>7, <2>3, <2>4, SMTT(30) DEF StopsKeeping
<1>. QED
  BY <1>1, <1>5, <1>6, <1>7 DEF Halts

\* Two outcomes of one candidate stop at the same position: none passes the other's.
LEMMA NonePasses ==
  ASSUME NEW d \in Domains, NEW o \in Outcomes, NEW t \in CensusStates,
         NEW i \in Nat, NEW j \in Nat, 0 < i, i < j,
         t.cursor = o.state.cursor, t.limits = o.state.limits,
         t.representatives = o.state.representatives,
         StopsComparing(d, o, i) \/ StopsKeeping(o, i), Arrives(d, t, j)
  PROVE  FALSE
<1>1. PICK n, k, c, L : /\ n = Len(t.representatives) /\ c = t.cursor /\ L = t.limits
                        /\ k = Required(d, c)
  OBVIOUS
<1>2. /\ n \in Nat /\ c \in Nat /\ k \in Nat
      /\ L.max_isomorphism_checks \in Nat /\ L.max_work_units \in Nat
  BY <1>1, CeilingTypes, ComparisonsFinite
<1>3. j \in 1 .. n + 1 /\ Passed(d, t, j) /\ Affords(d, t, j - 1)
  BY <1>1 DEF Arrives
<1>4. i \in 1 .. j - 1 /\ i <= n
  BY <1>2, <1>3
<1>5. Answer(d, o.state, i) = "not_isomorphic"
  BY <1>3, <1>4 DEF Passed, Answer
<1>6. k + i - 1 < L.max_isomorphism_checks /\ c + k + i < L.max_work_units
  <2>1. /\ k + (j - 1) - 1 < L.max_isomorphism_checks
        /\ c + k + (j - 1) < L.max_work_units
    BY <1>1, <1>3 DEF Affords
  <2>. QED
    BY <1>2, <1>3, <1>4, <2>1
<1>7. ~StopsKeeping(o, i)
  BY <1>1, <1>2, <1>4 DEF StopsKeeping
<1>8. PICK s : s = o.state /\ s.cursor = c /\ s.limits = L
  BY <1>1
<1>. QED
  BY <1>2, <1>1, <1>5, <1>6, <1>7, <1>8 DEF StopsComparing

\* Where two outcomes stop at the same position, they stop for the same reason.
LEMMA StopIsDetermined ==
  ASSUME NEW d \in Domains, NEW o \in Outcomes, NEW p \in Outcomes,
         NEW i \in Nat, NEW j \in Nat, Halts(d, o, i), Halts(d, p, j),
         o.reason # "cancelled", p.reason # "cancelled",
         p.state.cursor = o.state.cursor, p.state.limits = o.state.limits,
         p.state.representatives = o.state.representatives,
         p.state.assignments = o.state.assignments
  PROVE  /\ p.kind = o.kind /\ p.reason = o.reason
         /\ p.state.isomorphism_checks = o.state.isomorphism_checks
<1>1. PICK s, t, c, L, k : /\ s = o.state /\ t = p.state /\ c = s.cursor /\ L = s.limits
                           /\ k = Required(d, c)
  OBVIOUS
<1>2. /\ s \in CensusStates /\ t \in CensusStates /\ t.cursor = c /\ t.limits = L
      /\ t.representatives = s.representatives
  BY <1>1 DEF Outcomes
<1>3. /\ c \in Nat /\ k \in Nat /\ d.size \in Nat
      /\ L.max_candidates \in Nat /\ L.max_work_units \in Nat
      /\ L.max_isomorphism_checks \in Nat /\ Len(s.representatives) \in Nat
  BY <1>1, <1>2, CeilingTypes, ComparisonsFinite, DomainTypes
<1>4. ASSUME Begun(d, s), c + k < L.max_work_units
      PROVE  ~StopsAtTop(d, o) /\ ~StopsAtTop(d, p)
  <2>1. c < d.size /\ c < L.max_candidates /\ d.build[c] = "module"
    BY <1>1, <1>3, <1>4 DEF Begun, Modules, Candidates
  <2>. QED
    BY <1>1, <1>2, <1>3, <1>4, <2>1 DEF StopsAtTop
<1>5. Begun(d, t) => Begun(d, s)
  BY <1>1, <1>2 DEF Begun
<1>6. i = 0 <=> j = 0
  BY <1>1, <1>2, <1>4, <1>5 DEF Halts, Arrives
<1>7. i = j
  <2>1. ASSUME i > 0 PROVE ~(i < j)
    <3>1. SUFFICES ASSUME i < j PROVE FALSE
      OBVIOUS
    <3>2. (StopsComparing(d, o, i) \/ StopsKeeping(o, i)) /\ Arrives(d, t, j)
      BY <1>1, <2>1, <3>1 DEF Halts
    <3>. QED
      BY <1>1, <1>2, <2>1, <3>1, <3>2, NonePasses
  <2>2. ASSUME j > 0 PROVE ~(j < i)
    <3>1. SUFFICES ASSUME j < i PROVE FALSE
      OBVIOUS
    <3>2. (StopsComparing(d, p, j) \/ StopsKeeping(p, j)) /\ Arrives(d, s, i)
      BY <1>1, <2>2, <3>1 DEF Halts
    <3>. QED
      BY <1>1, <1>2, <2>2, <3>1, <3>2, NonePasses
  <2>. QED
    BY <1>6, <2>1, <2>2
<1>8. p.kind = o.kind /\ p.reason = o.reason
  <2>1. CASE i = 0
    <3>1. StopsAtTop(d, o) /\ StopsAtTop(d, p)
      BY <1>7, <2>1 DEF Halts
    <3>. QED
      BY <1>1, <1>2, <1>3, <3>1 DEF StopsAtTop
  <2>2. CASE i > 0 /\ i <= Len(s.representatives)
    <3>1. StopsComparing(d, o, i) /\ StopsComparing(d, p, i)
      BY <1>1, <1>2, <1>3, <1>7, <2>2 DEF Halts, StopsKeeping
    <3>2. Affords(d, t, i) = Affords(d, s, i) /\ Answer(d, t, i) = Answer(d, s, i)
      BY <1>1, <1>2 DEF Affords, Answer
    <3>. QED
      BY <1>1, <1>2, <1>3, <3>1, <3>2, SMTT(30) DEF StopsComparing, Affords
  <2>3. CASE i > 0 /\ i > Len(s.representatives)
    BY <1>1, <1>2, <1>3, <1>7, <2>3 DEF Halts, StopsKeeping, StopsComparing
  <2>. QED
    BY <1>3, <2>1, <2>2, <2>3
<1>9. Charged(p, i) = Charged(o, i)
  BY <1>8 DEF Charged
<1>. QED
  BY <1>7, <1>8, <1>9 DEF Halts

\* One and the same stop charges at least the comparisons the prefix requires.
LEMMA ChargesEnough ==
  ASSUME NEW d \in Domains, NEW o \in Outcomes, NEW r \in Nat, Halts(d, o, r),
         NEW redo \in Nat, o.state.candidates = o.state.cursor,
         o.state.work_units = o.state.candidates + o.state.isomorphism_checks
                                + (Pending(o.reason \in MidCandidateReasons) + redo)
  PROVE  /\ Required(d, o.state.cursor) <= o.state.isomorphism_checks
         /\ o.state.cursor + Required(d, o.state.cursor) <= o.state.work_units
<1>1. PICK k, w, x : /\ k = Required(d, o.state.cursor) /\ w = Charged(o, r)
                     /\ x = Pending(o.reason \in MidCandidateReasons)
  OBVIOUS
<1>2. /\ o.state.cursor \in Nat /\ o.state.isomorphism_checks \in Nat
      /\ o.state.work_units \in Nat /\ k \in Nat /\ x \in Nat
  BY <1>1, CeilingTypes, ComparisonsFinite DEF Outcomes, Pending
<1>3. w \in Nat
  <2>1. CASE StopsAtTop(d, o)
    BY <1>1, <2>1 DEF StopsAtTop, Charged, MidCandidateReasons
  <2>2. CASE r > 0
    BY <1>1, <2>2 DEF Charged
  <2>. QED
    BY <2>1, <2>2 DEF Halts
<1>4. o.state.isomorphism_checks = k + w
  BY <1>1 DEF Halts
<1>. QED
  BY <1>1, <1>2, <1>3, <1>4

\* A replay is accepted exactly when no candidate was charged twice and the ceilings of
\* the replay admit the outcome.
LEMMA ReplayIsExact ==
  ASSUME NEW d \in Domains, d = domain, NEW o \in Outcomes, NEW p \in Outcomes,
         NEW redo \in Nat,
         Enumerated(d, o.state), Enumerated(d, p.state),
         Sane(d, o.state), Sane(d, p.state), VerifyStateData(o.state),
         p.state.limits = ReplayLimits(o), WithinLimits(p.state),
         p.reason # "cancelled", Halted(d, p), redo = 0 => Halted(d, o),
         o.kind = "failed" => o.reason = "none",
         o.state.work_units = o.state.candidates + o.state.isomorphism_checks
                                + (Pending(o.reason \in MidCandidateReasons) + redo),
         p.state.work_units = p.state.candidates + p.state.isomorphism_checks
                                + (Pending(p.reason \in MidCandidateReasons) + 0)
  PROVE  ReplayAccepts(o, p) <=>
           redo = 0 /\ WithinLimits([o.state EXCEPT !.limits = ReplayLimits(o)])
<1>. DEFINE q == [o.state EXCEPT !.limits = ReplayLimits(o)]
<1>1. /\ o.state \in CensusStates /\ p.state \in CensusStates /\ q \in CensusStates
      /\ q.limits = p.state.limits
      /\ q.cursor = o.state.cursor /\ q.candidates = o.state.candidates
      /\ q.accepted_modules = o.state.accepted_modules
      /\ q.rejected_candidates = o.state.rejected_candidates
      /\ q.isomorphism_checks = o.state.isomorphism_checks
      /\ q.work_units = o.state.work_units
      /\ q.representatives = o.state.representatives /\ q.assignments = o.state.assignments
      /\ q.limits.retention = o.state.limits.retention
  <2>1. /\ o.state \in CensusStates /\ p.state \in CensusStates
        /\ ReplayLimits(o) \in CensusLimits
    BY ReplayLimitsType DEF Outcomes
  <2>2. q \in CensusStates
    BY <2>1 DEF CensusStates
  <2>3. ReplayLimits(o).retention = o.state.limits.retention
    BY <2>1, StateFields DEF ReplayLimits, CensusLimits
  <2>. QED
    BY <2>1, <2>2, <2>3 DEF CensusStates
<1>2. PICK j \in Nat : Halts(d, p, j)
  BY DEF Halted
<1>3. \A r : Pending(r) \in {0, 1}
  BY DEF Pending
<1>4. ASSUME ReplayAccepts(o, p) PROVE redo = 0
  <2>1. /\ p.state.candidates = o.state.candidates
        /\ p.state.isomorphism_checks = o.state.isomorphism_checks
        /\ p.state.work_units = o.state.work_units /\ p.state.cursor = o.state.cursor
    BY <1>4 DEF ReplayAccepts, SameReplayData
  <2>2. Pending(p.reason \in MidCandidateReasons)
          = Pending(o.reason \in MidCandidateReasons) + redo
    <3>1. /\ o.state.candidates \in Nat /\ o.state.isomorphism_checks \in Nat
      BY <1>1, CeilingTypes
    <3>. QED
      BY <1>3, <2>1, <3>1
  <2>3. CASE ~PrefixOutcome(o)
    <3>1. p.reason = o.reason
      BY <1>4, <2>3 DEF ReplayAccepts
    <3>. QED
      BY <1>3, <2>2, <3>1
  <2>4. CASE PrefixOutcome(o)
    <3>1. o.reason \notin MidCandidateReasons
      BY <2>4 DEF PrefixOutcome, MidCandidateReasons
    <3>2. p.state.limits.max_candidates = p.state.cursor
      BY <1>1, <2>1, <2>4, StateFields DEF ReplayLimits, CensusLimits
    <3>3. p.state.cursor \in Nat
      BY <1>1, StateFields
    <3>4. ~Begun(d, p.state)
      BY <3>2, <3>3 DEF Begun
    <3>5. p.reason \notin MidCandidateReasons
      BY <1>2, <3>4 DEF Halts, Arrives, StopsAtTop, MidCandidateReasons
    <3>. QED
      BY <2>2, <3>1, <3>5 DEF Pending
  <2>. QED
    BY <2>3, <2>4
<1>5. ASSUME ReplayAccepts(o, p) PROVE WithinLimits(q)
  <2>1. /\ q.candidates = p.state.candidates /\ q.representatives = p.state.representatives
        /\ q.assignments = p.state.assignments
        /\ q.isomorphism_checks = p.state.isomorphism_checks
        /\ q.work_units = p.state.work_units
    BY <1>1, <1>5 DEF ReplayAccepts, SameReplayData
  <2>. QED
    BY <1>1, <2>1 DEF WithinLimits
<1>6. ASSUME redo = 0, WithinLimits(q) PROVE ReplayAccepts(o, p)
  <2>1. PICK i \in Nat : Halts(d, o, i)
    BY <1>6 DEF Halted
  <2>2. Enumerated(d, q) /\ Sane(d, q)
    <3>1. Enumerated(d, q)
      BY <1>1, SameEnumerated
    <3>2. Sane(d, q)
      BY <1>1, ZenonT(40) DEF Sane, AssignsTo
    <3>. QED
      BY <3>1, <3>2
  <2>3. /\ Required(d, o.state.cursor) <= o.state.isomorphism_checks
        /\ o.state.cursor + Required(d, o.state.cursor) <= o.state.work_units
    BY <1>6, <2>1, ChargesEnough DEF Sane
  <2>4. /\ Required(d, p.state.cursor) <= p.state.isomorphism_checks
        /\ p.state.cursor + Required(d, p.state.cursor) <= p.state.work_units
    BY <1>2, ChargesEnough DEF Sane
  <2>5. o.state.cursor \in Nat /\ p.state.cursor \in Nat
    BY <1>1, StateFields
  <2>6. ~(p.state.cursor < o.state.cursor)
    BY <1>1, <1>2, <1>6, <2>2, <2>3, NoneGoesOn
  <2>7. PrefixOutcome(o) => p.state.limits.max_candidates = o.state.cursor
    BY <1>1, StateFields DEF ReplayLimits, CensusLimits
  <2>8. ~PrefixOutcome(o) => p.state.limits = o.state.limits
    BY DEF ReplayLimits
  <2>9. p.state.cursor = o.state.cursor
    <3>1. CASE PrefixOutcome(o)
      <4>1. p.state.cursor <= p.state.limits.max_candidates
        BY DEF WithinLimits, Sane
      <4>. QED
        BY <2>5, <2>6, <2>7, <3>1, <4>1
    <3>2. CASE ~PrefixOutcome(o)
      <4>1. ~(o.state.cursor < p.state.cursor)
        BY <1>1, <2>1, <2>4, <2>8, <3>2, NoneGoesOn DEF PrefixOutcome
      <4>. QED
        BY <2>5, <2>6, <4>1
    <3>. QED
      BY <3>1, <3>2
  <2>10. p.state.representatives = o.state.representatives
    <3>1. /\ Len(p.state.representatives) = Len(o.state.representatives)
          /\ \A n \in 1 .. Len(p.state.representatives) :
               p.state.representatives[n] = o.state.representatives[n]
      <4>1. p.state.cursor <= o.state.cursor
        BY <2>5, <2>9
      <4>2. ListsFirsts(d, p.state) /\ ListsFirsts(d, o.state)
        BY DEF Enumerated
      <4>3. Len(p.state.representatives) = Len(o.state.representatives)
        BY <2>9, <4>2 DEF ListsFirsts
      <4>. QED
        BY <1>1, <4>1, <4>2, <4>3, SameFirsts
    <3>. QED
      BY <1>1, <3>1, StateFields, SeqEqual
  <2>11. p.state.assignments = o.state.assignments
    <3>1. CASE o.state.limits.retention = "all_assignments"
      <4>1. p.state.limits.retention = "all_assignments"
        BY <1>1, <3>1
      <4>2. /\ Len(p.state.assignments) = Len(o.state.assignments)
            /\ \A n \in 1 .. Len(p.state.assignments) :
                 p.state.assignments[n] = o.state.assignments[n]
        <5>1. p.state.cursor <= o.state.cursor
          BY <2>5, <2>9
        <5>2. AssignsTo(d, p.state) /\ AssignsTo(d, o.state)
          BY DEF Sane
        <5>3. Len(p.state.assignments) = Len(o.state.assignments)
          BY <2>9, <3>1, <4>1 DEF Enumerated, ListsDuplicates
        <5>. QED
          BY <1>1, <3>1, <4>1, <5>1, <5>2, <5>3, SameAssignments
      <4>. QED
        BY <1>1, <4>2, StateFields, SeqEqual
    <3>2. CASE o.state.limits.retention # "all_assignments"
      BY <1>1, <3>2 DEF Sane
    <3>. QED
      BY <3>1, <3>2
  <2>12. /\ p.state.candidates = o.state.candidates
         /\ p.state.accepted_modules = o.state.accepted_modules
         /\ p.state.rejected_candidates = o.state.rejected_candidates
    <3>1. /\ p.state.candidates = o.state.candidates
          /\ p.state.accepted_modules = o.state.accepted_modules
      BY <2>9 DEF Sane, Enumerated
    <3>2. /\ p.state.candidates = p.state.accepted_modules + p.state.rejected_candidates
          /\ o.state.candidates = o.state.accepted_modules + o.state.rejected_candidates
      BY DEF Sane
    <3>3. /\ o.state.candidates \in Nat /\ o.state.accepted_modules \in Nat
          /\ o.state.rejected_candidates \in Nat /\ p.state.rejected_candidates \in Nat
      BY <1>1, StateFields
    <3>4. o.state.accepted_modules + p.state.rejected_candidates
            = o.state.accepted_modules + o.state.rejected_candidates
      BY <3>1, <3>2
    <3>5. p.state.rejected_candidates = o.state.rejected_candidates
      BY <3>3, <3>4
    <3>. QED
      BY <3>1, <3>5
  <2>13. /\ p.state.isomorphism_checks = o.state.isomorphism_checks
         /\ (p.reason \in MidCandidateReasons) = (o.reason \in MidCandidateReasons)
         /\ IF PrefixOutcome(o) THEN p.kind # "failed"
            ELSE p.kind = o.kind /\ p.reason = o.reason
    <3>1. CASE ~PrefixOutcome(o)
      BY <1>2, <2>1, <2>8, <2>9, <2>10, <2>11, <3>1, StopIsDetermined DEF PrefixOutcome
    <3>2. CASE PrefixOutcome(o)
      <4>1. o.reason \notin MidCandidateReasons /\ Charged(o, i) = 0
        BY <3>2 DEF PrefixOutcome, MidCandidateReasons, Charged
      <4>2. ~(p.state.cursor < p.state.limits.max_candidates)
        BY <2>5, <2>7, <2>9, <3>2
      <4>3. StopsAtTop(d, p)
        BY <1>2, <4>2 DEF Halts, Arrives, Begun
      <4>4. /\ p.kind # "failed"
            /\ p.reason \notin MidCandidateReasons /\ Charged(p, j) = 0
        BY <4>2, <4>3 DEF StopsAtTop, MidCandidateReasons, Charged
      <4>. QED
        BY <1>2, <2>1, <2>9, <3>2, <4>1, <4>4 DEF Halts
    <3>. QED
      BY <3>1, <3>2
  <2>14. p.state.work_units = o.state.work_units
    BY <1>6, <2>12, <2>13
  <2>. QED
    BY <2>9, <2>10, <2>11, <2>12, <2>13, <2>14 DEF ReplayAccepts, SameReplayData
<1>. QED
  BY <1>4, <1>5, <1>6

-----------------------------------------------------------------------------
(* The invariant.  Live and held states enumerate the domain; as long as   *)
(* no candidate was charged twice the counters are those of a fresh        *)
(* enumeration, and the outcome held stopped where a fresh one does.       *)

Fresh == purpose = "replay" \/ redone = 0

CountsAreRequired ==
  /\ pc = "loop" => isomorphism_checks = Required(domain, cursor)
  /\ pc = "compare" =>
       /\ isomorphism_checks = Required(domain, cursor) + representative - 1
       /\ saved.isomorphism_checks = Required(domain, cursor)
       /\ Arrives(domain, State, representative)

HeldIsKnown ==
  /\ held.kind = "failed" => held.reason = "none"
  /\ redone = 0 => Halted(domain, held)

TraceInv ==
  /\ Enumerated(domain, State)
  /\ Enumerated(domain, held.state)
  /\ pc = "compare" => Begun(domain, State) /\ Passed(domain, State, representative)
  /\ Fresh => CountsAreRequired
  /\ pc = "idle" \/ purpose = "replay" => HeldIsKnown
  /\ pc # "idle" /\ purpose = "replay" => limits = ReplayLimits(held)
  /\ VerdictIsExact

\* The fields of the live state are the variables.
LEMMA LiveView ==
  /\ State.limits = limits /\ State.cursor = cursor /\ State.candidates = candidates
  /\ State.accepted_modules = accepted_modules
  /\ State.rejected_candidates = rejected_candidates
  /\ State.isomorphism_checks = isomorphism_checks /\ State.work_units = work_units
  /\ State.representatives = representatives /\ State.assignments = assignments
BY DEF State

\* The same after a step.
LEMMA LiveViewNext ==
  /\ State'.limits = limits' /\ State'.cursor = cursor' /\ State'.candidates = candidates'
  /\ State'.accepted_modules = accepted_modules'
  /\ State'.rejected_candidates = rejected_candidates'
  /\ State'.isomorphism_checks = isomorphism_checks' /\ State'.work_units = work_units'
  /\ State'.representatives = representatives' /\ State'.assignments = assignments'
BY DEF State

\* The same of a state that is sound after a step.
LEMMA SaneNext ==
  ASSUME Sound(State)', domain' = domain
  PROVE  Sane(domain, State')
BY DEF Sound, VerifyStateData, Classified, EveryModuleIsClassified, AssignmentsAreCorrect,
       SameClass, Sane, AssignsTo

\* What is left alone stays enumerated.
LEMMA StaysEnumerated ==
  ASSUME TypeOK, TypeOK', TraceInv, domain' = domain, limits' = limits, cursor' = cursor,
         accepted_modules' = accepted_modules, representatives' = representatives,
         assignments' = assignments
  PROVE  Enumerated(domain', State')
<1>1. State \in CensusStates /\ State' \in CensusStates /\ domain \in Domains
  BY DEF TypeOK
<1>2. Enumerated(domain, State)
  BY DEF TraceInv
<1>. QED
  BY <1>1, <1>2, LiveView, LiveViewNext, SameEnumerated

\* Returning keeps the invariant when the outcome is one of a fresh enumeration.
LEMMA ReturnTrace ==
  ASSUME TypeOK, TypeOK', ClassInv, ClassInv', LedgerInv, CeilingsInv', TraceInv,
         NEW kind \in {"complete", "cut", "failed"},
         NEW reason \in MidCandidateReasons \cup BoundaryReasons \cup {"none"},
         pc # "idle", Return(kind, reason),
         kind = "failed" => reason = "none",
         purpose # "run" => reason # "cancelled",
         Fresh => Halted(domain, Outcome(kind, reason, State')),
         work_units' = candidates + isomorphism_checks'
                         + (Pending(reason \in MidCandidateReasons) + Redone)
  PROVE  TraceInv'
<1>1. PICK p : p = Outcome(kind, reason, State')
  OBVIOUS
<1>2. /\ pc' = "idle" /\ domain' = domain /\ purpose' = purpose /\ redone' = redone
      /\ UNCHANGED <<limits, cursor, candidates, accepted_modules, representatives,
                     assignments>>
      /\ held' = IF purpose = "run" THEN p ELSE held
      /\ verdict' = IF purpose = "run" THEN "none"
                    ELSE IF ReplayAccepts(held, p) THEN "accepted" ELSE "rejected"
  BY <1>1 DEF Return, request, history, committed, counts
<1>3. p.kind = kind /\ p.reason = reason /\ p.state = State' /\ p \in Outcomes
  BY <1>1 DEF Outcome, Outcomes, TypeOK
<1>4. Enumerated(domain', State')
  BY <1>2, StaysEnumerated
<1>5. Enumerated(domain', held'.state)
  BY <1>2, <1>3, <1>4 DEF TraceInv
<1>6. purpose \in {"run", "replay"} /\ (purpose # "run" => Fresh)
  BY DEF TypeOK, Fresh
<1>7. HeldIsKnown'
  <2>1. CASE purpose = "run"
    BY <1>1, <1>2, <1>3, <2>1 DEF HeldIsKnown, Fresh
  <2>2. CASE purpose = "replay"
    BY <1>2, <2>2 DEF HeldIsKnown, TraceInv
  <2>. QED
    BY <1>6, <2>1, <2>2
<1>8. VerdictIsExact'
  <2>1. CASE purpose = "run"
    BY <1>2, <2>1 DEF VerdictIsExact
  <2>2. CASE purpose = "replay"
    <3>1. ReplayAccepts(held, p) <=>
            redone = 0 /\ WithinLimits([held.state EXCEPT !.limits = ReplayLimits(held)])
      <4>1. domain \in Domains /\ held \in Outcomes /\ redone \in Nat
        BY DEF TypeOK
      <4>2. Enumerated(domain, held.state) /\ Enumerated(domain, p.state)
        BY <1>2, <1>3, <1>4 DEF TraceInv
      <4>3. Sane(domain, held.state) /\ VerifyStateData(held.state)
        BY SoundSane DEF ClassInv, Sound
      <4>4. Sane(domain, p.state)
        BY <1>2, <1>3, SaneNext DEF ClassInv
      <4>5. p.state.limits = ReplayLimits(held)
        BY <1>2, <1>3, <2>2, LiveViewNext DEF TraceInv
      <4>6. WithinLimits(p.state)
        BY <1>2, <1>3, <2>2 DEF CeilingsInv, CeilingsHold
      <4>7. p.reason # "cancelled" /\ Halted(domain, p)
        BY <1>1, <1>3, <1>6, <2>2
      <4>8. /\ redone = 0 => Halted(domain, held)
            /\ held.kind = "failed" => held.reason = "none"
        BY <2>2 DEF TraceInv, HeldIsKnown
      <4>9. held.state.work_units
              = held.state.candidates + held.state.isomorphism_checks
                  + (Pending(held.reason \in MidCandidateReasons) + redone)
        BY <2>2 DEF LedgerInv, WorkLedger, Balanced
      <4>10. p.state.work_units
               = p.state.candidates + p.state.isomorphism_checks
                   + (Pending(p.reason \in MidCandidateReasons) + 0)
        BY <1>2, <1>3, <2>2, LiveViewNext DEF Redone
      <4>. QED
        BY <1>3, <4>1, <4>2, <4>3, <4>4, <4>5, <4>6, <4>7, <4>8, <4>9, <4>10,
           ReplayIsExact
    <3>. QED
      BY <1>2, <2>2, <3>1 DEF VerdictIsExact
  <2>. QED
    BY <1>6, <2>1, <2>2
<1>. QED
  BY <1>2, <1>4, <1>5, <1>7, <1>8 DEF TraceInv, CountsAreRequired

\* Going on keeps it when the commit enumerates the candidate.
LEMMA ContinueTrace ==
  ASSUME TypeOK, TraceInv, Continue, pc # "idle",
         Enumerated(domain, State'),
         Fresh => isomorphism_checks' = Required(domain, cursor + 1)
  PROVE  TraceInv'
<1>1. /\ pc' = "loop" /\ domain' = domain /\ purpose' = purpose /\ redone' = redone
      /\ limits' = limits /\ held' = held /\ cursor' = cursor + 1
  BY DEF Continue, request, history
<1>2. Fresh' => CountsAreRequired'
  BY <1>1 DEF Fresh, CountsAreRequired
<1>3. (pc = "idle" \/ purpose = "replay" => HeldIsKnown)'
  BY <1>1 DEF HeldIsKnown, TraceInv
<1>4. VerdictIsExact'
  BY <1>1 DEF VerdictIsExact
<1>5. Enumerated(domain', State') /\ Enumerated(domain', held'.state)
  BY <1>1 DEF TraceInv
<1>6. (pc # "idle" /\ purpose = "replay" => limits = ReplayLimits(held))'
  BY <1>1 DEF TraceInv
<1>. QED
  BY <1>1, <1>2, <1>3, <1>4, <1>5, <1>6 DEF TraceInv

\* The numbers of a fresh enumeration.
LEMMA FreshNumbers ==
  ASSUME TypeOK, ClassInv, LedgerInv, TraceInv
  PROVE  /\ candidates = cursor /\ cursor \in Nat /\ cursor <= domain.size
         /\ domain \in Domains /\ domain.size \in Nat
         /\ State \in CensusStates
         /\ Required(domain, cursor) \in Nat
         /\ isomorphism_checks \in Nat /\ work_units \in Nat /\ Redone \in Nat
         /\ Fresh => Redone = 0
         /\ Fresh /\ pc = "loop" =>
              /\ isomorphism_checks = Required(domain, cursor)
              /\ work_units = cursor + Required(domain, cursor)
         /\ Fresh /\ pc = "compare" =>
              /\ isomorphism_checks = Required(domain, cursor) + representative - 1
              /\ work_units = cursor + Required(domain, cursor) + representative
              /\ saved.isomorphism_checks = Required(domain, cursor)
              /\ saved.work_units = cursor + Required(domain, cursor)
              /\ Arrives(domain, State, representative)
<1>1. /\ candidates = cursor /\ cursor \in Nat /\ cursor <= domain.size
      /\ domain.size \in Nat
  BY LoopFacts DEF CountVars, Numbers
<1>2. domain \in Domains /\ State \in CensusStates /\ representative \in Nat
  BY DEF TypeOK
<1>3. Required(domain, cursor) \in Nat
  BY <1>1, <1>2, ComparisonsFinite
<1>4. /\ isomorphism_checks \in Nat /\ work_units \in Nat /\ Redone \in Nat
  BY LiveNumbers
<1>5. Fresh => Redone = 0
  BY DEF Fresh, Redone
<1>6. ASSUME Fresh, pc = "loop"
      PROVE  /\ isomorphism_checks = Required(domain, cursor)
             /\ work_units = cursor + Required(domain, cursor)
  <2>1. isomorphism_checks = Required(domain, cursor)
    BY <1>6 DEF TraceInv, CountsAreRequired
  <2>2. work_units = candidates + isomorphism_checks + Redone
    BY <1>6, LiveLedger
  <2>. QED
    BY <1>1, <1>3, <1>5, <1>6, <2>1, <2>2
<1>7. ASSUME Fresh, pc = "compare"
      PROVE  /\ isomorphism_checks = Required(domain, cursor) + representative - 1
             /\ work_units = cursor + Required(domain, cursor) + representative
             /\ saved.isomorphism_checks = Required(domain, cursor)
             /\ saved.work_units = cursor + Required(domain, cursor)
             /\ Arrives(domain, State, representative)
  <2>1. /\ isomorphism_checks = Required(domain, cursor) + representative - 1
        /\ saved.isomorphism_checks = Required(domain, cursor)
        /\ Arrives(domain, State, representative)
    BY <1>7 DEF TraceInv, CountsAreRequired
  <2>2. /\ work_units = candidates + isomorphism_checks + 1 + Redone
        /\ saved.work_units = candidates + saved.isomorphism_checks + Redone
    BY <1>7, LiveLedger
  <2>3. work_units = cursor + Required(domain, cursor) + representative
    BY <1>1, <1>2, <1>3, <1>5, <1>7, <2>1, <2>2
  <2>4. saved.work_units = cursor + Required(domain, cursor)
    BY <1>1, <1>3, <1>5, <1>7, <2>1, <2>2
  <2>. QED
    BY <2>1, <2>3, <2>4
<1>. QED
  BY <1>1, <1>2, <1>3, <1>4, <1>5, <1>6, <1>7

\* An outcome whose stop is known at some position is that of a fresh enumeration.
LEMMA HaltsHere ==
  ASSUME NEW o, NEW r \in Nat, Halts(domain, o, r)
  PROVE  Halted(domain, o)
BY DEF Halted

\* The stops at the top of the loop.
LEMMA LoopStops ==
  ASSUME TypeOK, TypeOK', ClassInv, ClassInv', LedgerInv, CeilingsInv', TraceInv,
         \/ Finish \/ ObserveCancellation \/ CutAtCandidateLimit \/ CutAtCandidateWork
         \/ FailConstruction
  PROVE  TraceInv'
<1>1. /\ pc = "loop" /\ isomorphism_checks' = isomorphism_checks /\ work_units' = work_units
  BY DEF Finish, ObserveCancellation, CutAtCandidateLimit, CutAtCandidateWork,
         FailConstruction, Built, Processing, spent
<1>2. /\ work_units = candidates + isomorphism_checks + Redone
      /\ candidates \in Nat /\ isomorphism_checks \in Nat /\ Redone \in Nat
  BY <1>1, LiveLedger, LiveNumbers
<1>3. ASSUME NEW kind \in {"complete", "cut", "failed"},
             NEW reason \in BoundaryReasons \cup {"none"}, Return(kind, reason),
             kind = "failed" => reason = "none",
             purpose # "run" => reason # "cancelled",
             Fresh => StopsAtTop(domain, Outcome(kind, reason, State'))
      PROVE  TraceInv'
  <2>1. PICK o : o = Outcome(kind, reason, State')
    OBVIOUS
  <2>2. o.state = State' /\ o.reason = reason /\ cursor' = cursor
    BY <1>3, <2>1 DEF Outcome, Return, committed
  <2>3. reason \notin MidCandidateReasons /\ Charged(o, 0) = 0
    BY <1>3, <2>2 DEF BoundaryReasons, MidCandidateReasons, Charged
  <2>4. Fresh => Halts(domain, o, 0)
    <3>1. Fresh => o.state.isomorphism_checks = Required(domain, o.state.cursor)
      BY <1>1, <2>2, FreshNumbers, LiveViewNext
    <3>2. Required(domain, cursor) \in Nat
      BY FreshNumbers
    <3>. QED
      BY <1>3, <2>1, <2>2, <2>3, <3>1, <3>2, LiveViewNext DEF Halts
  <2>5. Fresh => Halted(domain, o)
    BY <2>4, HaltsHere
  <2>6. work_units' = candidates + isomorphism_checks'
                        + (Pending(reason \in MidCandidateReasons) + Redone)
    BY <1>1, <1>2, <2>3 DEF Pending
  <2>. QED
    BY <1>1, <1>3, <2>1, <2>5, <2>6, ReturnTrace
<1>4. ASSUME NEW kind, NEW reason, Return(kind, reason)
      PROVE  LET o == Outcome(kind, reason, State') IN
             /\ o.kind = kind /\ o.reason = reason
             /\ o.state.cursor = cursor /\ o.state.limits = limits
  BY <1>4, LiveViewNext DEF Return, Outcome, committed, request
<1>5. /\ cursor \in Nat /\ domain.size \in Nat /\ cursor <= domain.size
      /\ candidates = cursor
      /\ Fresh => work_units = cursor + Required(domain, cursor)
  BY <1>1, FreshNumbers
<1>6. CASE Finish
  <2>1. Return("complete", "none") /\ cursor = domain.size
    BY <1>6 DEF Finish, Complete
  <2>2. StopsAtTop(domain, Outcome("complete", "none", State'))
    BY <1>4, <2>1 DEF StopsAtTop
  <2>. QED
    BY <1>3, <2>1, <2>2
<1>7. CASE ObserveCancellation
  <2>1. Return("cut", "cancelled") /\ purpose = "run"
    BY <1>7 DEF ObserveCancellation, CancelObserved
  <2>2. StopsAtTop(domain, Outcome("cut", "cancelled", State'))
    BY <1>4, <2>1 DEF StopsAtTop
  <2>3. "cancelled" \in BoundaryReasons
    BY DEF BoundaryReasons
  <2>. QED
    BY <1>3, <2>1, <2>2, <2>3
<1>8. CASE CutAtCandidateLimit
  <2>1. /\ Return("cut", "candidate_limit") /\ cursor < domain.size
        /\ cursor >= limits.max_candidates
    BY <1>5, <1>8 DEF CutAtCandidateLimit, Cut, Processing, Complete
  <2>2. StopsAtTop(domain, Outcome("cut", "candidate_limit", State'))
    BY <1>4, <2>1 DEF StopsAtTop
  <2>3. "candidate_limit" \in BoundaryReasons
    BY DEF BoundaryReasons
  <2>. QED
    BY <1>3, <2>1, <2>2, <2>3
<1>9. CASE CutAtCandidateWork
  <2>1. /\ Return("cut", "work_limit_candidate") /\ cursor < domain.size
        /\ cursor < limits.max_candidates /\ work_units >= limits.max_work_units
    BY <1>5, <1>9 DEF CutAtCandidateWork, Cut, Processing, Complete
  <2>2. Fresh => StopsAtTop(domain, Outcome("cut", "work_limit_candidate", State'))
    BY <1>4, <1>5, <2>1 DEF StopsAtTop
  <2>3. "work_limit_candidate" \in BoundaryReasons
    BY DEF BoundaryReasons
  <2>. QED
    BY <1>3, <2>1, <2>2, <2>3
<1>10. CASE FailConstruction
  <2>1. /\ Return("failed", "none") /\ cursor < domain.size
        /\ cursor < limits.max_candidates /\ work_units < limits.max_work_units
        /\ domain.build[cursor] = "construction_error"
    BY <1>5, <1>10 DEF FailConstruction, Built, Processing, Complete
  <2>2. Fresh => StopsAtTop(domain, Outcome("failed", "none", State'))
    BY <1>4, <1>5, <2>1 DEF StopsAtTop
  <2>. QED
    BY <1>3, <2>1, <2>2
<1>. QED
  BY <1>6, <1>7, <1>8, <1>9, <1>10

\* A rejected candidate requires no comparison.
LEMMA RejectCounts ==
  ASSUME TypeOK, TypeOK', ClassInv, LedgerInv, TraceInv, RejectCandidate
  PROVE  /\ pc = "loop" /\ Continue /\ Enumerated(domain, State')
         /\ Required(domain, cursor + 1) = Required(domain, cursor)
         /\ isomorphism_checks' = isomorphism_checks
         /\ representatives' = representatives
<1>1. /\ pc = "loop" /\ Continue /\ domain.build[cursor] = "relation_acts_nonzero"
      /\ isomorphism_checks' = isomorphism_checks
      /\ accepted_modules' = accepted_modules /\ representatives' = representatives
      /\ assignments' = assignments
  BY DEF RejectCandidate, Built, Processing, CommitRejected, ReserveWork
<1>2. cursor' = cursor + 1 /\ limits' = limits
  BY <1>1 DEF Continue, request
<1>3. domain \in Domains /\ State \in CensusStates /\ State' \in CensusStates
  BY DEF TypeOK
<1>4. cursor \notin Modules(domain)
  BY <1>1 DEF Modules
<1>5. Enumerated(domain, State)
  BY DEF TraceInv
<1>6. /\ Enumerated(domain, State')
      /\ Required(domain, cursor + 1) = Required(domain, cursor)
  BY <1>1, <1>2, <1>3, <1>4, <1>5, LiveView, LiveViewNext, RejectEnumerates
<1>. QED
  BY <1>1, <1>6

\* So a rejection leaves the counters right.
LEMMA RejectTrace ==
  ASSUME TypeOK, TypeOK', ClassInv, LedgerInv, TraceInv, RejectCandidate
  PROVE  TraceInv'
<1>1. Fresh => isomorphism_checks' = Required(domain, cursor + 1)
  BY RejectCounts, FreshNumbers
<1>. QED
  BY <1>1, RejectCounts, ContinueTrace

\* A fresh enumeration arrives at the first comparison of a module it can pay for ...
LEMMA BeginTrace ==
  ASSUME TypeOK, TypeOK', ClassInv, LedgerInv, TraceInv, BeginComparisons
  PROVE  TraceInv'
<1>1. /\ pc = "loop" /\ pc' = "compare" /\ cursor # domain.size
      /\ domain.build[cursor] = "module" /\ candidates < limits.max_candidates
      /\ work_units < limits.max_work_units
      /\ isomorphism_checks' = isomorphism_checks
      /\ saved'.isomorphism_checks = isomorphism_checks
      /\ representative' = 1
      /\ UNCHANGED <<domain, limits, purpose, cursor, accepted_modules, representatives,
                     assignments, held, verdict, redone>>
  BY DEF BeginComparisons, Built, Processing, Complete, ReserveWork, request, committed,
         counts, history
<1>2. Enumerated(domain', State')
  BY <1>1, StaysEnumerated
<1>3. Begun(domain, State')
  <2>1. cursor < domain.size /\ cursor \in Nat /\ candidates = cursor
        /\ domain.size \in Nat
    BY <1>1, FreshNumbers
  <2>2. cursor \in Modules(domain)
    BY <1>1, <2>1 DEF Modules, Candidates
  <2>. QED
    BY <1>1, <2>1, <2>2, LiveViewNext DEF Begun
<1>4. Passed(domain, State', 1)
  BY DEF Passed
<1>5. ASSUME Fresh PROVE Arrives(domain, State', 1)
  <2>1. cursor + Required(domain, cursor) < limits.max_work_units
    BY <1>1, <1>5, FreshNumbers
  <2>2. 1 \in 1 .. Len(State'.representatives) + 1
    <3>1. Len(State'.representatives) \in Nat
      BY CeilingTypes DEF TypeOK
    <3>. QED
      BY <3>1
  <2>. QED
    BY <1>1, <1>3, <1>4, <2>1, <2>2, LiveViewNext DEF Arrives
<1>6. Fresh' => CountsAreRequired'
  <2>1. Fresh => isomorphism_checks = Required(domain, cursor)
    BY <1>1, FreshNumbers
  <2>2. Required(domain, cursor) = Required(domain, cursor) + 1 - 1
    BY FreshNumbers
  <2>. QED
    BY <1>1, <1>5, <2>1, <2>2 DEF Fresh, CountsAreRequired
<1>7. (pc = "idle" \/ purpose = "replay" => HeldIsKnown)'
  BY <1>1 DEF HeldIsKnown, TraceInv
<1>. QED
  BY <1>1, <1>2, <1>3, <1>4, <1>6, <1>7 DEF TraceInv, VerdictIsExact

\* ... and at the next one when the last was paid for and told the classes apart.
LEMMA NextTrace ==
  ASSUME TypeOK, TypeOK', ClassInv, LedgerInv, TraceInv, NextRepresentative
  PROVE  TraceInv'
<1>1. /\ pc = "compare" /\ pc' = "compare" /\ Comparing
      /\ domain.compare[<<cursor, representatives[representative]>>] = "not_isomorphic"
      /\ isomorphism_checks < limits.max_isomorphism_checks
      /\ work_units < limits.max_work_units
      /\ isomorphism_checks' = isomorphism_checks + 1
      /\ saved' = saved
      /\ representative' = representative + 1
      /\ UNCHANGED <<domain, limits, purpose, cursor, accepted_modules, representatives,
                     assignments, held, verdict, redone>>
  BY DEF NextRepresentative, Compared, Comparing, ChargeComparison, request, committed,
         counts, history
<1>2. Enumerated(domain', State')
  BY <1>1, StaysEnumerated
<1>3. representative \in Nat \ {0} /\ representative <= Len(representatives)
      /\ Len(representatives) \in Nat
  BY <1>1, LoopFacts DEF Comparing, TypeOK, Numbers
<1>4. Begun(domain, State')
  BY <1>1, LiveView, LiveViewNext DEF TraceInv, Begun
<1>5. Passed(domain, State', representative + 1)
  <2>. SUFFICES ASSUME NEW i \in 1 .. representative
       PROVE  domain.compare[<<cursor, representatives[i]>>] = "not_isomorphic"
    BY <1>1, <1>3, LiveViewNext DEF Passed
  <2>1. CASE i = representative
    BY <1>1, <2>1
  <2>2. CASE i \in 1 .. representative - 1
    BY <1>1, <2>2, LiveView DEF TraceInv, Passed
  <2>. QED
    BY <1>3, <2>1, <2>2
<1>6. ASSUME Fresh PROVE Arrives(domain, State', representative + 1)
  <2>1. cursor + Required(domain, cursor) < limits.max_work_units
    BY <1>1, <1>6, FreshNumbers, LiveView DEF Arrives
  <2>2. representative + 1 \in 1 .. Len(State'.representatives) + 1
    BY <1>1, <1>3, LiveViewNext
  <2>3. Affords(domain, State', representative)
    BY <1>1, <1>6, FreshNumbers, LiveViewNext DEF Affords
  <2>4. Affords(domain, State', (representative + 1) - 1)
    <3>1. (representative + 1) - 1 = representative
      BY <1>3
    <3>. QED
      BY <2>3, <3>1
  <2>5. /\ State'.cursor + Required(domain, State'.cursor) < State'.limits.max_work_units
        /\ Begun(domain, State')
    BY <1>1, <1>4, <2>1, LiveViewNext
  <2>. QED
    BY <1>5, <2>2, <2>4, <2>5 DEF Arrives
<1>7. Fresh' => CountsAreRequired'
  <2>1. Fresh => /\ isomorphism_checks + 1
                      = Required(domain, cursor) + (representative + 1) - 1
                 /\ saved.isomorphism_checks = Required(domain, cursor)
    BY <1>1, <1>3, FreshNumbers
  <2>. QED
    BY <1>1, <1>6, <2>1 DEF Fresh, CountsAreRequired
<1>8. (pc = "idle" \/ purpose = "replay" => HeldIsKnown)'
  BY <1>1 DEF HeldIsKnown, TraceInv
<1>. QED
  BY <1>1, <1>2, <1>4, <1>5, <1>7, <1>8 DEF TraceInv, VerdictIsExact

\* What a compared candidate is known by.
LEMMA CompareFacts ==
  ASSUME TypeOK, ClassInv, LedgerInv, TraceInv, pc = "compare"
  PROVE  /\ cursor \in Modules(domain) /\ Enumerated(domain, State)
         /\ Passed(domain, State, representative)
         /\ representative \in 1 .. Len(representatives) + 1
         /\ Len(representatives) \in Nat
<1>1. Len(representatives) \in Nat /\ representative \in Nat \ {0}
  BY LoopFacts DEF Numbers, TypeOK
<1>. QED
  BY <1>1, LiveView DEF TraceInv, Begun, ClassInv, ComparePoint

\* A duplicate requires the comparisons up to the one that found its class.
LEMMA DuplicateCounts ==
  ASSUME TypeOK, TypeOK', ClassInv, LedgerInv, TraceInv, DropDuplicate \/ AssignDuplicate
  PROVE  /\ pc = "compare" /\ Continue /\ Enumerated(domain, State')
         /\ representative \in 1 .. Len(representatives)
         /\ Required(domain, cursor + 1) = Required(domain, cursor) + representative
         /\ isomorphism_checks' = isomorphism_checks + 1
         /\ representatives' = representatives
<1>1. /\ pc = "compare" /\ Comparing /\ Continue
      /\ domain.compare[<<cursor, representatives[representative]>>] = "isomorphic"
      /\ isomorphism_checks' = isomorphism_checks + 1
      /\ accepted_modules' = accepted_modules + 1 /\ representatives' = representatives
      /\ limits.retention = "all_assignments" =>
           assignments' = Append(assignments, [cursor |-> cursor,
                                               representative |-> representative])
  BY DEF DropDuplicate, AssignDuplicate, Compared, Comparing, ChargeComparison,
         CommitAccepted
<1>2. cursor' = cursor + 1 /\ limits' = limits
  BY <1>1 DEF Continue, request
<1>3. domain \in Domains /\ State \in CensusStates /\ State' \in CensusStates
  BY DEF TypeOK
<1>4. /\ cursor \in Modules(domain) /\ Enumerated(domain, State)
      /\ Passed(domain, State, representative)
  BY <1>1, CompareFacts
<1>5. representative \in 1 .. Len(representatives)
  BY <1>1, ComparedClasses
<1>6. /\ Enumerated(domain, State')
      /\ Required(domain, cursor + 1) = Required(domain, cursor) + representative
  <2>1. /\ State.cursor \in Modules(domain)
        /\ representative \in 1 .. Len(State.representatives)
        /\ domain.compare[<<State.cursor, State.representatives[representative]>>]
             = "isomorphic"
        /\ State'.cursor = State.cursor + 1
        /\ State'.representatives = State.representatives
        /\ State'.accepted_modules = State.accepted_modules + 1
        /\ State'.limits.retention = State.limits.retention
    BY <1>1, <1>2, <1>4, <1>5, LiveView, LiveViewNext
  <2>2. State.limits.retention = "all_assignments" =>
          State'.assignments
            = Append(State.assignments, [cursor |-> State.cursor,
                                         representative |-> representative])
    BY <1>1, LiveView, LiveViewNext
  <2>3. /\ Enumerated(domain, State')
        /\ Required(domain, State'.cursor)
             = Required(domain, State.cursor) + representative
    BY <1>3, <1>4, <2>1, <2>2, DuplicateEnumerates
  <2>. QED
    BY <1>2, <2>3, LiveView, LiveViewNext
<1>. QED
  BY <1>1, <1>5, <1>6

\* So its commit leaves the counters right.
LEMMA DuplicateTrace ==
  ASSUME TypeOK, TypeOK', ClassInv, LedgerInv, TraceInv, DropDuplicate \/ AssignDuplicate
  PROVE  TraceInv'
<1>1. Fresh => isomorphism_checks' = Required(domain, cursor + 1)
  BY DuplicateCounts, FreshNumbers
<1>. QED
  BY <1>1, DuplicateCounts, ContinueTrace

\* A new representative requires a comparison with every other.
LEMMA KeepCounts ==
  ASSUME TypeOK, TypeOK', ClassInv, LedgerInv, TraceInv, KeepRepresentative
  PROVE  /\ pc = "compare" /\ Continue /\ Enumerated(domain, State')
         /\ representative = Len(representatives) + 1 /\ Len(representatives) \in Nat
         /\ Required(domain, cursor + 1) = Required(domain, cursor) + Len(representatives)
         /\ isomorphism_checks' = isomorphism_checks
         /\ representatives' = Append(representatives, cursor)
<1>1. /\ pc = "compare" /\ AllCompared /\ Continue
      /\ isomorphism_checks' = isomorphism_checks
      /\ accepted_modules' = accepted_modules + 1
      /\ representatives' = Append(representatives, cursor)
      /\ assignments' = assignments
  BY DEF KeepRepresentative, AllCompared, CommitAccepted, spent
<1>2. cursor' = cursor + 1 /\ limits' = limits
  BY <1>1 DEF Continue, request
<1>3. domain \in Domains /\ State \in CensusStates /\ State' \in CensusStates
  BY DEF TypeOK
<1>4. /\ cursor \in Modules(domain) /\ Enumerated(domain, State)
      /\ Passed(domain, State, representative)
      /\ representative = Len(representatives) + 1 /\ Len(representatives) \in Nat
  BY <1>1, CompareFacts DEF AllCompared
<1>5. /\ Enumerated(domain, State')
      /\ Required(domain, cursor + 1) = Required(domain, cursor) + Len(representatives)
  <2>1. /\ State.cursor \in Modules(domain)
        /\ Passed(domain, State, Len(State.representatives) + 1)
        /\ State'.cursor = State.cursor + 1
        /\ State'.representatives = Append(State.representatives, State.cursor)
        /\ State'.accepted_modules = State.accepted_modules + 1
        /\ State'.assignments = State.assignments
        /\ State'.limits.retention = State.limits.retention
    BY <1>1, <1>2, <1>4, LiveView, LiveViewNext
  <2>2. /\ Enumerated(domain, State')
        /\ Required(domain, State'.cursor)
             = Required(domain, State.cursor) + Len(State.representatives)
    BY <1>3, <1>4, <2>1, KeepEnumerates
  <2>. QED
    BY <1>2, <2>2, LiveView, LiveViewNext
<1>. QED
  BY <1>1, <1>4, <1>5

\* So it leaves the counters right.
LEMMA KeepTrace ==
  ASSUME TypeOK, TypeOK', ClassInv, LedgerInv, TraceInv, KeepRepresentative
  PROVE  TraceInv'
<1>1. Fresh => isomorphism_checks' = Required(domain, cursor + 1)
  BY KeepCounts, FreshNumbers
<1>. QED
  BY <1>1, KeepCounts, ContinueTrace

\* The stops at a comparison.
LEMMA CompareStops ==
  ASSUME TypeOK, TypeOK', ClassInv, ClassInv', LedgerInv, CeilingsInv', TraceInv,
         \/ CutAtIsomorphismLimit \/ CutAtIsomorphismWork \/ FailComparison
         \/ CutAtUnknown \/ CutAtAssignmentLimit \/ CutAtRepresentativeLimit
  PROVE  TraceInv'
<1>. DEFINE k == Required(domain, cursor)
            r == representative
            Stopped(kind, reason) == Outcome(kind, reason, State')
<1>1. /\ pc = "compare"
      /\ r \in 1 .. Len(representatives) + 1 /\ r \in Nat /\ r > 0
      /\ Len(representatives) \in Nat
  <2>1. pc = "compare"
    BY DEF CutAtIsomorphismLimit, CutAtIsomorphismWork, FailComparison, CutAtUnknown,
           CutAtAssignmentLimit, CutAtRepresentativeLimit, Compared, Comparing,
           AllCompared
  <2>. QED
    BY <2>1, CompareFacts
<1>2. /\ candidates = cursor /\ cursor \in Nat /\ k \in Nat
      /\ isomorphism_checks \in Nat /\ work_units \in Nat /\ Redone \in Nat
      /\ work_units = candidates + isomorphism_checks + 1 + Redone
      /\ saved.work_units = candidates + saved.isomorphism_checks + Redone
      /\ saved.isomorphism_checks \in Nat
  BY <1>1, FreshNumbers, LiveLedger, LiveNumbers
<1>3. Fresh => /\ isomorphism_checks = k + r - 1 /\ work_units = cursor + k + r
               /\ saved.isomorphism_checks = k /\ Arrives(domain, State, r)
  BY <1>1, FreshNumbers
<1>4. ASSUME NEW kind \in {"cut", "failed"},
             NEW reason \in MidCandidateReasons \cup {"none"}, Return(kind, reason)
      PROVE  /\ Stopped(kind, reason).kind = kind /\ Stopped(kind, reason).reason = reason
             /\ Stopped(kind, reason).state = State'
             /\ State'.cursor = cursor /\ State'.limits = limits
             /\ State'.representatives = representatives
             /\ State'.assignments = assignments
             /\ Arrives(domain, State, r) => Arrives(domain, State', r)
             /\ Answer(domain, State', r) =
                  domain.compare[<<cursor, representatives[r]>>]
  <2>1. /\ State'.cursor = cursor /\ State'.limits = limits
        /\ State'.representatives = representatives
        /\ State'.assignments = assignments
    BY <1>4, LiveViewNext DEF Return, committed, request
  <2>2. Arrives(domain, State, r) => Arrives(domain, State', r)
    BY <2>1, LiveView DEF Arrives, Begun, Passed, Affords
  <2>. QED
    BY <2>1, <2>2 DEF Outcome, Answer
<1>5. ASSUME NEW kind \in {"cut", "failed"},
             NEW reason \in MidCandidateReasons \cup {"none"}, Return(kind, reason),
             kind = "failed" => reason = "none",
             work_units' = candidates + isomorphism_checks'
                             + (Pending(reason \in MidCandidateReasons) + Redone),
             Fresh => isomorphism_checks' = k + Charged(Stopped(kind, reason), r),
             Fresh => \/ StopsComparing(domain, Stopped(kind, reason), r)
                      \/ StopsKeeping(Stopped(kind, reason), r)
      PROVE  TraceInv'
  <2>1. Fresh => Halts(domain, Stopped(kind, reason), r)
    BY <1>1, <1>3, <1>4, <1>5, LiveViewNext DEF Halts
  <2>2. Fresh => Halted(domain, Stopped(kind, reason))
    BY <1>1, <2>1, HaltsHere
  <2>3. reason # "cancelled"
    BY <1>5 DEF MidCandidateReasons
  <2>. QED
    BY <1>1, <1>5, <2>2, <2>3, ReturnTrace
<1>6. ASSUME NEW reason \in MidCandidateReasons, Return("cut", reason),
             UNCHANGED spent, reason \notin {"unknown_isomorphism", "assignment_limit"},
             Fresh => \/ StopsComparing(domain, Stopped("cut", reason), r)
                      \/ StopsKeeping(Stopped("cut", reason), r)
      PROVE  TraceInv'
  <2>1. isomorphism_checks' = isomorphism_checks /\ work_units' = work_units
    BY <1>6 DEF spent
  <2>2. Charged(Stopped("cut", reason), r) = r - 1
    BY <1>4, <1>6 DEF Charged
  <2>3. work_units' = candidates + isomorphism_checks'
                        + (Pending(reason \in MidCandidateReasons) + Redone)
    BY <1>2, <1>6, <2>1 DEF Pending
  <2>4. Fresh => isomorphism_checks' = k + Charged(Stopped("cut", reason), r)
    BY <1>1, <1>2, <1>3, <2>1, <2>2
  <2>. QED
    BY <1>5, <1>6, <2>3, <2>4
<1>7. ASSUME NEW reason \in {"unknown_isomorphism", "assignment_limit"},
             Return("cut", reason), ChargeComparison,
             Fresh => StopsComparing(domain, Stopped("cut", reason), r)
      PROVE  TraceInv'
  <2>1. isomorphism_checks' = isomorphism_checks + 1 /\ work_units' = work_units + 1
    BY <1>7 DEF ChargeComparison
  <2>2. reason \in MidCandidateReasons
    BY <1>7 DEF MidCandidateReasons
  <2>3. Charged(Stopped("cut", reason), r) = r
    BY <1>4, <1>7, <2>2 DEF Charged
  <2>4. work_units' = candidates + isomorphism_checks'
                        + (Pending(reason \in MidCandidateReasons) + Redone)
    BY <1>2, <2>1, <2>2 DEF Pending
  <2>5. Fresh => isomorphism_checks' = k + Charged(Stopped("cut", reason), r)
    BY <1>1, <1>2, <1>3, <2>1, <2>3
  <2>. QED
    BY <1>5, <1>7, <2>2, <2>4, <2>5
<1>8. /\ Comparing => r <= Len(representatives)
      /\ \A answer : Compared(answer) =>
           /\ Comparing /\ domain.compare[<<cursor, representatives[r]>>] = answer
           /\ isomorphism_checks < limits.max_isomorphism_checks
           /\ work_units < limits.max_work_units
  BY DEF Comparing, Compared
<1>9. ASSUME NEW answer, Compared(answer), Fresh, State'.cursor = cursor,
             State'.limits = limits
      PROVE  Affords(domain, State', r)
  BY <1>3, <1>8, <1>9 DEF Affords
<1>10. CASE CutAtIsomorphismLimit
  <2>1. /\ Return("cut", "isomorphism_limit") /\ UNCHANGED spent /\ Comparing
        /\ isomorphism_checks >= limits.max_isomorphism_checks
        /\ "isomorphism_limit" \in MidCandidateReasons
    BY <1>10 DEF CutAtIsomorphismLimit, Cut, MidCandidateReasons
  <2>2. Fresh => StopsComparing(domain, Stopped("cut", "isomorphism_limit"), r)
    BY <1>3, <1>4, <1>8, <2>1 DEF StopsComparing
  <2>. QED
    BY <1>6, <2>1, <2>2
<1>11. CASE CutAtIsomorphismWork
  <2>1. /\ Return("cut", "work_limit_isomorphism") /\ UNCHANGED spent /\ Comparing
        /\ isomorphism_checks < limits.max_isomorphism_checks
        /\ work_units >= limits.max_work_units
        /\ "work_limit_isomorphism" \in MidCandidateReasons
    BY <1>11 DEF CutAtIsomorphismWork, Cut, MidCandidateReasons
  <2>2. Fresh => StopsComparing(domain, Stopped("cut", "work_limit_isomorphism"), r)
    BY <1>3, <1>4, <1>8, <2>1 DEF StopsComparing
  <2>. QED
    BY <1>6, <2>1, <2>2
<1>12. CASE CutAtRepresentativeLimit
  <2>1. /\ Return("cut", "representative_limit") /\ UNCHANGED spent
        /\ r = Len(representatives) + 1
        /\ Len(representatives) >= limits.max_representatives
        /\ "representative_limit" \in MidCandidateReasons
    BY <1>1, <1>12
       DEF CutAtRepresentativeLimit, AllCompared, Cut, MidCandidateReasons
  <2>2. StopsKeeping(Stopped("cut", "representative_limit"), r)
    BY <1>4, <2>1 DEF StopsKeeping
  <2>. QED
    BY <1>6, <2>1, <2>2
<1>13. CASE CutAtUnknown
  <2>1. /\ Return("cut", "unknown_isomorphism") /\ ChargeComparison
        /\ Compared("unknown") /\ "unknown_isomorphism" \in MidCandidateReasons
    BY <1>13 DEF CutAtUnknown, Cut, MidCandidateReasons
  <2>2. Fresh => StopsComparing(domain, Stopped("cut", "unknown_isomorphism"), r)
    BY <1>4, <1>8, <1>9, <2>1 DEF StopsComparing
  <2>. QED
    BY <1>7, <2>1, <2>2
<1>14. CASE CutAtAssignmentLimit
  <2>1. /\ Return("cut", "assignment_limit") /\ ChargeComparison
        /\ Compared("isomorphic") /\ "assignment_limit" \in MidCandidateReasons
        /\ limits.retention = "all_assignments"
        /\ Len(assignments) >= limits.max_assignments
    BY <1>14 DEF CutAtAssignmentLimit, Cut, MidCandidateReasons
  <2>2. Fresh => StopsComparing(domain, Stopped("cut", "assignment_limit"), r)
    BY <1>4, <1>8, <1>9, <2>1 DEF StopsComparing
  <2>. QED
    BY <1>7, <2>1, <2>2
<1>15. CASE FailComparison
  <2>1. /\ Return("failed", "none") /\ Compared("error")
        /\ work_units' = saved.work_units
        /\ isomorphism_checks' = saved.isomorphism_checks
        /\ "none" \notin MidCandidateReasons
    BY <1>15 DEF FailComparison, MidCandidateReasons
  <2>2. Fresh => StopsComparing(domain, Stopped("failed", "none"), r)
    BY <1>4, <1>8, <1>9, <2>1 DEF StopsComparing
  <2>3. Charged(Stopped("failed", "none"), r) = 0
    BY <1>4, <2>1 DEF Charged
  <2>4. work_units' = candidates + isomorphism_checks'
                        + (Pending("none" \in MidCandidateReasons) + Redone)
    BY <1>2, <2>1 DEF Pending
  <2>5. Fresh => isomorphism_checks' = k + Charged(Stopped("failed", "none"), r)
    BY <1>2, <1>3, <2>1, <2>3
  <2>. QED
    BY <1>5, <2>1, <2>2, <2>4, <2>5
<1>. QED
  BY <1>10, <1>11, <1>12, <1>13, <1>14, <1>15

\* They are on it when an engine starts.
LEMMA TraceInit == Init => TraceInv
<1>. SUFFICES ASSUME Init PROVE TraceInv
  OBVIOUS
<1>1. /\ domain \in Domains /\ limits \in CensusLimits
      /\ pc = "loop" /\ purpose = "run" /\ cursor = 0 /\ isomorphism_checks = 0
      /\ verdict = "none" /\ held.state = Empty(limits) /\ State = Empty(limits)
  BY LimitsAssumption DEF Init, Outcome, State, Empty
<1>2. Enumerated(domain, Empty(limits))
  BY <1>1, EmptyEnumerated
<1>3. CountsAreRequired
  BY <1>1, RequiredZero DEF CountsAreRequired
<1>. QED
  BY <1>1, <1>2, <1>3 DEF TraceInv, VerdictIsExact

\* A replay starts from nothing.
LEMMA VerifyTrace ==
  ASSUME TypeOK, TraceInv, Verify
  PROVE  TraceInv'
<1>1. /\ pc = "idle" /\ pc' = "loop" /\ purpose' = "replay"
      /\ limits' = ReplayLimits(held)
      /\ UNCHANGED <<domain, held, verdict, redone>>
      /\ cursor' = 0 /\ isomorphism_checks' = 0
      /\ State' = Empty(ReplayLimits(held))
  BY DEF Verify, Load, Empty, history, State
<1>2. domain \in Domains /\ ReplayLimits(held) \in CensusLimits
  BY ReplayLimitsType DEF TypeOK
<1>3. Enumerated(domain, State')
  BY <1>1, <1>2, EmptyEnumerated
<1>4. CountsAreRequired'
  BY <1>1, <1>2, RequiredZero DEF CountsAreRequired
<1>5. HeldIsKnown'
  BY <1>1 DEF TraceInv, HeldIsKnown
<1>. QED
  BY <1>1, <1>3, <1>4, <1>5 DEF TraceInv, VerdictIsExact

\* A resume from a boundary goes on with the counters of a fresh enumeration; one that
\* repeats a candidate is counted in redone.
LEMMA ResumeTrace ==
  ASSUME TypeOK, TypeOK', TraceInv, Resume
  PROVE  TraceInv'
<1>1. /\ pc = "idle" /\ pc' = "loop" /\ purpose' = "run"
      /\ limits'.retention = held.state.limits.retention
      /\ UNCHANGED <<domain, held>>
      /\ cursor' = held.state.cursor
      /\ accepted_modules' = held.state.accepted_modules
      /\ isomorphism_checks' = held.state.isomorphism_checks
      /\ representatives' = held.state.representatives
      /\ assignments' = held.state.assignments
      /\ redone' = redone + (IF held.reason \in MidCandidateReasons THEN 1 ELSE 0)
  BY DEF Resume, Load
<1>2. domain \in Domains /\ held.state \in CensusStates /\ State' \in CensusStates
      /\ redone \in Nat
  BY DEF TypeOK, Outcomes
<1>3. Enumerated(domain, held.state)
  BY DEF TraceInv
<1>4. Enumerated(domain, State')
  BY <1>1, <1>2, <1>3, LiveViewNext, SameEnumerated
<1>5. ASSUME redone' = 0
      PROVE  isomorphism_checks' = Required(domain, cursor')
  <2>1. redone = 0 /\ held.reason \notin MidCandidateReasons
    BY <1>1, <1>2, <1>5
  <2>2. PICK r : Halts(domain, held, r)
    BY <1>1, <2>1 DEF TraceInv, HeldIsKnown, Halted
  <2>3. Charged(held, r) = 0
    BY <2>1 DEF Charged, MidCandidateReasons
  <2>4. Required(domain, held.state.cursor) \in Nat
    BY <1>2, StateFields, ComparisonsFinite
  <2>. QED
    BY <1>1, <2>2, <2>3, <2>4 DEF Halts
<1>6. Fresh' => CountsAreRequired'
  BY <1>1, <1>5 DEF Fresh, CountsAreRequired
<1>. QED
  BY <1>1, <1>3, <1>4, <1>6 DEF TraceInv, VerdictIsExact

\* Every step keeps them on it.
LEMMA TraceNext ==
  /\ TypeOK /\ ClassInv /\ LedgerInv /\ TraceInv
  /\ TypeOK' /\ ClassInv' /\ CeilingsInv'
  /\ [Next]_vars
  => TraceInv'
<1>. SUFFICES ASSUME TypeOK, ClassInv, LedgerInv, TraceInv,
                     TypeOK', ClassInv', CeilingsInv', [Next]_vars
              PROVE  TraceInv'
  OBVIOUS
<1>1. CASE LoopStep
  BY <1>1, LoopStops, RejectTrace, BeginTrace DEF LoopStep
<1>2. CASE CompareStep
  BY <1>2, CompareStops, NextTrace, DuplicateTrace, KeepTrace DEF CompareStep
<1>3. CASE Cancel \/ UNCHANGED vars
  <2>1. UNCHANGED <<domain, limits, purpose, cursor, accepted_modules, representatives,
                    assignments, isomorphism_checks, representative, saved, pc, held,
                    verdict, redone>>
    BY <1>3 DEF Cancel, vars, request, committed, counts, spent, locals, history
  <2>2. Enumerated(domain', State')
    BY <2>1, StaysEnumerated
  <2>3. /\ Begun(domain, State) => Begun(domain', State')
        /\ Passed(domain, State, representative)
             => Passed(domain', State', representative')
        /\ Arrives(domain, State, representative)
             => Arrives(domain', State', representative')
    BY <2>1, LiveView, LiveViewNext DEF Begun, Passed, Arrives, Affords
  <2>4. (Fresh => CountsAreRequired)'
    BY <2>1, <2>3 DEF TraceInv, Fresh, CountsAreRequired
  <2>5. (pc = "idle" \/ purpose = "replay" => HeldIsKnown)'
    BY <2>1 DEF TraceInv, HeldIsKnown
  <2>6. VerdictIsExact'
    BY <2>1 DEF TraceInv, VerdictIsExact
  <2>. QED
    BY <2>1, <2>2, <2>3, <2>4, <2>5, <2>6 DEF TraceInv
<1>4. CASE Verify
  BY <1>4, VerifyTrace
<1>5. CASE Resume
  BY <1>5, ResumeTrace
<1>. QED
  BY <1>1, <1>2, <1>3, <1>4, <1>5 DEF Next, Engine

\* In every run, however often it is cut and resumed, the live state and the one
\* held are prefixes of the one enumeration of the domain, a fresh run counts what
\* the enumeration requires, and the verdict on a held state is exact.
THEOREM TraceAlways == Spec => [](LedgerInv /\ TraceInv)
<1>1. Init => ClassInv /\ LedgerInv /\ CeilingsInv /\ TraceInv
  BY ClassInvInit, InitType, LedgerInit, CeilingsInit, TraceInit
<1>2. TypeOK /\ LedgerInv /\ [Next]_vars => LedgerInv'
  BY LedgerNext
<1>3. TypeOK /\ CeilingsInv /\ [Next]_vars => CeilingsInv'
  BY CeilingsNext
<1>4. /\ TypeOK /\ ClassInv /\ LedgerInv /\ TraceInv
      /\ TypeOK' /\ ClassInv' /\ CeilingsInv' /\ [Next]_vars
      => TraceInv'
  BY TraceNext
<1>. QED
  BY <1>1, <1>2, <1>3, <1>4, SoundAlways, PTL DEF Spec

\* verify() accepts an outcome exactly when no resume charged a candidate twice and the
\* ceilings it is replayed under admit it, for every domain, every set of limits and
\* every history of cuts, failures, cancellations and resumes.
THEOREM VerdictsAreExact == Spec => []VerdictIsExact
<1>1. TraceInv => VerdictIsExact
  BY DEF TraceInv
<1>. QED
  BY <1>1, TraceAlways, PTL

\* At every candidate boundary of a census that repeated no candidate the comparison
\* counter is the number of comparisons the classification needs.
THEOREM OnlyNecessaryChecks == Spec => []ChecksAreNecessary
<1>1. TraceInv => ChecksAreNecessary
  BY DEF TraceInv, Fresh, CountsAreRequired, ChecksAreNecessary, Required
<1>. QED
  BY <1>1, TraceAlways, PTL

-----------------------------------------------------------------------------
(* The surplus of a census that began candidates and did not commit them:  *)
(* every abandoned candidate left at most one comparison with each         *)
(* representative in the counter.                                          *)

Surplus(checks, n, most) == checks \in Required(domain, n) .. Required(domain, n) + most

SurplusInv ==
  /\ pc = "loop" /\ purpose = "run" =>
       Surplus(isomorphism_checks, cursor, redone * Len(representatives))
  /\ pc = "compare" /\ purpose = "run" =>
       /\ Surplus(saved.isomorphism_checks, cursor, redone * Len(representatives))
       /\ isomorphism_checks = saved.isomorphism_checks + representative - 1
  /\ pc = "idle" \/ purpose = "replay" =>
       Surplus(held.state.isomorphism_checks, held.state.cursor,
               Abandoned * Len(held.state.representatives))

\* The numbers the surplus is made of.
LEMMA SurplusNumbers ==
  ASSUME TypeOK, ClassInv
  PROVE  /\ domain \in Domains /\ cursor \in Nat /\ candidates = cursor
         /\ held.state.cursor \in Nat /\ held.state.candidates = held.state.cursor
         /\ Required(domain, cursor) \in Nat /\ Required(domain, held.state.cursor) \in Nat
         /\ Len(representatives) \in Nat /\ Len(held.state.representatives) \in Nat
         /\ isomorphism_checks \in Nat /\ held.state.isomorphism_checks \in Nat
         /\ saved.isomorphism_checks \in Nat /\ representative \in Nat
         /\ redone \in Nat /\ Abandoned \in Nat
<1>1. domain \in Domains /\ held.state \in CensusStates /\ representative \in Nat
  BY DEF TypeOK, Outcomes
<1>2. /\ cursor \in Nat /\ candidates = cursor /\ Len(representatives) \in Nat
  BY LoopFacts DEF CountVars, Numbers
<1>3. /\ held.state.cursor \in Nat /\ Len(held.state.representatives) \in Nat
      /\ held.state.isomorphism_checks \in Nat
  BY <1>1, StateFields
<1>4. held.state.candidates = held.state.cursor
  BY DEF ClassInv, Sound, VerifyStateData
<1>5. /\ Required(domain, cursor) \in Nat /\ Required(domain, held.state.cursor) \in Nat
  BY <1>1, <1>2, <1>3, ComparisonsFinite
<1>6. /\ isomorphism_checks \in Nat /\ saved.isomorphism_checks \in Nat /\ redone \in Nat
  BY LiveNumbers
<1>7. Abandoned \in Nat
  BY <1>6 DEF Abandoned, Pending
<1>. QED
  BY <1>1, <1>2, <1>3, <1>4, <1>5, <1>6, <1>7

\* A returned outcome has the surplus of the run, and a replay returns none.
LEMMA ReturnSurplus ==
  ASSUME TypeOK, SurplusInv, NEW kind, NEW reason, Return(kind, reason), pc # "idle",
         purpose = "run" =>
           Surplus(isomorphism_checks', cursor,
                   (redone + Pending(reason \in MidCandidateReasons))
                     * Len(representatives))
  PROVE  SurplusInv'
<1>1. /\ pc' = "idle" /\ purpose' = purpose /\ domain' = domain /\ redone' = redone
      /\ cursor' = cursor /\ representatives' = representatives
  BY DEF Return, request, committed, history
<1>2. CASE purpose = "run"
  <2>1. /\ held'.reason = reason /\ held'.state.isomorphism_checks = isomorphism_checks'
        /\ held'.state.cursor = cursor /\ held'.state.representatives = representatives
    BY <1>1, <1>2, LiveViewNext DEF Return, Outcome
  <2>2. Abandoned' = redone + Pending(reason \in MidCandidateReasons)
    BY <1>1, <2>1 DEF Abandoned
  <2>. QED
    BY <1>1, <1>2, <2>1, <2>2 DEF SurplusInv, Surplus
<1>3. CASE purpose = "replay"
  <2>1. held' = held /\ Abandoned' = Abandoned
    BY <1>1, <1>3 DEF Return, Abandoned
  <2>. QED
    BY <1>1, <1>3, <2>1 DEF SurplusInv, Surplus
<1>. QED
  BY <1>2, <1>3 DEF TypeOK

\* A commit keeps the surplus it is made with.
LEMMA ContinueSurplus ==
  ASSUME TypeOK, SurplusInv, Continue, pc # "idle",
         purpose = "run" =>
           Surplus(isomorphism_checks', cursor + 1, redone * Len(representatives'))
  PROVE  SurplusInv'
<1>1. /\ pc' = "loop" /\ purpose' = purpose /\ domain' = domain /\ redone' = redone
      /\ cursor' = cursor + 1 /\ held' = held
  BY DEF Continue, request, history
<1>2. CASE purpose = "run"
  BY <1>1, <1>2 DEF SurplusInv, Surplus
<1>3. CASE purpose = "replay"
  <2>1. Abandoned' = Abandoned
    BY <1>1, <1>3 DEF Abandoned
  <2>. QED
    BY <1>1, <1>3, <2>1 DEF SurplusInv, Surplus
<1>. QED
  BY <1>2, <1>3 DEF TypeOK

\* A step of the loop that compares nothing adds no surplus.
LEMMA LoopSurplus ==
  ASSUME TypeOK, TypeOK', ClassInv, LedgerInv, TraceInv, SurplusInv, LoopStep
  PROVE  SurplusInv'
<1>1. pc = "loop" /\ pc # "idle"
  BY DEF LoopStep, Finish, ObserveCancellation, CutAtCandidateLimit,
         CutAtCandidateWork, RejectCandidate, FailConstruction, BeginComparisons,
         Built, Processing
<1>2. purpose = "run" =>
        Surplus(isomorphism_checks, cursor, redone * Len(representatives))
  BY <1>1 DEF SurplusInv
<1>3. ASSUME NEW kind, NEW reason \in BoundaryReasons \cup {"none"},
             Return(kind, reason), UNCHANGED spent
      PROVE  SurplusInv'
  <2>1. Pending(reason \in MidCandidateReasons) = 0
    BY <1>3 DEF Pending, BoundaryReasons, MidCandidateReasons
  <2>2. redone + 0 = redone /\ isomorphism_checks' = isomorphism_checks
    BY <1>3, SurplusNumbers DEF spent
  <2>. QED
    BY <1>1, <1>2, <1>3, <2>1, <2>2, ReturnSurplus
<1>4. CASE Finish \/ FailConstruction
  BY <1>3, <1>4 DEF Finish, FailConstruction
<1>5. CASE ObserveCancellation \/ CutAtCandidateLimit \/ CutAtCandidateWork
  BY <1>3, <1>5
     DEF ObserveCancellation, CutAtCandidateLimit, CutAtCandidateWork, Cut, BoundaryReasons
<1>6. CASE RejectCandidate
  <2>1. /\ Continue /\ Required(domain, cursor + 1) = Required(domain, cursor)
        /\ isomorphism_checks' = isomorphism_checks /\ representatives' = representatives
    BY <1>6, RejectCounts
  <2>. QED
    BY <1>1, <1>2, <2>1, ContinueSurplus DEF Surplus
<1>7. CASE BeginComparisons
  <2>1. /\ pc' = "compare" /\ isomorphism_checks' = isomorphism_checks
        /\ saved'.isomorphism_checks = isomorphism_checks /\ representative' = 1
        /\ UNCHANGED <<domain, purpose, cursor, representatives, held, redone>>
    BY <1>7 DEF BeginComparisons, ReserveWork, request, committed, history
  <2>2. isomorphism_checks = isomorphism_checks + 1 - 1
    BY SurplusNumbers
  <2>3. purpose = "replay" => Abandoned' = Abandoned
    BY <2>1 DEF Abandoned
  <2>. QED
    BY <1>1, <1>2, <2>1, <2>2, <2>3 DEF SurplusInv, Surplus
<1>. QED
  BY <1>4, <1>5, <1>6, <1>7 DEF LoopStep

\* A cut in the middle of a candidate abandons it after at most one comparison with every
\* representative, a failure gives its comparisons back, and a commit needed them.
LEMMA CompareSurplus ==
  ASSUME TypeOK, TypeOK', ClassInv, LedgerInv, TraceInv, SurplusInv, CompareStep
  PROVE  SurplusInv'
<1>. DEFINE k == Required(domain, cursor)
            n == Len(representatives)
<1>1. pc = "compare" /\ pc # "idle"
  BY DEF CompareStep, CutAtIsomorphismLimit, CutAtIsomorphismWork, FailComparison,
         NextRepresentative, CutAtUnknown, DropDuplicate, CutAtAssignmentLimit,
         AssignDuplicate, CutAtRepresentativeLimit, KeepRepresentative, Compared,
         Comparing, AllCompared
<1>2. /\ k \in Nat /\ n \in Nat /\ redone \in Nat /\ redone * n \in Nat
      /\ isomorphism_checks \in Nat /\ saved.isomorphism_checks \in Nat
      /\ representative \in 1 .. n + 1
  BY <1>1, SurplusNumbers, CompareFacts
<1>3. purpose = "run" =>
        /\ saved.isomorphism_checks \in k .. k + redone * n
        /\ isomorphism_checks = saved.isomorphism_checks + representative - 1
  BY <1>1 DEF SurplusInv, Surplus
<1>4. ASSUME NEW reason \in MidCandidateReasons, Cut(reason),
             isomorphism_checks' \in Nat,
             purpose = "run" => /\ saved.isomorphism_checks <= isomorphism_checks'
                                /\ isomorphism_checks' <= saved.isomorphism_checks + n
      PROVE  SurplusInv'
  <2>1. Pending(reason \in MidCandidateReasons) = 1
    BY <1>4 DEF Pending
  <2>2. (redone + 1) * n = redone * n + n
    BY <1>2
  <2>3. purpose = "run" => isomorphism_checks' \in k .. k + (redone + 1) * n
    BY <1>2, <1>3, <1>4, <2>2
  <2>. QED
    BY <1>1, <1>4, <2>1, <2>3, ReturnSurplus DEF Cut, Surplus
<1>5. CASE CutAtIsomorphismLimit \/ CutAtIsomorphismWork \/ CutAtRepresentativeLimit
  <2>1. isomorphism_checks' = isomorphism_checks
    BY <1>5 DEF CutAtIsomorphismLimit, CutAtIsomorphismWork, CutAtRepresentativeLimit, spent
  <2>2. PICK reason \in MidCandidateReasons : Cut(reason)
    BY <1>5 DEF CutAtIsomorphismLimit, CutAtIsomorphismWork, CutAtRepresentativeLimit,
                MidCandidateReasons
  <2>. QED
    BY <1>2, <1>3, <1>4, <2>1, <2>2
<1>6. CASE CutAtUnknown \/ CutAtAssignmentLimit
  <2>1. isomorphism_checks' = isomorphism_checks + 1 /\ representative <= n
    BY <1>6 DEF CutAtUnknown, CutAtAssignmentLimit, ChargeComparison, Compared, Comparing
  <2>2. PICK reason \in MidCandidateReasons : Cut(reason)
    BY <1>6 DEF CutAtUnknown, CutAtAssignmentLimit, MidCandidateReasons
  <2>. QED
    BY <1>2, <1>3, <1>4, <2>1, <2>2
<1>7. CASE FailComparison
  <2>1. /\ Return("failed", "none")
        /\ isomorphism_checks' = saved.isomorphism_checks
    BY <1>7 DEF FailComparison
  <2>2. Pending("none" \in MidCandidateReasons) = 0 /\ redone + 0 = redone
    BY <1>2 DEF Pending, MidCandidateReasons
  <2>. QED
    BY <1>1, <1>3, <2>1, <2>2, ReturnSurplus DEF Surplus
<1>8. CASE NextRepresentative
  <2>1. /\ isomorphism_checks' = isomorphism_checks + 1
        /\ representative' = representative + 1
        /\ UNCHANGED <<pc, domain, purpose, cursor, representatives, saved, held, redone>>
    BY <1>8 DEF NextRepresentative, ChargeComparison, request, committed, history
  <2>2. purpose = "run" =>
          isomorphism_checks + 1 = saved.isomorphism_checks + (representative + 1) - 1
    BY <1>2, <1>3
  <2>3. Abandoned' = Abandoned
    BY <2>1 DEF Abandoned
  <2>. QED
    BY <1>1, <1>3, <2>1, <2>2, <2>3 DEF SurplusInv, Surplus
<1>9. CASE DropDuplicate \/ AssignDuplicate
  <2>1. /\ Continue /\ Required(domain, cursor + 1) = k + representative
        /\ isomorphism_checks' = isomorphism_checks + 1 /\ representatives' = representatives
    BY <1>9, DuplicateCounts
  <2>2. purpose = "run" =>
          isomorphism_checks' \in k + representative .. k + representative + redone * n
    BY <1>2, <1>3, <2>1
  <2>. QED
    BY <1>1, <2>1, <2>2, ContinueSurplus DEF Surplus
<1>10. CASE KeepRepresentative
  <2>1. /\ Continue /\ representative = n + 1 /\ Required(domain, cursor + 1) = k + n
        /\ isomorphism_checks' = isomorphism_checks
        /\ representatives' = Append(representatives, cursor)
    BY <1>10, KeepCounts
  <2>2. Len(representatives') = n + 1
    BY <2>1, StateTypes DEF TypeOK, VarTypes
  <2>3. redone * n <= redone * (n + 1) /\ redone * (n + 1) \in Nat
    BY <1>2
  <2>4. purpose = "run" =>
          isomorphism_checks' \in k + n .. k + n + redone * (n + 1)
    BY <1>2, <1>3, <2>1, <2>3
  <2>. QED
    BY <1>1, <2>1, <2>2, <2>4, ContinueSurplus DEF Surplus
<1>. QED
  BY <1>5, <1>6, <1>7, <1>8, <1>9, <1>10 DEF CompareStep

\* Nothing is abandoned when an engine starts.
LEMMA SurplusInit == Init => SurplusInv
<1>. SUFFICES ASSUME Init PROVE SurplusInv
  OBVIOUS
<1>1. /\ pc = "loop" /\ purpose = "run" /\ cursor = 0 /\ isomorphism_checks = 0
      /\ redone = 0 /\ representatives = <<>> /\ domain \in Domains
  BY DEF Init
<1>2. Required(domain, 0) = 0 /\ redone * Len(representatives) = 0
  BY <1>1, RequiredZero
<1>. QED
  BY <1>1, <1>2 DEF SurplusInv, Surplus

\* Every step keeps the surplus in its bounds; a resume takes over what was abandoned.
LEMMA SurplusNext ==
  /\ TypeOK /\ ClassInv /\ LedgerInv /\ TraceInv /\ SurplusInv
  /\ TypeOK' /\ [Next]_vars
  => SurplusInv'
<1>. SUFFICES ASSUME TypeOK, ClassInv, LedgerInv, TraceInv, SurplusInv, TypeOK',
                     [Next]_vars
              PROVE  SurplusInv'
  OBVIOUS
<1>1. CASE Engine
  BY <1>1, LoopSurplus, CompareSurplus DEF Engine
<1>2. CASE Cancel \/ UNCHANGED vars
  <2>1. UNCHANGED <<pc, domain, purpose, cursor, representatives, isomorphism_checks,
                    representative, saved, held, redone>>
    BY <1>2 DEF Cancel, vars, request, committed, spent, locals, history
  <2>2. Abandoned' = Abandoned
    BY <2>1 DEF Abandoned
  <2>. QED
    BY <2>1, <2>2 DEF SurplusInv, Surplus
<1>3. CASE Verify
  <2>1. /\ pc = "idle" /\ pc' = "loop" /\ purpose' = "replay"
        /\ UNCHANGED <<domain, held, redone>>
    BY <1>3 DEF Verify, Load, history
  <2>2. Abandoned' = Abandoned
    BY <2>1 DEF Abandoned
  <2>. QED
    BY <2>1, <2>2 DEF SurplusInv, Surplus
<1>4. CASE Resume
  <2>1. /\ pc = "idle" /\ pc' = "loop" /\ purpose' = "run" /\ domain' = domain
        /\ cursor' = held.state.cursor
        /\ isomorphism_checks' = held.state.isomorphism_checks
        /\ representatives' = held.state.representatives
        /\ redone' = redone + Pending(held.reason \in MidCandidateReasons)
    BY <1>4 DEF Resume, Load, Pending
  <2>2. redone' = Abandoned
    BY <2>1 DEF Abandoned
  <2>. QED
    BY <2>1, <2>2 DEF SurplusInv, Surplus
<1>. QED
  BY <1>1, <1>2, <1>3, <1>4 DEF Next

\* The ledger turns a surplus of comparisons into one of work.
LEMMA SurplusOfWork ==
  ASSUME NEW n \in Nat, NEW checks \in Nat, NEW a \in Nat, NEW m \in Nat,
         Required(domain, n) \in Nat, Surplus(checks, n, a * m)
  PROVE  (n + checks + a) - WorkBefore(n) \in a .. a * (1 + m)
<1>1. a * m \in Nat /\ a * (1 + m) = a + a * m
  OBVIOUS
<1>2. WorkBefore(n) = n + Required(domain, n)
  BY DEF WorkBefore, Required
<1>3. checks \in Required(domain, n) .. Required(domain, n) + a * m
  BY DEF Surplus
<1>. QED
  BY <1>1, <1>2, <1>3

\* What is published is the work of the committed prefix and the bounded surplus.
LEMMA PublishedIsAccounted ==
  TypeOK /\ ClassInv /\ LedgerInv /\ ProgressInv /\ SurplusInv => ProgressIsAccounted
<1>. SUFFICES ASSUME TypeOK, ClassInv, LedgerInv, ProgressInv, SurplusInv
              PROVE  ProgressIsAccounted
  OBVIOUS
<1>. USE SurplusNumbers
<1>1. CASE pc = "idle" \/ purpose = "replay"
  <2>1. /\ Committed = held.state
        /\ progress.completed_work = held.state.work_units
    BY <1>1 DEF Committed, ProgressInv, PublishedWork
  <2>2. held.state.work_units
          = held.state.cursor + held.state.isomorphism_checks + Abandoned
    BY <1>1 DEF LedgerInv, WorkLedger, Balanced, Abandoned, Pending
  <2>3. Surplus(held.state.isomorphism_checks, held.state.cursor,
                Abandoned * Len(held.state.representatives))
    BY <1>1 DEF SurplusInv
  <2>. QED
    BY <2>1, <2>2, <2>3, SurplusOfWork DEF ProgressIsAccounted, ProgressInv, PublishedWork
<1>2. CASE pc # "idle" /\ purpose = "run"
  <2>1. /\ Committed.cursor = cursor /\ Committed.representatives = representatives
        /\ Committed.work_units = work_units
        /\ Abandoned = redone /\ Redone = redone
    BY <1>2, LiveView DEF Committed, Abandoned, Pending, Redone
  <2>2. CASE pc = "loop"
    <3>1. progress.completed_work = cursor + isomorphism_checks + redone
      BY <1>2, <2>1, <2>2, LiveLedger DEF ProgressInv, PublishedWork
    <3>2. Surplus(isomorphism_checks, cursor, redone * Len(representatives))
      BY <1>2, <2>2 DEF SurplusInv
    <3>. QED
      BY <2>1, <3>1, <3>2, SurplusOfWork
         DEF ProgressIsAccounted, ProgressInv, PublishedWork
  <2>3. CASE pc = "compare"
    <3>1. progress.completed_work = cursor + saved.isomorphism_checks + redone
      BY <1>2, <2>1, <2>3, LiveLedger DEF ProgressInv, PublishedWork
    <3>2. Surplus(saved.isomorphism_checks, cursor, redone * Len(representatives))
      BY <1>2, <2>3 DEF SurplusInv
    <3>. QED
      BY <2>1, <3>1, <3>2, SurplusOfWork
         DEF ProgressIsAccounted, ProgressInv, PublishedWork
  <2>. QED
    BY <1>2, <2>2, <2>3 DEF TypeOK
<1>. QED
  BY <1>1, <1>2 DEF TypeOK

\* A polling thread always reads exactly the work the committed prefix needs, unless a
\* cut left a candidate unfinished: then what that candidate was charged is published
\* too, at least its unit and at most one more for every representative.
THEOREM ProgressIsHonest == Spec => []ProgressIsAccounted
<1>1. Init => ProgressInv /\ SurplusInv
  BY ProgressInit, SurplusInit
<1>2. TypeOK /\ ProgressInv /\ [Next]_vars => ProgressInv'
  BY ProgressNext
<1>3. /\ TypeOK /\ ClassInv /\ LedgerInv /\ TraceInv /\ SurplusInv
      /\ TypeOK' /\ [Next]_vars
      => SurplusInv'
  BY SurplusNext
<1>4. TypeOK /\ ClassInv /\ LedgerInv /\ ProgressInv /\ SurplusInv => ProgressIsAccounted
  BY PublishedIsAccounted
<1>. QED
  BY <1>1, <1>2, <1>3, <1>4, SoundAlways, TraceAlways, PTL DEF Spec

=============================================================================
