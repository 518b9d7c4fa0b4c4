--------------------- MODULE EquivalenceDiscoveryProofs ---------------------
(***************************************************************************)
(* What the walk promises for every algebra and every limit: the graph is  *)
(* exact, each attempt is recorded once, an exhausted frontier without an  *)
(* open blocker has found every complex that can be reached, and a graph   *)
(* that is returned passes its own verifier.                               *)
(***************************************************************************)
EXTENDS EquivalenceDiscovery, ProofLibrary, TLAPS, FiniteSetTheorems

-----------------------------------------------------------------------------
(* Complexes up to isomorphism.                                            *)

\* A complex is a non-empty sequence of different summands.
LEMMA ComplexFacts ==
  ASSUME NEW c \in Complexes
  PROVE  /\ c \in Seq(Summands) /\ Len(c) \in Nat \ {0} /\ DOMAIN c = 1 .. Len(c)
         /\ IsFiniteSet(DOMAIN c) /\ Cardinality(DOMAIN c) = Len(c)
         /\ \A i, j \in DOMAIN c : i # j => c[i] # c[j]
         /\ \A i \in DOMAIN c : c[i] \in Summands
<1>1. c \in Seq(Summands) /\ c # <<>> /\ \A i, j \in DOMAIN c : i # j => c[i] # c[j]
  BY ComplexAssumption
<1>2. Len(c) \in Nat \ {0} /\ DOMAIN c = 1 .. Len(c) /\ \A i \in DOMAIN c : c[i] \in Summands
  BY <1>1
<1>3. IsFiniteSet(1 .. Len(c)) /\ Cardinality(1 .. Len(c)) = Len(c)
  BY <1>2, FS_Interval
<1>. QED
  BY <1>1, <1>2, <1>3

\* A complex has as many summands with a property as positions that hold them.
LEMMA SummandsCounted ==
  ASSUME NEW c \in Complexes, NEW T \in SUBSET Class(c)
  PROVE  /\ IsFiniteSet(T)
         /\ Cardinality({i \in DOMAIN c : c[i] \in T}) = Cardinality(T)
<1>. DEFINE P == {i \in DOMAIN c : c[i] \in T}
            f == [i \in P |-> c[i]]
<1>1. IsFiniteSet(P)
  BY ComplexFacts, FS_Subset
<1>2. f \in Bijection(P, T)
  <2>1. f \in [P -> T]
    OBVIOUS
  <2>2. \A i, j \in P : f[i] = f[j] => i = j
    BY ComplexFacts
  <2>3. \A x \in T : \E i \in P : f[i] = x
    BY DEF Class
  <2>. QED
    BY <2>1, <2>2, <2>3 DEF Bijection, Injection, Surjection, IsInjective
<1>3. ExistsBijection(P, T)
  BY <1>2 DEF ExistsBijection
<1>. QED
  BY <1>1, <1>3, FS_Bijection

\* Isomorphic complexes have one length and one key.
LEMMA ClassDecides ==
  ASSUME NEW c \in Complexes, NEW d \in Complexes, Class(c) = Class(d)
  PROVE  Len(c) = Len(d) /\ Key(c) = Key(d)
<1>1. Len(c) = Len(d)
  <2>1. Cardinality({i \in DOMAIN c : c[i] \in Class(c)}) = Cardinality(Class(c))
    BY SummandsCounted
  <2>2. Cardinality({i \in DOMAIN d : d[i] \in Class(d)}) = Cardinality(Class(d))
    BY SummandsCounted
  <2>3. /\ {i \in DOMAIN c : c[i] \in Class(c)} = DOMAIN c
        /\ {i \in DOMAIN d : d[i] \in Class(d)} = DOMAIN d
    BY DEF Class
  <2>. QED
    BY <2>1, <2>2, <2>3, ComplexFacts
<1>2. ASSUME NEW s
      PROVE  Cardinality({i \in DOMAIN c : Shape[c[i]] = s})
               = Cardinality({i \in DOMAIN d : Shape[d[i]] = s})
  <2>. DEFINE T == {x \in Class(c) : Shape[x] = s}
  <2>1. Cardinality({i \in DOMAIN c : c[i] \in T}) = Cardinality(T)
    BY SummandsCounted
  <2>2. Cardinality({i \in DOMAIN d : d[i] \in T}) = Cardinality(T)
    BY SummandsCounted
  <2>3. /\ {i \in DOMAIN c : c[i] \in T} = {i \in DOMAIN c : Shape[c[i]] = s}
        /\ {i \in DOMAIN d : d[i] \in T} = {i \in DOMAIN d : Shape[d[i]] = s}
    BY DEF Class
  <2>. QED
    BY <2>1, <2>2, <2>3
<1>. QED
  BY <1>1, <1>2 DEF Key

\* The comparison of the code decides isomorphism.
LEMMA IsomorphicIsSameClass ==
  ASSUME NEW c \in Complexes, NEW d \in Complexes
  PROVE  Isomorphic(c, d) <=> Class(c) = Class(d)
<1>1. ASSUME Class(c) = Class(d) PROVE Isomorphic(c, d)
  <2>1. Len(c) = Len(d)
    BY <1>1, ClassDecides
  <2>2. \A i \in DOMAIN c : \E j \in DOMAIN d : d[j] = c[i]
    BY <1>1 DEF Class
  <2>. QED
    BY <2>1, <2>2 DEF Isomorphic
<1>2. ASSUME Isomorphic(c, d) PROVE Class(c) = Class(d)
  <2>1. Class(c) \subseteq Class(d) /\ Len(c) = Len(d)
    BY <1>2 DEF Isomorphic, Class
  <2>2. \A e \in Complexes : Cardinality(Class(e)) = Len(e) /\ IsFiniteSet(Class(e))
    <3>. TAKE e \in Complexes
    <3>1. /\ Cardinality({i \in DOMAIN e : e[i] \in Class(e)}) = Cardinality(Class(e))
          /\ IsFiniteSet(Class(e))
      BY SummandsCounted
    <3>2. {i \in DOMAIN e : e[i] \in Class(e)} = DOMAIN e
      BY DEF Class
    <3>. QED
      BY <3>1, <3>2, ComplexFacts
  <2>. QED
    BY <2>1, <2>2, FS_Subset
<1>. QED
  BY <1>1, <1>2

-----------------------------------------------------------------------------
(* The invariant.                                                          *)

EdgeRecords == [source : Nat, target : Nat, direction : Directions, summand : Nat]
Blockers == [source : Nat, direction : Directions, summand : Nat,
             reason : {"undetermined", "silting_only"}]

TypeInv ==
  /\ limits \in Limits
  /\ vertices \in Seq(Complexes) /\ edges \in Seq(EdgeRecords) /\ blocked \in Seq(Blockers)
  /\ frontier \in Seq(Nat)
  /\ pc \in {"start", "walk", "attempt", "done", "failed"}

IsPlace(n, direction, i) ==
  n \in DOMAIN vertices /\ direction \in Directions /\ i \in DOMAIN vertices[n]

\* the frontier is the last vertices, and the cursor is at the vertex before them
WalkInv ==
  /\ Len(frontier) <= Len(vertices)
  /\ \A k \in DOMAIN frontier : frontier[k] = Len(vertices) - Len(frontier) + k
  /\ cursor # NoCursor => /\ cursor \in Attempts
                          /\ cursor.source = Len(vertices) - Len(frontier)
                          /\ IsPlace(cursor.source, cursor.direction, cursor.summand)
  /\ pc = "start" => vertices = <<>> /\ edges = <<>> /\ blocked = <<>> /\ cursor = NoCursor
  /\ pc = "attempt" => cursor # NoCursor
  /\ vertices # <<>> => vertices[1] = Regular
  /\ pc = "walk" => vertices # <<>>

\* a walk ends as exhausted at the empty frontier, or with the blocker of its root
StopInv ==
  stop.kind = "exhausted_frontier" =>
    IF vertices = <<>> THEN \E n \in DOMAIN blocked : blocked[n].reason = "undetermined"
    ELSE cursor = NoCursor /\ frontier = <<>>

\* every vertex is found under its key
BucketInv ==
  /\ \A key \in DOMAIN buckets :
       /\ buckets[key] \in Seq(Nat)
       /\ \A k \in DOMAIN buckets[key] : buckets[key][k] \in DOMAIN vertices
  /\ \A n \in DOMAIN vertices :
       /\ Key(vertices[n]) \in DOMAIN buckets
       /\ \E k \in DOMAIN buckets[Key(vertices[n])] : buckets[Key(vertices[n])][k] = n

OutcomeOf(record) == Outcome(vertices[record.source], record.direction, record.summand)

IsBlocked(result, reason) ==
  result.kind # "error" /\ ~IsVertex(result) /\ reason = BlockedReason(result)

\* a record names a place of the graph and the result that its mutation has
RecordInv ==
  /\ \A n \in DOMAIN edges :
       /\ IsPlace(edges[n].source, edges[n].direction, edges[n].summand)
       /\ edges[n].target \in DOMAIN vertices
       /\ OutcomeOf(edges[n]).kind = "value"
       /\ Class(OutcomeOf(edges[n]).value) = Class(vertices[edges[n].target])
  /\ vertices # <<>> => \A n \in DOMAIN blocked :
       /\ IsPlace(blocked[n].source, blocked[n].direction, blocked[n].summand)
       /\ IsBlocked(OutcomeOf(blocked[n]), blocked[n].reason)

Distinct == \A m, n \in DOMAIN vertices : m # n => Class(vertices[m]) # Class(vertices[n])

ReachInv ==
  \A n \in DOMAIN vertices : \A S \in SUBSET Classes :
    ClosedUnderMutation(S) => Class(vertices[n]) \in S

GraphInv == BucketInv /\ RecordInv /\ Distinct /\ ReachInv

IInv == TypeInv /\ WalkInv /\ StopInv /\ GraphInv /\ EveryAttemptOnce

\* The invariant holds before the walk.
LEMMA InitInvariant == Init => IInv
<1>. SUFFICES ASSUME Init PROVE IInv
  OBVIOUS
<1>1. TypeInv
  BY DEF Init, TypeInv
<1>2. WalkInv /\ StopInv
  BY DEF Init, WalkInv, StopInv, Stop, Running
<1>3. GraphInv
  BY DEF Init, GraphInv, BucketInv, RecordInv, Distinct, ReachInv
<1>4. EveryAttemptOnce
  BY DEF Init, EveryAttemptOnce
<1>. QED
  BY <1>1, <1>2, <1>3, <1>4 DEF IInv

\* Results of mutations that are values are complexes.
LEMMA OutcomeType ==
  ASSUME limits \in Limits, NEW c \in Complexes, NEW direction \in Directions,
         NEW i \in DOMAIN c, Outcome(c, direction, i).kind = "value"
  PROVE  Outcome(c, direction, i).value \in Complexes
<1>1. Outcome(c, direction, i) \in Results
  BY LimitsAssumption DEF Outcome
<1>. QED
  BY <1>1 DEF Results, Undetermined, Failure

-----------------------------------------------------------------------------
(* Steps that record nothing.                                              *)

\* A step that changes neither the graph nor the place in it.
LEMMA GraphStays ==
  ASSUME IInv, UNCHANGED <<limits, vertices, edges, blocked, search>>
  PROVE  /\ GraphInv'
         /\ limits' \in Limits /\ vertices' \in Seq(Complexes) /\ edges' \in Seq(EdgeRecords)
         /\ blocked' \in Seq(Blockers) /\ frontier' \in Seq(Nat)
<1>1. BucketInv' /\ Distinct'
  BY SMTT(30) DEF IInv, GraphInv, BucketInv, Distinct, search
<1>2. RecordInv'
  BY DEF IInv, GraphInv, RecordInv, IsPlace, IsBlocked, IsVertex, OutcomeOf, Outcome, Admits
<1>3. ReachInv'
  <2>1. \A S : ClosedUnderMutation(S)' <=> ClosedUnderMutation(S)
    BY DEF ClosedUnderMutation, IsVertex, Admits, Outcome
  <2>. QED
    BY <2>1 DEF IInv, GraphInv, ReachInv
<1>. QED
  BY <1>1, <1>2, <1>3 DEF GraphInv, IInv, TypeInv, search

\* A step that leaves the graph, the search and the position keeps the invariant.
LEMMA StillStep ==
  ASSUME IInv, UNCHANGED <<limits, vertices, edges, blocked, search, cursor>>,
         pc' \in {pc, "attempt", "done", "failed"},
         pc' = "attempt" => cursor # NoCursor,
         \/ stop' = stop
         \/ stop'.kind # "exhausted_frontier"
         \/ vertices # <<>> /\ cursor = NoCursor /\ frontier = <<>>
  PROVE  IInv'
<1>1. TypeInv' /\ GraphInv'
  BY GraphStays DEF IInv, TypeInv
<1>2. WalkInv'
  BY DEF IInv, WalkInv, IsPlace, search
<1>3. StopInv'
  BY DEF IInv, StopInv, search
<1>4. EveryAttemptOnce'
  BY DEF IInv, EveryAttemptOnce, Recorded, Position, search
<1>. QED
  BY <1>1, <1>2, <1>3, <1>4 DEF IInv

\* Refusals, failures, stops and cancellations are such steps.
LEMMA StillSteps ==
  ASSUME IInv, RefuseRoot \/ FailRoot \/ Exhaust \/ RefuseAttempt \/ BeginAttempt \/ Interrupt
               \/ FailAttempt \/ RefuseVertex \/ Cancel
  PROVE  IInv'
<1>. USE DEF Stop
<1>1. ASSUME NEW kind, kind # "exhausted_frontier", NEW n,
             UNCHANGED <<limits, vertices, edges, blocked, search, cursor>>,
             pc' = "done", stop' = Stop(kind, n)
      PROVE  IInv'
  BY <1>1, StillStep
<1>2. \A c, n, m, k : StorageStop(c, n, m, k) # "exhausted_frontier"
  BY DEF StorageStop
<1>3. CASE RefuseRoot
  BY <1>1, <1>2, <1>3 DEF RefuseRoot, contents
<1>4. CASE FailRoot
  BY <1>4, StillStep DEF FailRoot, contents
<1>5. CASE Exhaust
  BY <1>5, StillStep DEF Exhaust, Finish, contents, IInv, WalkInv
<1>6. CASE RefuseAttempt
  <2>1. NextStop # "exhausted_frontier"
    BY DEF NextStop
  <2>. QED
    BY <1>1, <1>6, <2>1 DEF RefuseAttempt, Finish, contents
<1>7. CASE BeginAttempt
  BY <1>7, StillStep DEF BeginAttempt, contents
<1>8. CASE Interrupt
  BY <1>1, <1>8 DEF Interrupt, Finish, contents
<1>9. CASE FailAttempt
  BY <1>9, StillStep DEF FailAttempt, contents
<1>10. CASE RefuseVertex
  BY <1>1, <1>2, <1>10 DEF RefuseVertex, Complete, contents
<1>11. CASE Cancel
  BY <1>11, StillStep DEF Cancel, contents, IInv, WalkInv
<1>. QED
  BY <1>3, <1>4, <1>5, <1>6, <1>7, <1>8, <1>9, <1>10, <1>11

-----------------------------------------------------------------------------
(* The start of the walk, and its next source.                             *)

\* The regular complex becomes the first vertex and the frontier.
LEMMA StartStep == IInv /\ StartWalk => IInv'
<1>. SUFFICES ASSUME IInv, StartWalk PROVE IInv'
  OBVIOUS
<1>1. /\ vertices' = <<Regular>> /\ edges' = <<>> /\ blocked' = <<>> /\ cursor' = NoCursor
      /\ frontier' = <<1>> /\ buckets' = [k \in {Key(Regular)} |-> <<1>>]
      /\ pc' = "walk" /\ stop' = stop /\ limits' = limits /\ limits \in Limits
      /\ vertices = <<>>
  BY DEF StartWalk, IInv, TypeInv, WalkInv
<1>2. Regular \in Complexes
  BY ComplexAssumption
<1>3. /\ vertices'[1] = Regular /\ DOMAIN vertices' = {1} /\ Len(vertices') = 1
      /\ frontier'[1] = 1 /\ DOMAIN frontier' = {1} /\ Len(frontier') = 1
  BY <1>1
<1>4. TypeInv'
  BY <1>1, <1>2 DEF TypeInv
<1>5. WalkInv'
  BY <1>1, <1>3 DEF WalkInv
<1>6. StopInv'
  <2>1. stop.kind # "exhausted_frontier"
    BY <1>1 DEF IInv, StopInv, WalkInv, StartWalk
  <2>. QED
    BY <1>1, <2>1 DEF StopInv
<1>7. BucketInv'
  <2>1. /\ DOMAIN buckets' = {Key(Regular)} /\ buckets'[Key(Regular)] = <<1>>
        /\ <<1>> \in Seq(Nat) /\ DOMAIN <<1>> = {1} /\ <<1>>[1] = 1
    BY <1>1
  <2>. QED
    BY <1>3, <2>1 DEF BucketInv
<1>8. RecordInv' /\ Distinct'
  BY <1>1, <1>3 DEF RecordInv, Distinct
<1>9. ReachInv'
  BY <1>3 DEF ReachInv, ClosedUnderMutation
<1>10. EveryAttemptOnce'
  <2>1. Position' = Place(1, "left", 1) /\ Recorded' = {}
    BY <1>1, <1>3 DEF Position, Recorded
  <2>2. \A n \in DOMAIN vertices', d \in Directions : \A i \in DOMAIN vertices'[n] :
          ~Earlier(Place(n, d, i), Place(1, "left", 1))
    BY <1>2, <1>3, ComplexFacts DEF Earlier, Place, Directions
  <2>. QED
    BY <1>1, <2>1, <2>2 DEF EveryAttemptOnce
<1>. QED
  BY <1>4, <1>5, <1>6, <1>7, <1>8, <1>9, <1>10 DEF IInv, GraphInv

\* Without its root the walk ends with one blocker and no vertex.
LEMMA BlockRootStep == IInv /\ BlockRoot => IInv'
<1>. SUFFICES ASSUME IInv, BlockRoot PROVE IInv'
  OBVIOUS
<1>1. /\ vertices = <<>> /\ vertices' = <<>> /\ edges' = <<>> /\ cursor' = NoCursor
      /\ blocked' = <<RootBlocker>> /\ pc' = "done"
      /\ UNCHANGED <<limits, buckets, frontier>>
  BY DEF BlockRoot, search, IInv, WalkInv
<1>2. blocked'[1] = RootBlocker /\ DOMAIN blocked' = {1} /\ DOMAIN vertices' = {} /\ DOMAIN edges' = {}
  BY <1>1
<1>3. RootBlocker \in Blockers
  BY DEF RootBlocker, Blockers, Directions
<1>4. TypeInv'
  BY <1>1, <1>3 DEF IInv, TypeInv
<1>5. WalkInv'
  BY <1>1 DEF IInv, WalkInv
<1>6. StopInv'
  BY <1>1, <1>2 DEF StopInv, RootBlocker
<1>7. GraphInv'
  BY <1>1, <1>2 DEF IInv, GraphInv, BucketInv, RecordInv, Distinct, ReachInv
<1>8. EveryAttemptOnce'
  BY <1>1 DEF EveryAttemptOnce
<1>. QED
  BY <1>4, <1>5, <1>6, <1>7, <1>8 DEF IInv

\* The next source is the vertex after the last one walked, and none of its
\* attempts is recorded.
LEMMA PopStep == IInv /\ PopSource => IInv'
<1>. SUFFICES ASSUME IInv, PopSource PROVE IInv'
  OBVIOUS
<1>0. PICK source : source = Head(frontier)
  OBVIOUS
<1>1. /\ pc = "walk" /\ pc' = "walk" /\ cursor = NoCursor /\ frontier # <<>>
      /\ cursor' = Place(source, "left", 1) /\ frontier' = Tail(frontier)
      /\ UNCHANGED <<limits, vertices, edges, blocked, buckets, stop>>
  BY <1>0 DEF PopSource, contents, Place
<1>2. /\ vertices \in Seq(Complexes) /\ frontier \in Seq(Nat) /\ Len(frontier) <= Len(vertices)
      /\ \A k \in DOMAIN frontier : frontier[k] = Len(vertices) - Len(frontier) + k
  BY DEF IInv, TypeInv, WalkInv
<1>3. /\ Len(frontier) \in Nat \ {0} /\ Len(vertices) \in Nat
      /\ source = Len(vertices) - Len(frontier) + 1
  <2>1. Len(frontier) \in Nat \ {0} /\ Len(vertices) \in Nat /\ 1 \in DOMAIN frontier
    BY <1>1, <1>2
  <2>2. Head(frontier) = frontier[1]
    BY <1>1, <1>2
  <2>. QED
    BY <1>0, <1>2, <2>1, <2>2
<1>4. /\ frontier' \in Seq(Nat) /\ Len(frontier') = Len(frontier) - 1
      /\ \A k \in DOMAIN frontier' : k + 1 \in DOMAIN frontier /\ frontier'[k] = frontier[k + 1]
  BY <1>1, <1>2, <1>3
<1>5. source \in DOMAIN vertices /\ source \in Nat \ {0}
  BY <1>2, <1>3
<1>6. IsPlace(source, "left", 1)'
  BY <1>1, <1>2, <1>5, ComplexFacts, SMTT(30) DEF IsPlace, Directions
<1>7. TypeInv'
  BY <1>1, <1>4 DEF IInv, TypeInv
<1>8. WalkInv'
  <2>1. \A k \in DOMAIN frontier' : frontier'[k] = Len(vertices') - Len(frontier') + k
    <3>. TAKE k \in DOMAIN frontier'
    <3>1. k \in Nat /\ frontier'[k] = Len(vertices) - Len(frontier) + (k + 1)
      BY <1>2, <1>4, SMTT(30)
    <3>. QED
      BY <1>1, <1>3, <1>4, <3>1
  <2>2. Len(frontier') <= Len(vertices') /\ Len(vertices') - Len(frontier') = source
    BY <1>1, <1>2, <1>3, <1>4
  <2>3. cursor' \in Attempts /\ cursor'.source = source
        /\ IsPlace(cursor.source, cursor.direction, cursor.summand)'
    BY <1>1, <1>5, <1>6 DEF Place, Attempts, Directions
  <2>. QED
    BY <1>1, <2>1, <2>2, <2>3 DEF IInv, WalkInv
<1>9. StopInv'
  BY <1>1 DEF IInv, StopInv, WalkInv
<1>10. GraphInv'
  BY <1>1 DEF IInv, GraphInv, BucketInv, RecordInv, Distinct, ReachInv, IsPlace, IsBlocked,
              IsVertex, OutcomeOf, Outcome, Admits, ClosedUnderMutation
<1>11. EveryAttemptOnce'
  <2>1. Position = Place(source, "left", 1)
    BY <1>0, <1>1 DEF Position
  <2>2. cursor' # NoCursor
    BY <1>1, <1>5 DEF Place, NoCursor
  <2>3. Position' = Position /\ Recorded' = Recorded
    BY <1>1, <2>1, <2>2 DEF Position, Recorded
  <2>. QED
    BY <1>1, <2>3 DEF IInv, EveryAttemptOnce
<1>. QED
  BY <1>7, <1>8, <1>9, <1>10, <1>11 DEF IInv

-----------------------------------------------------------------------------
(* Recording an attempt.                                                   *)

\* During an attempt the cursor is a place of the vertex the walk is at.
LEMMA CursorFacts ==
  ASSUME IInv, pc = "attempt"
  PROVE  /\ cursor # NoCursor /\ Position = cursor /\ cursor \in Attempts
         /\ cursor = Place(cursor.source, cursor.direction, cursor.summand)
         /\ cursor.source = Len(vertices) - Len(frontier)
         /\ IsPlace(cursor.source, cursor.direction, cursor.summand)
         /\ vertices[cursor.source] \in Complexes
         /\ cursor.source \in Nat \ {0} /\ cursor.summand \in Nat \ {0}
         /\ cursor.direction \in {"left", "right"}
         /\ cursor.summand <= Len(vertices[cursor.source])
         /\ Len(vertices[cursor.source]) \in Nat \ {0}
         /\ vertices # <<>>
<1>1. /\ cursor # NoCursor /\ cursor \in Attempts
      /\ cursor.source = Len(vertices) - Len(frontier)
      /\ IsPlace(cursor.source, cursor.direction, cursor.summand)
      /\ vertices \in Seq(Complexes)
  BY DEF IInv, WalkInv, TypeInv
<1>2. Position = cursor
  BY <1>1 DEF Position
<1>3. vertices[cursor.source] \in Complexes /\ vertices # <<>>
  BY <1>1 DEF IsPlace
<1>4. /\ Len(vertices[cursor.source]) \in Nat \ {0}
      /\ cursor.summand \in 1 .. Len(vertices[cursor.source])
  BY <1>1, <1>3, ComplexFacts DEF IsPlace
<1>5. /\ cursor = Place(cursor.source, cursor.direction, cursor.summand)
      /\ cursor.source \in Nat \ {0} /\ cursor.summand \in Nat \ {0}
      /\ cursor.direction \in {"left", "right"}
  BY <1>1 DEF Attempts, Place, Directions
<1>. QED
  BY <1>1, <1>2, <1>3, <1>4, <1>5

\* The order of places, and the places that follow a place, in plain arithmetic.
LEMMA EarlierPlace ==
  ASSUME NEW n, NEW d, NEW i, NEW s, NEW e, NEW j
  PROVE  Earlier(Place(n, d, i), Place(s, e, j)) <=>
           \/ n < s
           \/ n = s /\ d = "left" /\ e = "right"
           \/ n = s /\ d = e /\ i < j
BY DEF Earlier, Place

\* A place is determined by its three parts.
LEMMA SamePlace ==
  ASSUME NEW n, NEW d, NEW i, NEW s, NEW e, NEW j
  PROVE  Place(n, d, i) = Place(s, e, j) <=> n = s /\ d = e /\ i = j
BY DEF Place

\* The parts of a place.
LEMMA PlaceFields ==
  ASSUME NEW s, NEW e, NEW j
  PROVE  /\ Place(s, e, j).source = s /\ Place(s, e, j).direction = e
         /\ Place(s, e, j).summand = j
BY DEF Place

\* a step that stores nothing, or a new vertex at the end of both queues
Grows(v) ==
  \/ vertices' = vertices /\ frontier' = frontier
  \/ vertices' = Append(vertices, v) /\ frontier' = Append(frontier, Len(vertices) + 1)

\* The cursor passes exactly its own place: what is earlier than its successor
\* is what was earlier than it, and it.
LEMMA PlacePassed ==
  ASSUME IInv, pc = "attempt", NEW v \in Complexes, Grows(v), cursor' = NextCursor,
         pc' = "walk", limits' = limits, stop' = stop
  PROVE  /\ vertices' \in Seq(Complexes) /\ frontier' \in Seq(Nat)
         /\ \A n \in DOMAIN vertices : n \in DOMAIN vertices' /\ vertices'[n] = vertices[n]
         /\ WalkInv'
         /\ \A n \in DOMAIN vertices', d \in Directions : \A i \in DOMAIN vertices'[n] :
              Earlier(Place(n, d, i), Position') <=>
                n \in DOMAIN vertices /\ (Earlier(Place(n, d, i), cursor) \/ Place(n, d, i) = cursor)
<1>1. /\ vertices \in Seq(Complexes) /\ frontier \in Seq(Nat)
      /\ Len(vertices) \in Nat /\ Len(frontier) \in Nat /\ Len(frontier) <= Len(vertices)
      /\ \A k \in DOMAIN frontier : frontier[k] = Len(vertices) - Len(frontier) + k
      /\ vertices[1] = Regular
  BY CursorFacts DEF IInv, TypeInv, WalkInv
<1>2. PICK source, direction, summand, length :
        /\ source = cursor.source /\ direction = cursor.direction /\ summand = cursor.summand
        /\ length = Len(vertices[source])
  OBVIOUS
<1>3. /\ cursor = Place(source, direction, summand)
      /\ source \in Nat \ {0} /\ summand \in Nat \ {0} /\ length \in Nat \ {0}
      /\ direction \in {"left", "right"} /\ summand <= length
      /\ source = Len(vertices) - Len(frontier) /\ source \in DOMAIN vertices
      /\ vertices[source] \in Complexes /\ DOMAIN vertices[source] = 1 .. length
  BY <1>2, CursorFacts, ComplexFacts DEF IsPlace
<1>4. /\ vertices' \in Seq(Complexes) /\ frontier' \in Seq(Nat)
      /\ \A n \in DOMAIN vertices : n \in DOMAIN vertices' /\ vertices'[n] = vertices[n]
      /\ Len(vertices') \in Nat /\ Len(frontier') \in Nat
      /\ Len(vertices') - Len(frontier') = source /\ Len(frontier') <= Len(vertices')
      /\ Len(vertices) <= Len(vertices')
  <2>1. CASE vertices' = vertices /\ frontier' = frontier
    BY <1>1, <1>3, <2>1
  <2>2. CASE vertices' = Append(vertices, v) /\ frontier' = Append(frontier, Len(vertices) + 1)
    BY <1>1, <1>3, <2>2
  <2>. QED
    BY <2>1, <2>2 DEF Grows
<1>5. \A k \in DOMAIN frontier' : frontier'[k] = source + k
  <2>1. CASE vertices' = vertices /\ frontier' = frontier
    BY <1>1, <1>3, <2>1
  <2>2. CASE vertices' = Append(vertices, v) /\ frontier' = Append(frontier, Len(vertices) + 1)
    <3>. TAKE k \in DOMAIN frontier'
    <3>1. CASE k \in DOMAIN frontier
      BY <1>1, <1>3, <2>2, <3>1
    <3>2. CASE k = Len(frontier) + 1
      BY <1>1, <1>3, <2>2, <3>2
    <3>. QED
      BY <1>1, <2>2, <3>1, <3>2
  <2>. QED
    BY <2>1, <2>2 DEF Grows
<1>6. /\ vertices' # <<>> /\ vertices'[1] = Regular
      /\ \A i \in 1 .. length : i \in DOMAIN vertices'[source]
  <2>1. 1 \in DOMAIN vertices
    BY <1>1, <1>3
  <2>2. vertices'[1] = Regular /\ Len(vertices') # 0
    BY <1>1, <1>4, <2>1
  <2>3. vertices'[source] = vertices[source]
    BY <1>3, <1>4
  <2>. QED
    BY <1>3, <2>2, <2>3
<1>7. \/ summand < length /\ cursor' = Place(source, direction, summand + 1)
      \/ summand = length /\ direction = "left" /\ cursor' = Place(source, "right", 1)
      \/ summand = length /\ direction = "right" /\ cursor' = NoCursor
  BY <1>2, <1>3 DEF NextCursor
<1>8. cursor' # NoCursor =>
        /\ cursor' \in Attempts /\ cursor'.source = source
        /\ IsPlace(cursor.source, cursor.direction, cursor.summand)'
  <2>1. ASSUME NEW e \in Directions, NEW j \in 1 .. length, cursor' = Place(source, e, j)
        PROVE  /\ cursor' \in Attempts /\ cursor'.source = source
               /\ IsPlace(cursor.source, cursor.direction, cursor.summand)'
    <3>1. cursor'.source = source /\ cursor'.direction = e /\ cursor'.summand = j
      BY <2>1, PlaceFields
    <3>2. cursor' \in Attempts
      BY <1>3, <2>1 DEF Place, Attempts
    <3>3. source \in DOMAIN vertices' /\ j \in DOMAIN vertices'[source]
      BY <1>3, <1>4, <1>6
    <3>. QED
      BY <3>1, <3>2, <3>3 DEF IsPlace
  <2>. QED
    BY <1>3, <1>7, <2>1 DEF Directions
<1>9. WalkInv'
  BY <1>4, <1>5, <1>6, <1>8 DEF WalkInv
<1>10. Position' = IF cursor' # NoCursor THEN cursor' ELSE Place(source + 1, "left", 1)
  <2>1. CASE frontier' = <<>>
    BY <1>3, <1>4, <2>1 DEF Position
  <2>2. CASE frontier' # <<>>
    <3>1. Head(frontier') = frontier'[1] /\ 1 \in DOMAIN frontier'
      BY <1>4, <2>2
    <3>. QED
      BY <1>3, <1>5, <2>2, <3>1 DEF Position
  <2>. QED
    BY <2>1, <2>2
<1>11. ASSUME NEW n \in DOMAIN vertices', NEW d \in Directions, NEW i \in DOMAIN vertices'[n]
       PROVE  Earlier(Place(n, d, i), Position') <=>
                n \in DOMAIN vertices /\ (Earlier(Place(n, d, i), cursor) \/ Place(n, d, i) = cursor)
  <2>1. n \in Nat \ {0} /\ i \in Nat \ {0} /\ d \in {"left", "right"} /\ vertices'[n] \in Complexes
    BY <1>4, <1>11, ComplexFacts DEF Directions
  <2>2. n = source => i <= length
    <3>. HAVE n = source
    <3>1. vertices'[n] = vertices[source]
      BY <1>3, <1>4
    <3>2. i \in 1 .. length
      BY <1>3, <3>1
    <3>. QED
      BY <1>3, <3>2
  <2>3. n <= source => n \in DOMAIN vertices
    BY <1>1, <1>3, <2>1
  <2>4. /\ Earlier(Place(n, d, i), cursor) <=>
             \/ n < source
             \/ n = source /\ d = "left" /\ direction = "right"
             \/ n = source /\ d = direction /\ i < summand
        /\ Place(n, d, i) = cursor <=> n = source /\ d = direction /\ i = summand
    BY <1>3, EarlierPlace, SamePlace
  <2>5. CASE summand < length /\ cursor' = Place(source, direction, summand + 1)
    <3>1. Position' = Place(source, direction, summand + 1)
      BY <1>3, <1>10, <2>5 DEF Place, NoCursor
    <3>2. Earlier(Place(n, d, i), Place(source, direction, summand + 1)) <=>
             \/ n < source
             \/ n = source /\ d = "left" /\ direction = "right"
             \/ n = source /\ d = direction /\ i < summand + 1
      BY EarlierPlace
    <3>. QED
      BY <1>3, <2>1, <2>3, <2>4, <3>1, <3>2
  <2>6. CASE summand = length /\ direction = "left" /\ cursor' = Place(source, "right", 1)
    <3>1. Position' = Place(source, "right", 1)
      BY <1>3, <1>10, <2>6 DEF Place, NoCursor
    <3>2. Earlier(Place(n, d, i), Place(source, "right", 1)) <=>
             \/ n < source
             \/ n = source /\ d = "left" /\ "right" = "right"
             \/ n = source /\ d = "right" /\ i < 1
      BY Zenon, EarlierPlace
    <3>3. ~(i < 1) /\ "left" # "right"
      BY <2>1
    <3>4. Earlier(Place(n, d, i), Position') <=> n < source \/ (n = source /\ d = "left")
      BY <3>1, <3>2, <3>3
    <3>5. n = source => i < summand \/ i = summand
      BY <1>3, <2>1, <2>2, <2>6
    <3>. QED
      BY <2>1, <2>3, <2>4, <2>6, <3>4, <3>5, <1>3
  <2>7. CASE summand = length /\ direction = "right" /\ cursor' = NoCursor
    <3>1. Position' = Place(source + 1, "left", 1)
      BY <1>10, <2>7
    <3>2. Earlier(Place(n, d, i), Place(source + 1, "left", 1)) <=> n < source + 1
      <4>1. ~(i < 1)
        BY <2>1
      <4>. QED
        BY <4>1, EarlierPlace
    <3>. QED
      BY <1>3, <2>1, <2>2, <2>3, <2>4, <2>7, <3>1, <3>2
  <2>. QED
    BY <1>7, <2>5, <2>6, <2>7
<1>. QED
  BY <1>4, <1>9, <1>11

AttemptBlocker == [source |-> cursor.source, direction |-> cursor.direction,
                   summand |-> cursor.summand, reason |-> BlockedReason(Attempted)]

EdgeRecorded(target) ==
  /\ edges' = Append(edges, Edge(target)) /\ blocked' = blocked
  /\ target \in DOMAIN vertices' /\ Attempted.kind = "value"
  /\ Class(Attempted.value) = Class(vertices'[target])

BlockerRecorded ==
  /\ edges' = edges /\ blocked' = Append(blocked, AttemptBlocker)
  /\ Attempted.kind # "error" /\ ~IsVertex(Attempted)

\* The attempt under way is not recorded yet.
LEMMA CursorIsNew ==
  ASSUME IInv, pc = "attempt"
  PROVE  cursor \notin Recorded
<1>1. PICK n, d, i : n = cursor.source /\ d = cursor.direction /\ i = cursor.summand
  OBVIOUS
<1>2. /\ cursor = Place(n, d, i) /\ Position = cursor /\ vertices # <<>>
      /\ n \in DOMAIN vertices /\ d \in Directions /\ i \in DOMAIN vertices[n]
      /\ n \in Nat /\ i \in Nat
  BY <1>1, CursorFacts DEF IsPlace
<1>3. cursor \in Recorded <=> Earlier(Place(n, d, i), Place(n, d, i))
  BY <1>2 DEF IInv, EveryAttemptOnce
<1>4. ~(n < n) /\ ~(i < i) /\ ~(d = "left" /\ d = "right")
  BY <1>2
<1>. QED
  BY <1>3, <1>4, EarlierPlace

\* The places of the records, when one record is appended.
LEMMA PlacesOfAppend ==
  ASSUME NEW R, NEW s \in Seq(R), NEW r \in R, NEW t, t = Append(s, r)
  PROVE  /\ {PlaceOf(t[n]) : n \in DOMAIN t} = {PlaceOf(s[n]) : n \in DOMAIN s} \cup {PlaceOf(r)}
         /\ \A n \in DOMAIN t : \/ n \in DOMAIN s /\ t[n] = s[n]
                                \/ n = Len(s) + 1 /\ t[n] = r
<1>1. /\ DOMAIN t = DOMAIN s \cup {Len(s) + 1} /\ t[Len(s) + 1] = r
      /\ \A n \in DOMAIN s : t[n] = s[n]
  OBVIOUS
<1>. QED
  BY <1>1

\* One record for the attempt, and the position moves just past it.
LEMMA AttemptOnce ==
  ASSUME IInv, pc = "attempt", NEW v \in Complexes, Grows(v), cursor' = NextCursor,
         pc' = "walk", limits' = limits, stop' = stop,
         BlockerRecorded \/ \E target \in Nat : EdgeRecorded(target)
  PROVE  EveryAttemptOnce'
<1>1. /\ edges \in Seq(EdgeRecords) /\ blocked \in Seq(Blockers) /\ vertices # <<>>
      /\ cursor = Place(cursor.source, cursor.direction, cursor.summand)
      /\ cursor.source \in DOMAIN vertices /\ cursor \notin Recorded /\ Position = cursor
  BY CursorFacts, CursorIsNew DEF IInv, TypeInv, IsPlace
<1>2. /\ cursor.source \in Nat /\ cursor.summand \in Nat /\ cursor.direction \in Directions
  BY CursorFacts DEF Directions
<1>3. \A target \in Nat : Edge(target) \in EdgeRecords /\ PlaceOf(Edge(target)) = cursor
  BY <1>1, <1>2, PlaceFields DEF Edge, EdgeRecords, PlaceOf
<1>4. AttemptBlocker \in Blockers /\ PlaceOf(AttemptBlocker) = cursor
  BY <1>1, <1>2 DEF AttemptBlocker, Blockers, BlockedReason, PlaceOf
<1>5. Recorded' = Recorded \cup {cursor}
  <2>1. CASE BlockerRecorded
    BY <1>1, <1>4, <2>1, PlacesOfAppend DEF BlockerRecorded, Recorded
  <2>2. ASSUME NEW target \in Nat, EdgeRecorded(target) PROVE Recorded' = Recorded \cup {cursor}
    BY <1>1, <1>3, <2>2, PlacesOfAppend, SMTT(30) DEF EdgeRecorded, Recorded
  <2>. QED
    BY <2>1, <2>2
<1>6. \A n \in DOMAIN vertices', d \in Directions : \A i \in DOMAIN vertices'[n] :
        (Place(n, d, i) \in Recorded <=> Earlier(Place(n, d, i), Position))'
  <2>. SUFFICES ASSUME NEW n \in DOMAIN vertices', NEW d \in Directions, NEW i \in DOMAIN vertices'[n]
                PROVE  Place(n, d, i) \in Recorded' <=> Earlier(Place(n, d, i), Position')
    BY DEF Place, Earlier
  <2>1. Earlier(Place(n, d, i), Position') <=>
          n \in DOMAIN vertices /\ (Earlier(Place(n, d, i), cursor) \/ Place(n, d, i) = cursor)
    BY PlacePassed
  <2>2. CASE n \in DOMAIN vertices
    <3>1. i \in DOMAIN vertices[n]
      BY <2>2, PlacePassed
    <3>2. Place(n, d, i) \in Recorded <=> Earlier(Place(n, d, i), cursor)
      BY <1>1, <2>2, <3>1 DEF IInv, EveryAttemptOnce
    <3>. QED
      BY <1>5, <2>1, <2>2, <3>2
  <2>3. CASE n \notin DOMAIN vertices
    <3>1. \A r \in Recorded : r.source \in DOMAIN vertices
      BY <1>1, PlaceFields DEF IInv, GraphInv, RecordInv, IsPlace, Recorded, PlaceOf
    <3>2. Place(n, d, i).source = n
      BY PlaceFields
    <3>. QED
      BY <1>1, <1>5, <2>1, <2>3, <3>1, <3>2
  <2>. QED
    BY <2>2, <2>3
<1>7. /\ \A m, n \in DOMAIN edges : m # n => PlaceOf(edges[m]) # PlaceOf(edges[n])
      /\ \A m, n \in DOMAIN blocked : m # n => PlaceOf(blocked[m]) # PlaceOf(blocked[n])
      /\ \A m \in DOMAIN edges, n \in DOMAIN blocked : PlaceOf(edges[m]) # PlaceOf(blocked[n])
      /\ \A m \in DOMAIN edges : PlaceOf(edges[m]) # cursor
      /\ \A m \in DOMAIN blocked : PlaceOf(blocked[m]) # cursor
  BY <1>1 DEF IInv, EveryAttemptOnce, Recorded
<1>8. /\ \A m, n \in DOMAIN edges' : m # n => PlaceOf(edges'[m]) # PlaceOf(edges'[n])
      /\ \A m, n \in DOMAIN blocked' : m # n => PlaceOf(blocked'[m]) # PlaceOf(blocked'[n])
      /\ \A m \in DOMAIN edges', n \in DOMAIN blocked' : PlaceOf(edges'[m]) # PlaceOf(blocked'[n])
  <2>1. CASE BlockerRecorded
    <3>1. /\ edges' = edges
          /\ \A n \in DOMAIN blocked' : \/ n \in DOMAIN blocked /\ blocked'[n] = blocked[n]
                                        \/ n = Len(blocked) + 1 /\ blocked'[n] = AttemptBlocker
      BY <1>1, <1>4, <2>1, PlacesOfAppend DEF BlockerRecorded
    <3>. QED
      BY <1>4, <1>7, <3>1
  <2>2. ASSUME NEW target \in Nat, EdgeRecorded(target)
        PROVE  /\ \A m, n \in DOMAIN edges' : m # n => PlaceOf(edges'[m]) # PlaceOf(edges'[n])
               /\ \A m, n \in DOMAIN blocked' :
                    m # n => PlaceOf(blocked'[m]) # PlaceOf(blocked'[n])
               /\ \A m \in DOMAIN edges', n \in DOMAIN blocked' :
                    PlaceOf(edges'[m]) # PlaceOf(blocked'[n])
    <3>1. /\ blocked' = blocked
          /\ \A n \in DOMAIN edges' : \/ n \in DOMAIN edges /\ edges'[n] = edges[n]
                                      \/ n = Len(edges) + 1 /\ edges'[n] = Edge(target)
      BY <1>1, <1>3, <2>2, PlacesOfAppend DEF EdgeRecorded
    <3>. QED
      BY <1>3, <1>7, <3>1
  <2>. QED
    BY <2>1, <2>2
<1>. QED
  BY <1>6, <1>8 DEF EveryAttemptOnce, PlaceOf, Place

\* Old records keep their places and their results, and the new one has its own.
LEMMA RecordsKept ==
  ASSUME IInv, pc = "attempt", NEW v \in Complexes, Grows(v), cursor' = NextCursor,
         pc' = "walk", limits' = limits, stop' = stop,
         BlockerRecorded \/ \E target \in Nat : EdgeRecorded(target)
  PROVE  TypeInv' /\ WalkInv' /\ StopInv' /\ RecordInv'
<1>1. /\ edges \in Seq(EdgeRecords) /\ blocked \in Seq(Blockers) /\ vertices # <<>>
      /\ cursor.source \in Nat /\ cursor.summand \in Nat /\ cursor.direction \in Directions
      /\ IsPlace(cursor.source, cursor.direction, cursor.summand)
      /\ cursor # NoCursor
  BY CursorFacts DEF IInv, TypeInv, Directions
<1>2. /\ vertices' \in Seq(Complexes) /\ frontier' \in Seq(Nat) /\ WalkInv'
      /\ \A n \in DOMAIN vertices : n \in DOMAIN vertices' /\ vertices'[n] = vertices[n]
      /\ vertices' # <<>>
  <2>1. /\ vertices' \in Seq(Complexes) /\ frontier' \in Seq(Nat) /\ WalkInv'
        /\ \A n \in DOMAIN vertices : n \in DOMAIN vertices' /\ vertices'[n] = vertices[n]
    BY PlacePassed
  <2>. QED
    BY <1>1, <2>1 DEF IsPlace
<1>3. \A target \in Nat : Edge(target) \in EdgeRecords
  BY <1>1 DEF Edge, EdgeRecords
<1>4. AttemptBlocker \in Blockers
  BY <1>1 DEF AttemptBlocker, Blockers, BlockedReason
<1>5. \A n, d, i : IsPlace(n, d, i) => /\ IsPlace(n, d, i)'
                                       /\ Outcome(vertices[n], d, i)' = Outcome(vertices[n], d, i)
  BY <1>2 DEF IsPlace, Outcome
<1>6. \A r, reason : IsBlocked(r, reason)' <=> IsBlocked(r, reason)
  BY DEF IsBlocked, IsVertex, Admits
<1>7. ASSUME NEW e \in EdgeRecords, IsPlace(e.source, e.direction, e.summand),
             e.target \in DOMAIN vertices', OutcomeOf(e).kind = "value",
             Class(OutcomeOf(e).value) = Class(vertices'[e.target])
      PROVE  (/\ IsPlace(e.source, e.direction, e.summand)
              /\ e.target \in DOMAIN vertices /\ OutcomeOf(e).kind = "value"
              /\ Class(OutcomeOf(e).value) = Class(vertices[e.target]))'
  BY <1>5, <1>7 DEF OutcomeOf
<1>8. ASSUME NEW b \in Blockers, IsPlace(b.source, b.direction, b.summand),
             IsBlocked(OutcomeOf(b), b.reason)
      PROVE  (/\ IsPlace(b.source, b.direction, b.summand)
              /\ IsBlocked(OutcomeOf(b), b.reason))'
  BY <1>5, <1>6, <1>8 DEF OutcomeOf
<1>9. /\ \A n \in DOMAIN edges :
           /\ edges[n] \in EdgeRecords /\ IsPlace(edges[n].source, edges[n].direction, edges[n].summand)
           /\ edges[n].target \in DOMAIN vertices'
           /\ OutcomeOf(edges[n]).kind = "value"
           /\ Class(OutcomeOf(edges[n]).value) = Class(vertices'[edges[n].target])
      /\ \A n \in DOMAIN blocked :
           /\ blocked[n] \in Blockers
           /\ IsPlace(blocked[n].source, blocked[n].direction, blocked[n].summand)
           /\ IsBlocked(OutcomeOf(blocked[n]), blocked[n].reason)
  BY <1>1, <1>2 DEF IInv, GraphInv, RecordInv
<1>10. /\ edges' \in Seq(EdgeRecords) /\ blocked' \in Seq(Blockers) /\ RecordInv'
  <2>1. CASE BlockerRecorded
    <3>1. /\ IsPlace(AttemptBlocker.source, AttemptBlocker.direction, AttemptBlocker.summand)
          /\ IsBlocked(OutcomeOf(AttemptBlocker), AttemptBlocker.reason)
      BY <1>1, <2>1 DEF AttemptBlocker, BlockerRecorded, IsBlocked, OutcomeOf, Attempted
    <3>2. \A n \in DOMAIN blocked' : \/ n \in DOMAIN blocked /\ blocked'[n] = blocked[n]
                                     \/ blocked'[n] = AttemptBlocker
      BY <1>1, <1>4, <2>1, PlacesOfAppend DEF BlockerRecorded
    <3>3. edges' = edges /\ blocked' \in Seq(Blockers)
      BY <1>1, <1>4, <2>1 DEF BlockerRecorded
    <3>. QED
      BY <1>1, <1>4, <1>7, <1>8, <1>9, <3>1, <3>2, <3>3 DEF RecordInv
  <2>2. ASSUME NEW target \in Nat, EdgeRecorded(target)
        PROVE  edges' \in Seq(EdgeRecords) /\ blocked' \in Seq(Blockers) /\ RecordInv'
    <3>1. /\ IsPlace(Edge(target).source, Edge(target).direction, Edge(target).summand)
          /\ Edge(target).target \in DOMAIN vertices' /\ OutcomeOf(Edge(target)).kind = "value"
          /\ Class(OutcomeOf(Edge(target)).value) = Class(vertices'[Edge(target).target])
      BY <1>1, <2>2 DEF Edge, EdgeRecorded, OutcomeOf, Attempted
    <3>2. \A n \in DOMAIN edges' : \/ n \in DOMAIN edges /\ edges'[n] = edges[n]
                                   \/ edges'[n] = Edge(target)
      BY <1>1, <1>3, <2>2, PlacesOfAppend DEF EdgeRecorded
    <3>3. blocked' = blocked /\ edges' \in Seq(EdgeRecords)
      BY <1>1, <1>3, <2>2 DEF EdgeRecorded
    <3>. QED
      BY <1>1, <1>3, <1>7, <1>8, <1>9, <3>1, <3>2, <3>3 DEF RecordInv
  <2>. QED
    BY <2>1, <2>2
<1>11. StopInv'
  BY <1>1 DEF IInv, StopInv
<1>. QED
  BY <1>2, <1>10, <1>11 DEF IInv, TypeInv

-----------------------------------------------------------------------------
(* The steps that complete an attempt.                                     *)

\* What a mutation gives is a complex of the algebra.
LEMMA AttemptedFacts ==
  ASSUME IInv, pc = "attempt", Attempted.kind = "value"
  PROVE  Attempted.value \in Complexes
BY CursorFacts, OutcomeType DEF IInv, TypeInv, IsPlace, Attempted

\* What stays of the graph when no vertex is stored.
LEMMA VerticesStay ==
  ASSUME IInv, UNCHANGED <<limits, vertices, search>>
  PROVE  BucketInv' /\ Distinct' /\ ReachInv'
<1>1. BucketInv' /\ Distinct'
  BY DEF IInv, GraphInv, BucketInv, Distinct, search
<1>2. \A S : ClosedUnderMutation(S)' <=> ClosedUnderMutation(S)
  BY DEF ClosedUnderMutation, IsVertex, Admits, Outcome
<1>3. ReachInv'
  BY <1>2 DEF IInv, GraphInv, ReachInv
<1>. QED
  BY <1>1, <1>3

\* A blocked attempt adds its blocker and nothing else.
LEMMA BlockAttemptStep == IInv /\ BlockAttempt => IInv'
<1>. SUFFICES ASSUME IInv, BlockAttempt PROVE IInv'
  OBVIOUS
<1>1. /\ pc = "attempt" /\ pc' = "walk" /\ cursor' = NextCursor
      /\ limits' = limits /\ stop' = stop
      /\ UNCHANGED <<vertices, search>> /\ Grows(Regular) /\ BlockerRecorded
  BY DEF BlockAttempt, Complete, Resume, Grows, BlockerRecorded, AttemptBlocker, search
<1>2. Regular \in Complexes
  BY ComplexAssumption
<1>3. TypeInv' /\ WalkInv' /\ StopInv' /\ RecordInv'
  BY <1>1, <1>2, RecordsKept
<1>4. EveryAttemptOnce'
  BY <1>1, <1>2, AttemptOnce
<1>5. BucketInv' /\ Distinct' /\ ReachInv'
  BY <1>1, VerticesStay
<1>. QED
  BY <1>3, <1>4, <1>5 DEF IInv, GraphInv

\* A match adds an edge to a vertex with the class of the result.
LEMMA MatchVertexStep == IInv /\ MatchVertex => IInv'
<1>. SUFFICES ASSUME IInv, MatchVertex PROVE IInv'
  OBVIOUS
<1>1. /\ pc = "attempt" /\ pc' = "walk" /\ cursor' = NextCursor
      /\ limits' = limits /\ stop' = stop /\ blocked' = blocked
      /\ UNCHANGED <<vertices, search>> /\ Attempted.kind = "value"
      /\ Grows(Regular)
  BY DEF MatchVertex, Complete, Resume, Grows, IsVertex, search
<1>2. Regular \in Complexes /\ Attempted.value \in Complexes
  BY <1>1, ComplexAssumption, AttemptedFacts
<1>3. PICK k \in DOMAIN Bucket(Key(Attempted.value)) :
        /\ FirstMatch(Attempted.value, k)
        /\ edges' = Append(edges, Edge(Bucket(Key(Attempted.value))[k]))
  BY DEF MatchVertex
<1>4. PICK target : target = Bucket(Key(Attempted.value))[k]
  OBVIOUS
<1>5. target \in DOMAIN vertices /\ target \in Nat
  <2>1. Key(Attempted.value) \in DOMAIN buckets
    BY <1>3 DEF Bucket
  <2>2. target \in DOMAIN vertices
    BY <1>3, <1>4, <2>1 DEF Bucket, IInv, GraphInv, BucketInv
  <2>. QED
    BY <2>2 DEF IInv, TypeInv
<1>6. Class(Attempted.value) = Class(vertices[target])
  <2>1. Isomorphic(Attempted.value, vertices[target]) /\ vertices[target] \in Complexes
    BY <1>3, <1>4, <1>5 DEF FirstMatch, IInv, TypeInv
  <2>. QED
    BY <1>2, <2>1, IsomorphicIsSameClass
<1>7. EdgeRecorded(target)
  BY <1>1, <1>3, <1>4, <1>5, <1>6 DEF EdgeRecorded
<1>8. TypeInv' /\ WalkInv' /\ StopInv' /\ RecordInv'
  BY <1>1, <1>2, <1>5, <1>7, RecordsKept
<1>9. EveryAttemptOnce'
  BY <1>1, <1>2, <1>5, <1>7, AttemptOnce
<1>10. BucketInv' /\ Distinct' /\ ReachInv'
  BY <1>1, VerticesStay
<1>. QED
  BY <1>8, <1>9, <1>10 DEF IInv, GraphInv

\* A vertex is stored only when its bucket holds no isomorphic one, so that the
\* stored classes stay different; it is found under its key from then on.
LEMMA StoreVertexStep == IInv /\ StoreVertex => IInv'
<1>. SUFFICES ASSUME IInv, StoreVertex PROVE IInv'
  OBVIOUS
<1>1. PICK value, target, key :
        value = Attempted.value /\ target = Len(vertices) + 1 /\ key = Key(value)
  OBVIOUS
<1>2. /\ pc = "attempt" /\ pc' = "walk" /\ cursor' = NextCursor
      /\ limits' = limits /\ stop' = stop /\ blocked' = blocked
      /\ IsVertex(Attempted) /\ Attempted.kind = "value" /\ NoMatch(value)
      /\ vertices' = Append(vertices, value) /\ frontier' = Append(frontier, target)
      /\ edges' = Append(edges, Edge(target))
      /\ buckets' = [k \in DOMAIN buckets \cup {key} |->
                       IF k = key THEN Append(Bucket(key), target) ELSE buckets[k]]
  BY <1>1 DEF StoreVertex, Complete, Resume, NewVertex, IsVertex, Enqueue
<1>3. /\ value \in Complexes /\ vertices \in Seq(Complexes) /\ Len(vertices) \in Nat
      /\ target \in Nat \ {0} /\ Grows(value)
  BY <1>1, <1>2, AttemptedFacts DEF IInv, TypeInv, Grows
<1>4. /\ DOMAIN vertices' = DOMAIN vertices \cup {target} /\ target \notin DOMAIN vertices
      /\ vertices'[target] = value /\ \A n \in DOMAIN vertices : vertices'[n] = vertices[n]
  BY <1>1, <1>2, <1>3
<1>5. EdgeRecorded(target)
  BY <1>1, <1>2, <1>4 DEF EdgeRecorded
<1>6. TypeInv' /\ WalkInv' /\ StopInv' /\ RecordInv'
  BY <1>2, <1>3, <1>5, RecordsKept
<1>7. EveryAttemptOnce'
  BY <1>2, <1>3, <1>5, AttemptOnce
<1>8. Bucket(key) \in Seq(Nat) /\ \A k \in DOMAIN Bucket(key) : Bucket(key)[k] \in DOMAIN vertices
  <2>1. CASE key \in DOMAIN buckets
    BY <2>1 DEF Bucket, IInv, GraphInv, BucketInv
  <2>2. CASE key \notin DOMAIN buckets
    BY <2>2 DEF Bucket
  <2>. QED
    BY <2>1, <2>2
<1>9. /\ buckets'[key] = Append(Bucket(key), target) /\ DOMAIN buckets' = DOMAIN buckets \cup {key}
      /\ \A k \in DOMAIN buckets : k # key => buckets'[k] = buckets[k]
  BY <1>2
<1>10. PICK longer : longer = Append(Bucket(key), target)
  OBVIOUS
<1>11. /\ longer \in Seq(Nat) /\ \A k \in DOMAIN longer : longer[k] \in DOMAIN vertices'
       /\ \E k \in DOMAIN longer : longer[k] = target
       /\ \A k \in DOMAIN Bucket(key) : k \in DOMAIN longer /\ longer[k] = Bucket(key)[k]
  <2>1. /\ longer \in Seq(Nat) /\ Len(Bucket(key)) \in Nat
        /\ DOMAIN longer = DOMAIN Bucket(key) \cup {Len(Bucket(key)) + 1}
        /\ longer[Len(Bucket(key)) + 1] = target
        /\ \A k \in DOMAIN Bucket(key) : longer[k] = Bucket(key)[k]
    BY <1>3, <1>8, <1>10
  <2>. QED
    BY <1>4, <1>8, <2>1
<1>12. BucketInv'
  <2>1. ASSUME NEW k \in DOMAIN buckets'
        PROVE  /\ buckets'[k] \in Seq(Nat)
               /\ \A i \in DOMAIN buckets'[k] : buckets'[k][i] \in DOMAIN vertices'
    <3>1. CASE k = key
      BY <1>9, <1>10, <1>11, <3>1
    <3>2. CASE k # key
      BY <1>4, <1>9, <3>2 DEF IInv, GraphInv, BucketInv
    <3>. QED
      BY <3>1, <3>2
  <2>2. ASSUME NEW n \in DOMAIN vertices', NEW k, k = Key(vertices'[n])
        PROVE  k \in DOMAIN buckets' /\ \E i \in DOMAIN buckets'[k] : buckets'[k][i] = n
    <3>1. CASE n = target
      BY <1>1, <1>4, <1>9, <1>10, <1>11, <2>2, <3>1
    <3>2. CASE n # target
      <4>1. n \in DOMAIN vertices /\ k = Key(vertices[n])
        BY <1>4, <2>2, <3>2
      <4>2. k \in DOMAIN buckets /\ \E i \in DOMAIN buckets[k] : buckets[k][i] = n
        BY <4>1 DEF IInv, GraphInv, BucketInv
      <4>3. CASE k = key
        BY <1>9, <1>10, <1>11, <4>2, <4>3 DEF Bucket
      <4>4. CASE k # key
        BY <1>9, <4>2, <4>4
      <4>. QED
        BY <4>3, <4>4
    <3>. QED
      BY <3>1, <3>2
  <2>3. \A c : Key(c)' = Key(c)
    BY DEF Key
  <2>. QED
    BY <2>1, <2>2, <2>3 DEF BucketInv
<1>13. Distinct'
  <2>1. ASSUME NEW n \in DOMAIN vertices PROVE Class(vertices[n]) # Class(value)
    <3>. SUFFICES ASSUME Class(vertices[n]) = Class(value) PROVE FALSE
      OBVIOUS
    <3>1. vertices[n] \in Complexes
      BY <1>3
    <3>2. Key(vertices[n]) = key /\ Isomorphic(value, vertices[n])
      BY <1>1, <1>3, <3>1, ClassDecides, IsomorphicIsSameClass
    <3>3. key \in DOMAIN buckets /\ \E k \in DOMAIN buckets[key] : buckets[key][k] = n
      BY <3>2 DEF IInv, GraphInv, BucketInv
    <3>. QED
      BY <1>1, <1>2, <3>2, <3>3 DEF NoMatch, Bucket
  <2>2. \A m, n \in DOMAIN vertices : m # n => Class(vertices[m]) # Class(vertices[n])
    BY DEF IInv, GraphInv, Distinct
  <2>. QED
    BY <1>4, <2>1, <2>2 DEF Distinct
<1>14. ReachInv'
  <2>1. \A S : ClosedUnderMutation(S)' <=> ClosedUnderMutation(S)
    BY <1>2 DEF ClosedUnderMutation, IsVertex, Admits, Outcome
  <2>2. ASSUME NEW S \in SUBSET Classes, ClosedUnderMutation(S) PROVE Class(value) \in S
    <3>1. /\ cursor.source \in DOMAIN vertices /\ vertices[cursor.source] \in Complexes
          /\ cursor.direction \in Directions
          /\ cursor.summand \in DOMAIN vertices[cursor.source]
      BY <1>2, CursorFacts DEF IsPlace
    <3>2. Class(vertices[cursor.source]) \in S
      BY <2>2, <3>1 DEF IInv, GraphInv, ReachInv
    <3>. QED
      BY <1>1, <1>2, <2>2, <3>1, <3>2 DEF ClosedUnderMutation, Attempted
  <2>. QED
    BY <1>4, <2>1, <2>2 DEF IInv, GraphInv, ReachInv
<1>. QED
  BY <1>6, <1>7, <1>12, <1>13, <1>14 DEF IInv, GraphInv

-----------------------------------------------------------------------------
(* The theorems.                                                           *)

\* Every step preserves the invariant.
LEMMA NextInvariant == IInv /\ [Next]_vars => IInv'
<1>. SUFFICES ASSUME IInv, [Next]_vars PROVE IInv'
  OBVIOUS
<1>1. CASE StartWalk
  BY <1>1, StartStep
<1>2. CASE BlockRoot
  BY <1>2, BlockRootStep
<1>3. CASE PopSource
  BY <1>3, PopStep
<1>4. CASE BlockAttempt
  BY <1>4, BlockAttemptStep
<1>5. CASE MatchVertex
  BY <1>5, MatchVertexStep
<1>6. CASE StoreVertex
  BY <1>6, StoreVertexStep
<1>7. CASE UNCHANGED vars
  BY <1>7, StillStep DEF vars, contents, search, IInv, WalkInv
<1>. QED
  BY <1>1, <1>2, <1>3, <1>4, <1>5, <1>6, <1>7, StillSteps DEF Next, Walk

\* The invariant of the walk, for every algebra, every limit and every moment of
\* cancellation (equivalence_discovery.rs, walk).
THEOREM Invariance == Spec => []IInv
<1>1. Init => IInv
  BY InitInvariant
<1>2. IInv /\ [Next]_vars => IInv'
  BY NextInvariant
<1>. QED
  BY <1>1, <1>2, PTL DEF Spec

\* The stored vertices are pairwise not isomorphic and every edge ends at the
\* vertex its mutation gives (IncompleteEquivalenceGraph).
THEOREM ExactGraph == Spec => []GraphIsExact
<1>1. IInv => GraphIsExact
  BY DEF IInv, GraphInv, Distinct, RecordInv, OutcomeOf, GraphIsExact
<1>. QED
  BY <1>1, Invariance, PTL

\* Wherever it is cut, the walk has recorded each attempt before its position
\* exactly once and no other (process_vertex, attempt).
THEOREM AttemptsOnce == Spec => []EveryAttemptOnce
<1>1. IInv => EveryAttemptOnce
  BY DEF IInv
<1>. QED
  BY <1>1, Invariance, PTL

\* A record of a place holds the result the mutation has there.
LEMMA RecordedOutcome ==
  ASSUME IInv, vertices # <<>>, \A n \in DOMAIN blocked : blocked[n].reason # "undetermined",
         NEW n, NEW d, NEW j, IsPlace(n, d, j), Place(n, d, j) \in Recorded
  PROVE  /\ Outcome(vertices[n], d, j).kind = "value"
         /\ Admits(Outcome(vertices[n], d, j).value) =>
              \E m \in DOMAIN vertices : Class(Outcome(vertices[n], d, j).value) = Class(vertices[m])
<1>1. CASE \E k \in DOMAIN edges : PlaceOf(edges[k]) = Place(n, d, j)
  <2>1. PICK k \in DOMAIN edges : PlaceOf(edges[k]) = Place(n, d, j)
    BY <1>1
  <2>2. edges[k].source = n /\ edges[k].direction = d /\ edges[k].summand = j
    BY <2>1, SamePlace DEF PlaceOf
  <2>3. /\ edges[k].target \in DOMAIN vertices /\ OutcomeOf(edges[k]).kind = "value"
        /\ Class(OutcomeOf(edges[k]).value) = Class(vertices[edges[k].target])
    BY DEF IInv, GraphInv, RecordInv
  <2>4. OutcomeOf(edges[k]) = Outcome(vertices[n], d, j)
    BY <2>2 DEF OutcomeOf
  <2>. QED
    BY <2>3, <2>4
<1>2. CASE \E k \in DOMAIN blocked : PlaceOf(blocked[k]) = Place(n, d, j)
  <2>1. PICK k \in DOMAIN blocked : PlaceOf(blocked[k]) = Place(n, d, j)
    BY <1>2
  <2>2. blocked[k].source = n /\ blocked[k].direction = d /\ blocked[k].summand = j
    BY <2>1, SamePlace DEF PlaceOf
  <2>3. IsBlocked(Outcome(vertices[n], d, j), blocked[k].reason)
    BY <2>2 DEF IInv, GraphInv, RecordInv, OutcomeOf
  <2>4. Outcome(vertices[n], d, j) \in Results
    <3>1. vertices[n] \in Complexes /\ limits \in Limits /\ d \in Directions
          /\ j \in DOMAIN vertices[n]
      BY DEF IInv, TypeInv, IsPlace
    <3>. QED
      BY <3>1, LimitsAssumption DEF Outcome
  <2>5. Outcome(vertices[n], d, j).kind \in {"value", "undetermined", "error"}
    BY <2>4 DEF Results, Undetermined, Failure
  <2>. QED
    BY <2>3, <2>5 DEF IsBlocked, BlockedReason, IsVertex
<1>. QED
  BY <1>1, <1>2 DEF Recorded

\* At the empty frontier every place of the graph has been recorded.
LEMMA AllRecorded ==
  ASSUME IInv, vertices # <<>>, cursor = NoCursor, frontier = <<>>,
         NEW n, NEW d, NEW j, IsPlace(n, d, j)
  PROVE  Place(n, d, j) \in Recorded
<1>1. Position = Place(Len(vertices) + 1, "left", 1)
  BY DEF Position
<1>2. n < Len(vertices) + 1
  BY DEF IInv, TypeInv, IsPlace
<1>3. Earlier(Place(n, d, j), Position)
  BY <1>1, <1>2, EarlierPlace
<1>. QED
  BY <1>3 DEF IInv, EveryAttemptOnce, IsPlace

\* With nothing left to walk, the vertices are closed under mutation.
LEMMA FoundIsClosed ==
  ASSUME IInv, vertices # <<>>, cursor = NoCursor, frontier = <<>>,
         \A n \in DOMAIN blocked : blocked[n].reason # "undetermined"
  PROVE  ClosedUnderMutation(Found)
<1>1. vertices \in Seq(Complexes) /\ limits \in Limits
  BY DEF IInv, TypeInv
<1>2. Class(Regular) \in Found
  <2>1. 1 \in DOMAIN vertices /\ vertices[1] = Regular
    BY <1>1 DEF IInv, WalkInv
  <2>. QED
    BY <2>1 DEF Found
<1>3. ASSUME NEW c \in Complexes, NEW d \in Directions, Class(c) \in Found, NEW i \in DOMAIN c,
             IsVertex(Outcome(c, d, i))
      PROVE  Class(Outcome(c, d, i).value) \in Found
  <2>1. PICK n \in DOMAIN vertices : Class(c) = Class(vertices[n])
    BY <1>3 DEF Found
  <2>2. vertices[n] \in Complexes /\ Outcome(c, d, i).kind = "value" /\ Admits(Outcome(c, d, i).value)
    BY <1>1, <1>3, SMTT(30) DEF IsVertex
  <2>3. \E j \in DOMAIN vertices[n] :
          \/ Outcome(vertices[n], d, j).kind # "value"
          \/ Class(Outcome(vertices[n], d, j).value) = Class(Outcome(c, d, i).value)
    BY <1>1, <1>3, <2>1, <2>2, MutationAssumption DEF Outcome
  <2>4. PICK j \in DOMAIN vertices[n] :
          \/ Outcome(vertices[n], d, j).kind # "value"
          \/ Class(Outcome(vertices[n], d, j).value) = Class(Outcome(c, d, i).value)
    BY <2>3
  <2>5. IsPlace(n, d, j)
    BY <1>3, <2>4 DEF IsPlace
  <2>6. /\ Outcome(vertices[n], d, j).kind = "value"
        /\ Admits(Outcome(vertices[n], d, j).value) =>
             \E m \in DOMAIN vertices :
               Class(Outcome(vertices[n], d, j).value) = Class(vertices[m])
    BY <2>5, AllRecorded, RecordedOutcome
  <2>7. /\ Outcome(c, d, i).value \in Complexes
        /\ Outcome(vertices[n], d, j).value \in Complexes
    BY <1>1, <1>3, <2>2, <2>4, <2>6, OutcomeType
  <2>8. Admits(Outcome(vertices[n], d, j).value)
    BY <2>2, <2>4, <2>6, <2>7, ComplexAssumption DEF Admits
  <2>. QED
    BY <2>4, <2>6, <2>8 DEF Found
<1>. QED
  BY <1>2, <1>3 DEF ClosedUnderMutation

\* An exhausted frontier without an open blocker is the proof that the vertices
\* are exactly the complexes reachable from the regular one
\* (DiscoveryStop::ExhaustedFrontier).
THEOREM ExhaustedFrontier == Spec => []ExhaustedIsReachable
<1>1. ASSUME IInv PROVE ExhaustedIsReachable
  <2>1. Found \in SUBSET Classes
    BY <1>1 DEF IInv, TypeInv, Found, Classes
  <2>2. Found \subseteq Reachable
    BY <1>1, <2>1 DEF IInv, GraphInv, ReachInv, Found, Reachable
  <2>3. ASSUME stop.kind = "exhausted_frontier",
               \A n \in DOMAIN blocked : blocked[n].reason # "undetermined"
        PROVE  Reachable \subseteq Found
    <3>1. vertices # <<>> /\ cursor = NoCursor /\ frontier = <<>>
      BY <1>1, <2>3 DEF IInv, StopInv
    <3>2. ClosedUnderMutation(Found)
      BY <1>1, <2>3, <3>1, FoundIsClosed
    <3>. QED
      BY <2>1, <3>2 DEF Reachable
  <2>. QED
    BY <2>2, <2>3 DEF ExhaustedIsReachable
<1>. QED
  BY <1>1, Invariance, PTL

-----------------------------------------------------------------------------
(* The ledger of the graph, and its verifier.                              *)

\* what the graph says of itself: its totals, its count of attempts, and its stop
LedgerInv ==
  /\ total_terms = Total(Terms) /\ matrix_entries = Total(Entries)
  /\ pc \in {"start", "walk", "attempt"} => stop.kind = "none"
  /\ \A n \in DOMAIN vertices : Admits(vertices[n])
  /\ IF vertices = <<>>
     THEN /\ completed_mutations = 0 /\ edges = <<>>
          /\ blocked # <<>> => VerifyRegularBlocker
     ELSE completed_mutations = Len(edges) + Len(blocked) + Unretained

\* the total over a sequence of vertices, and what each of them adds to it
TotalOf(size, vs) == FoldFunction(LAMBDA c, sum : size[c] + sum, 0, vs)
Sizes(size, vs) == [n \in DOMAIN vs |-> size[vs[n]]]

\* The fold of the verifier is a sum over the positions of the vertices.
LEMMA TotalIsSum ==
  ASSUME NEW size, NEW vs
  PROVE  TotalOf(size, vs) = SumOf(Sizes(size, vs))
<1>. DEFINE w == Sizes(size, vs)
            Rule(g) == [s \in SUBSET DOMAIN vs |->
                          IF s = {} THEN 0
                          ELSE size[vs[CHOOSE x \in s : TRUE]] + g[s \ {CHOOSE x \in s : TRUE}]]
<1>1. TotalOf(size, vs) = (CHOOSE g : g = Rule(g))[DOMAIN vs]
  BY Zenon DEF TotalOf, FoldFunction, FoldFunctionOnSet, MapThenFoldSet
<1>2. \A g : g = Rule(g) <=> Sums(g, DOMAIN vs, w)
  <2>1. \A s \in SUBSET DOMAIN vs : s # {} => w[Pick(s)] = size[vs[Pick(s)]]
    BY PickIsElement DEF Sizes
  <2>. HIDE DEF w
  <2>2. \A g : Rule(g) = [s \in SUBSET DOMAIN vs |->
                            IF s = {} THEN 0 ELSE w[Pick(s)] + g[s \ {Pick(s)}]]
    BY <2>1 DEF Pick
  <2>. QED
    BY <2>2 DEF Sums
<1>3. (CHOOSE g : g = Rule(g)) = (CHOOSE g : Sums(g, DOMAIN vs, w))
  <2>. HIDE DEF Rule, w
  <2>. QED
    BY Zenon, <1>2
<1>4. DOMAIN w = DOMAIN vs
  BY DEF Sizes
<1>. HIDE DEF Rule
<1>. QED
  BY <1>1, <1>3, <1>4 DEF SumOf

\* A vertex appended adds its size to the total.
LEMMA TotalGrows ==
  ASSUME NEW c \in Complexes, NEW size \in [Complexes -> Nat]
  PROVE  vertices \in Seq(Complexes) /\ vertices' = Append(vertices, c) =>
           Total(size)' = Total(size) + size[c]
<1>1. ASSUME vertices \in Seq(Complexes), vertices' = Append(vertices, c)
      PROVE  Total(size)' = Total(size) + size[c]
  <2>1. PICK k, D : k \in Nat /\ k = Len(vertices) + 1 /\ D = DOMAIN vertices
    BY <1>1
  <2>2. PICK w, v, E : /\ w = Sizes(size, vertices) /\ v = Sizes(size, vertices')
                       /\ E = D \cup {k}
    OBVIOUS
  <2>3. /\ DOMAIN vertices' = E /\ k \notin D /\ D = 1 .. Len(vertices)
        /\ vertices'[k] = c /\ \A n \in D : vertices'[n] = vertices[n] /\ vertices[n] \in Complexes
    BY <1>1, <2>1, <2>2
  <2>4. IsFiniteSet(D)
    BY <1>1, <2>3, FS_Interval
  <2>5. w \in [D -> Nat]
    BY <2>1, <2>2, <2>3 DEF Sizes
  <2>6. v \in [E -> Nat] /\ v[k] = size[c] /\ \A n \in D : v[n] = w[n]
    BY <2>1, <2>2, <2>3 DEF Sizes
  <2>7. SumOf(v) = SumOf(w) + v[k]
    <3>1. k \notin D
      BY <2>3
    <3>2. E = D \cup {k}
      BY <2>2
    <3>. QED
      BY <2>4, <2>5, <2>6, <3>1, <3>2, SumAdd
  <2>8. Total(size) = SumOf(w)
    BY <2>2, TotalIsSum DEF Total, TotalOf
  <2>9. Total(size)' = TotalOf(size, vertices')
    BY Zenon DEF Total, TotalOf, FoldFunction, FoldFunctionOnSet, MapThenFoldSet
  <2>. QED
    BY <2>2, <2>6, <2>7, <2>8, <2>9, TotalIsSum
<1>. QED
  BY <1>1

\* Nothing is stored before the walk, and the totals are zero.
LEMMA TotalOfNothing ==
  ASSUME vertices = <<>>, NEW size
  PROVE  Total(size) = 0
<1>1. PICK w : w = Sizes(size, vertices)
  OBVIOUS
<1>2. w \in [{} -> Nat]
  BY <1>1 DEF Sizes
<1>3. SumOf(w) = 0
  BY <1>2, FS_EmptySet, SumType
<1>. QED
  BY <1>1, <1>3, TotalIsSum DEF Total, TotalOf

\* The total is that of the vertices, before and after a step.
LEMMA TotalOfVertices ==
  ASSUME NEW size
  PROVE  Total(size) = TotalOf(size, vertices) /\ Total(size)' = TotalOf(size, vertices')
<1>1. Total(size) = TotalOf(size, vertices)
  BY DEF Total, TotalOf
<1>2. Total(size)' = TotalOf(size, vertices')
  BY Zenon DEF Total, TotalOf, FoldFunction, FoldFunctionOnSet, MapThenFoldSet
<1>. QED
  BY <1>1, <1>2

\* A step that keeps the vertices keeps the totals.
LEMMA TotalsStay ==
  ASSUME LedgerInv, UNCHANGED <<limits, vertices, total_terms, matrix_entries>>
  PROVE  /\ (total_terms = Total(Terms) /\ matrix_entries = Total(Entries))'
         /\ (\A n \in DOMAIN vertices : Admits(vertices[n]))'
<1>1. Total(Terms)' = Total(Terms) /\ Total(Entries)' = Total(Entries)
  BY TotalOfVertices
<1>2. (\A n \in DOMAIN vertices : Admits(vertices[n]))'
  BY DEF LedgerInv, Admits
<1>. QED
  BY <1>1, <1>2 DEF LedgerInv

\* The ledger of an empty graph is right.
LEMMA InitLedger == Init => LedgerInv
<1>. SUFFICES ASSUME Init PROVE LedgerInv
  OBVIOUS
<1>1. vertices = <<>> /\ total_terms = 0 /\ matrix_entries = 0 /\ stop.kind = "none"
      /\ completed_mutations = 0 /\ edges = <<>> /\ blocked = <<>>
  BY DEF Init, Running, Stop
<1>2. Total(Terms) = 0 /\ Total(Entries) = 0
  BY <1>1, TotalOfNothing
<1>. QED
  BY <1>1, <1>2 DEF LedgerInv

\* The start stores the regular complex with its sizes, or leaves an empty graph
\* that verifies by its stop or its blocker.
LEMMA StartLedger == IInv /\ LedgerInv /\ (StartWalk \/ RefuseRoot \/ BlockRoot) => LedgerInv'
<1>. SUFFICES ASSUME IInv, LedgerInv, StartWalk \/ RefuseRoot \/ BlockRoot PROVE LedgerInv'
  OBVIOUS
<1>1. /\ vertices = <<>> /\ edges = <<>> /\ blocked = <<>> /\ completed_mutations = 0
      /\ total_terms = 0 /\ matrix_entries = 0 /\ stop.kind = "none"
  <2>1. pc = "start"
    BY DEF StartWalk, RefuseRoot, BlockRoot
  <2>2. vertices = <<>> /\ edges = <<>> /\ blocked = <<>>
    BY <2>1 DEF IInv, WalkInv
  <2>3. Total(Terms) = 0 /\ Total(Entries) = 0
    BY <2>2, TotalOfNothing
  <2>. QED
    BY <2>1, <2>2, <2>3 DEF LedgerInv
<1>2. CASE StartWalk
  <2>1. /\ vertices' = <<Regular>> /\ total_terms' = Terms[Regular]
        /\ matrix_entries' = Entries[Regular] /\ pc' = "walk"
        /\ UNCHANGED <<limits, edges, blocked, completed_mutations, stop>>
    BY <1>2 DEF StartWalk
  <2>2. Regular \in Complexes /\ Regular \in Tilting /\ Terms[Regular] \in Nat
        /\ Entries[Regular] \in Nat
    BY ComplexAssumption
  <2>3. vertices \in Seq(Complexes) /\ vertices' = Append(vertices, Regular)
    BY <1>1, <2>1
  <2>4. /\ Total(Terms)' = Total(Terms) + Terms[Regular] /\ Total(Terms) = 0
        /\ Total(Entries)' = Total(Entries) + Entries[Regular] /\ Total(Entries) = 0
    BY <1>1, <2>2, <2>3, TotalGrows, TotalOfNothing, ComplexAssumption
  <2>5. \A n \in DOMAIN vertices' : vertices'[n] = Regular
    BY <2>1
  <2>6. (\A n \in DOMAIN vertices : Admits(vertices[n]))'
    BY <2>2, <2>5 DEF Admits
  <2>7. vertices' # <<>> /\ Unretained' = 0 /\ Len(edges') = 0 /\ Len(blocked') = 0
    BY <1>1, <2>1 DEF Unretained, StorageStops
  <2>. QED
    BY <1>1, <2>1, <2>2, <2>4, <2>6, <2>7 DEF LedgerInv
<1>3. CASE RefuseRoot
  BY <1>1, <1>3, TotalsStay DEF RefuseRoot, contents, LedgerInv
<1>4. CASE BlockRoot
  <2>1. UNCHANGED <<limits, vertices, edges, completed_mutations, total_terms, matrix_entries>>
        /\ pc' = "done" /\ blocked' = <<RootBlocker>> /\ Start[limits.tilting] = "undetermined"
        /\ stop'.kind = "exhausted_frontier"
    BY <1>4 DEF BlockRoot, Stop
  <2>2. VerifyRegularBlocker'
    BY <1>1, <2>1 DEF VerifyRegularBlocker, RootBlocker
  <2>. QED
    BY <1>1, <2>1, <2>2, TotalsStay DEF LedgerInv
<1>. QED
  BY <1>2, <1>3, <1>4

\* Once the walk has its root, a step that stores no vertex keeps the totals, and
\* the count goes with the records and the stop.
LEMMA LedgerKept ==
  ASSUME LedgerInv, UNCHANGED <<limits, vertices, total_terms, matrix_entries>>,
         vertices # <<>>, pc' \in {"walk", "attempt"} => stop'.kind = "none",
         pc' # "start", completed_mutations' = Len(edges') + Len(blocked') + Unretained'
  PROVE  LedgerInv'
BY TotalsStay DEF LedgerInv

\* A stop without a refused vertex changes no count.
LEMMA StopLedger ==
  IInv /\ LedgerInv /\ (Exhaust \/ RefuseAttempt \/ Interrupt \/ PopSource \/ BeginAttempt)
    => LedgerInv'
<1>. SUFFICES ASSUME IInv, LedgerInv,
                     Exhaust \/ RefuseAttempt \/ Interrupt \/ PopSource \/ BeginAttempt
     PROVE  LedgerInv'
  OBVIOUS
<1>1. pc \in {"walk", "attempt"}
  BY DEF Exhaust, RefuseAttempt, Interrupt, PopSource, BeginAttempt
<1>2. vertices # <<>>
  BY <1>1, CursorFacts DEF IInv, WalkInv
<1>3. stop.kind = "none" /\ Unretained = 0
  BY <1>1 DEF LedgerInv, Unretained, StorageStops
<1>4. UNCHANGED <<limits, vertices, edges, blocked, completed_mutations, total_terms, matrix_entries>>
  BY DEF Exhaust, RefuseAttempt, Interrupt, PopSource, BeginAttempt, contents
<1>5. /\ stop'.kind \notin StorageStops
      /\ pc' # "start" /\ (pc' \in {"walk", "attempt"} => stop'.kind = "none")
  <2>1. \A n : Stop("exhausted_frontier", n).kind \notin StorageStops
               /\ Stop("cancelled", n).kind \notin StorageStops
               /\ Stop("mutation_limit", n).kind \notin StorageStops
    BY DEF Stop, StorageStops
  <2>2. CASE Exhaust \/ Interrupt
    BY <2>1, <2>2 DEF Exhaust, Interrupt, Finish
  <2>3. CASE RefuseAttempt
    BY <2>1, <2>3 DEF RefuseAttempt, Finish, NextStop
  <2>4. CASE PopSource \/ BeginAttempt
    BY <1>3, <2>4 DEF PopSource, BeginAttempt, StorageStops
  <2>. QED
    BY <2>2, <2>3, <2>4
<1>6. Unretained' = 0
  BY <1>5 DEF Unretained
<1>7. completed_mutations' = Len(edges') + Len(blocked') + Unretained'
  BY <1>2, <1>3, <1>4, <1>6 DEF LedgerInv
<1>. QED
  BY <1>2, <1>4, <1>5, <1>7, LedgerKept

\* A completed attempt is counted with its record, or with the stop that lost it.
LEMMA AttemptLedger ==
  IInv /\ LedgerInv /\ (BlockAttempt \/ MatchVertex \/ RefuseVertex \/ StoreVertex) => LedgerInv'
<1>. SUFFICES ASSUME IInv, LedgerInv,
                     BlockAttempt \/ MatchVertex \/ RefuseVertex \/ StoreVertex
     PROVE  LedgerInv'
  OBVIOUS
<1>1. pc = "attempt" /\ limits' = limits /\ completed_mutations' = completed_mutations + 1
  BY DEF BlockAttempt, MatchVertex, RefuseVertex, StoreVertex, Complete
<1>2. vertices # <<>>
  BY <1>1, CursorFacts
<1>3. stop.kind = "none" /\ Unretained = 0
  BY <1>1 DEF LedgerInv, Unretained, StorageStops
<1>4. completed_mutations = Len(edges) + Len(blocked) /\ Len(edges) \in Nat /\ Len(blocked) \in Nat
  <2>1. Len(edges) \in Nat /\ Len(blocked) \in Nat
    BY DEF IInv, TypeInv
  <2>. QED
    BY <1>2, <1>3, <2>1 DEF LedgerInv
<1>5. /\ \A e : Len(Append(edges, e)) = Len(edges) + 1
      /\ \A b : Len(Append(blocked, b)) = Len(blocked) + 1
  BY DEF IInv, TypeInv
<1>6. CASE BlockAttempt
  <2>1. /\ pc' = "walk" /\ stop' = stop /\ edges' = edges
        /\ Len(blocked') = Len(blocked) + 1
        /\ UNCHANGED <<vertices, total_terms, matrix_entries>>
    BY <1>5, <1>6 DEF BlockAttempt, Resume
  <2>2. Unretained' = 0
    BY <1>3, <2>1 DEF Unretained, StorageStops
  <2>. QED
    BY <1>1, <1>2, <1>3, <1>4, <2>1, <2>2, LedgerKept
<1>7. CASE MatchVertex
  <2>1. /\ pc' = "walk" /\ stop' = stop /\ blocked' = blocked
        /\ Len(edges') = Len(edges) + 1
        /\ UNCHANGED <<vertices, total_terms, matrix_entries>>
    BY <1>5, <1>7 DEF MatchVertex, Resume
  <2>2. Unretained' = 0
    BY <1>3, <2>1 DEF Unretained, StorageStops
  <2>. QED
    BY <1>1, <1>2, <1>3, <1>4, <2>1, <2>2, LedgerKept
<1>8. CASE RefuseVertex
  <2>1. /\ pc' = "done" /\ edges' = edges /\ blocked' = blocked
        /\ UNCHANGED <<vertices, total_terms, matrix_entries>>
        /\ stop'.kind \in StorageStops
    BY <1>8 DEF RefuseVertex, StorageStop, Stop, StorageStops
  <2>2. Unretained' = 1
    BY <1>2, <2>1 DEF Unretained
  <2>. QED
    BY <1>1, <1>2, <1>4, <2>1, <2>2, LedgerKept
<1>9. CASE StoreVertex
  <2>1. PICK value : value = Attempted.value
    OBVIOUS
  <2>2. /\ pc' = "walk" /\ stop' = stop /\ blocked' = blocked
        /\ Len(edges') = Len(edges) + 1
        /\ vertices' = Append(vertices, value) /\ vertices \in Seq(Complexes)
        /\ total_terms' = total_terms + Terms[value]
        /\ matrix_entries' = matrix_entries + Entries[value]
        /\ value \in Complexes /\ Admits(value)
    <3>1. IsVertex(Attempted)
      BY <1>9 DEF StoreVertex, NewVertex
    <3>2. value \in Complexes /\ Admits(value)
      BY <1>1, <2>1, <3>1, AttemptedFacts DEF IsVertex
    <3>. QED
      BY <1>5, <1>9, <2>1, <3>2 DEF StoreVertex, Resume, IInv, TypeInv
  <2>3. /\ Total(Terms)' = Total(Terms) + Terms[value]
        /\ Total(Entries)' = Total(Entries) + Entries[value]
    BY <2>2, TotalGrows, ComplexAssumption
  <2>4. /\ vertices' # <<>>
        /\ \A n \in DOMAIN vertices' : vertices'[n] = value \/
             (n \in DOMAIN vertices /\ vertices'[n] = vertices[n])
    BY <2>2
  <2>5. (\A n \in DOMAIN vertices : Admits(vertices[n]))'
    BY <1>1, <2>2, <2>4 DEF LedgerInv, Admits
  <2>6. Unretained' = 0
    BY <1>3, <2>2 DEF Unretained, StorageStops
  <2>7. completed_mutations' = Len(edges') + Len(blocked') + Unretained'
    BY <1>1, <1>4, <2>2, <2>6
  <2>. QED
    BY <1>3, <2>2, <2>3, <2>4, <2>5, <2>7 DEF LedgerInv
<1>. QED
  BY <1>6, <1>7, <1>8, <1>9

\* Every step keeps the ledger.
LEMMA NextLedger == IInv /\ LedgerInv /\ [Next]_vars => LedgerInv'
<1>. SUFFICES ASSUME IInv, LedgerInv, [Next]_vars PROVE LedgerInv'
  OBVIOUS
<1>1. CASE FailRoot \/ FailAttempt \/ Cancel \/ UNCHANGED vars
  <2>1. UNCHANGED <<limits, contents, stop>> /\ (pc' = pc \/ pc' = "failed")
    BY <1>1 DEF FailRoot, FailAttempt, Cancel, vars
  <2>2. UNCHANGED <<limits, vertices, edges, blocked, completed_mutations, total_terms,
                    matrix_entries, stop>>
    BY <2>1 DEF contents
  <2>3. VerifyRegularBlocker' <=> VerifyRegularBlocker
    BY <2>2 DEF VerifyRegularBlocker
  <2>. QED
    BY <2>1, <2>2, <2>3, TotalsStay DEF LedgerInv, Unretained
<1>. QED
  BY <1>1, StartLedger, StopLedger, AttemptLedger DEF Next, Walk

\* The invariants make the verifier accept the graph.
LEMMA GraphVerifies == IInv /\ LedgerInv => ReturnedGraphVerifies
<1>. SUFFICES ASSUME IInv, LedgerInv PROVE Verify
  BY DEF ReturnedGraphVerifies
<1>1. CASE vertices = <<>> /\ blocked # <<>>
  BY <1>1 DEF Verify, LedgerInv
<1>2. CASE ~(vertices = <<>> /\ blocked # <<>>)
  <2>1. vertices \in Seq(Complexes) /\ limits \in Limits
    BY DEF IInv, TypeInv
  <2>2. RecordsMatch
    <3>1. CASE vertices = <<>>
      <4>1. Unretained = 0 /\ Len(edges) = 0 /\ Len(blocked) = 0 /\ completed_mutations = 0
        BY <1>2, <3>1 DEF LedgerInv, Unretained
      <4>. QED
        BY <4>1 DEF LedgerInv, RecordsMatch
    <3>2. CASE vertices # <<>>
      BY <3>2 DEF LedgerInv, RecordsMatch
    <3>. QED
      BY <3>1, <3>2
  <2>3. VerticesAreDistinct
    <3>. SUFFICES ASSUME NEW m \in DOMAIN vertices, NEW n \in DOMAIN vertices, m < n
         PROVE  ~Isomorphic(vertices[n], vertices[m])
      BY DEF VerticesAreDistinct
    <3>1. vertices[m] \in Complexes /\ vertices[n] \in Complexes /\ m # n
      BY <2>1
    <3>2. Class(vertices[n]) # Class(vertices[m])
      BY <3>1 DEF IInv, GraphInv, Distinct
    <3>. QED
      BY <3>1, <3>2, IsomorphicIsSameClass
  <2>4. ASSUME NEW n \in DOMAIN edges PROVE VerifyEdge(edges[n])
    <3>1. PICK edge, result : edge = edges[n] /\ result = OutcomeOf(edges[n])
      OBVIOUS
    <3>2. /\ IsPlace(edge.source, edge.direction, edge.summand)
          /\ edge.target \in DOMAIN vertices /\ result.kind = "value"
          /\ Class(result.value) = Class(vertices[edge.target])
      BY <3>1 DEF IInv, GraphInv, RecordInv
    <3>3. Replay(edge) = result
      BY <3>1, <3>2 DEF Replay, IsPlace, OutcomeOf
    <3>4. vertices[edge.source] \in Complexes /\ vertices[edge.target] \in Complexes
      BY <2>1, <3>2 DEF IsPlace
    <3>5. result.value \in Complexes
      BY <2>1, <3>1, <3>2, <3>4, OutcomeType DEF OutcomeOf, IsPlace
    <3>6. Admits(vertices[edge.target])
      BY <3>2 DEF LedgerInv
    <3>7. Admits(result.value)
      BY <3>2, <3>4, <3>5, <3>6, ComplexAssumption DEF Admits
    <3>8. Key(result.value) = Key(vertices[edge.target])
          /\ Isomorphic(result.value, vertices[edge.target])
      BY <3>2, <3>4, <3>5, ClassDecides, IsomorphicIsSameClass
    <3>. QED
      BY <3>1, <3>2, <3>3, <3>7, <3>8 DEF VerifyEdge, IsVertex
  <2>5. ASSUME NEW n \in DOMAIN blocked PROVE VerifyBlocked(blocked[n])
    <3>1. vertices # <<>>
      BY <1>2, <2>5
    <3>2. /\ IsPlace(blocked[n].source, blocked[n].direction, blocked[n].summand)
          /\ IsBlocked(OutcomeOf(blocked[n]), blocked[n].reason)
      BY <3>1 DEF IInv, GraphInv, RecordInv
    <3>3. Replay(blocked[n]) = OutcomeOf(blocked[n])
      BY <3>2 DEF Replay, IsPlace, OutcomeOf
    <3>. QED
      BY <3>2, <3>3 DEF VerifyBlocked, IsBlocked
  <2>. QED
    BY <1>2, <2>2, <2>3, <2>4, <2>5 DEF Verify
<1>. QED
  BY <1>1, <1>2

\* Every graph the walk returns passes its own verifier, whichever limit,
\* cancellation or blocker ended it: its totals are those of its vertices, each
\* completed attempt is counted once, and each record replays
\* (IncompleteEquivalenceGraph::verify).
THEOREM GraphIsVerified == Spec => []ReturnedGraphVerifies
<1>1. IInv /\ LedgerInv /\ [Next]_vars => (IInv /\ LedgerInv)'
  BY NextInvariant, NextLedger
<1>. QED
  BY InitInvariant, InitLedger, <1>1, GraphVerifies, PTL DEF Spec

=============================================================================
