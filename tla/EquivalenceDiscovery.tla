------------------------ MODULE EquivalenceDiscovery ------------------------
(***************************************************************************)
(* The budgeted breadth-first walk over the mutations of tilting complexes *)
(* (equivalence_discovery.rs, key.rs, storage.rs), with cancellation from  *)
(* another thread, and the verifier of the graph it returns.               *)
(*                                                                         *)
(* A complex is the sequence of its indecomposable summands; two complexes *)
(* are isomorphic when they have the same summands in any order, and a     *)
(* mutation path decides the order. Positions are counted from 1.          *)
(***************************************************************************)
EXTENDS Integers, Sequences, FiniteSets, Functions

CONSTANTS
  Summands,       \* indecomposable complexes up to isomorphism
  Shape,          \* summand_shape of each
  Complexes,      \* the certified silting complexes the algebra offers
  Regular,        \* the regular complex, where the walk starts
  Tilting,        \* the complexes that are tilting and not only silting
  Terms, Entries, \* complex_terms and matrix_entries of each complex
  Start,          \* what regular_tilting_complex answers under a tilting limit
  Mutation,       \* tilting limit -> complex -> direction -> summand -> result
  Limits          \* the DiscoveryLimits a caller may pass

Directions == {"left", "right"}
Attempts == [source : Nat \ {0}, direction : Directions, summand : Nat \ {0}]

Value(c) == [kind |-> "value", value |-> c]
Undetermined == [kind |-> "undetermined"]
Failure == [kind |-> "error"]
Results == [kind : {"value"}, value : Complexes] \cup {Undetermined, Failure}

\* a complex up to isomorphism: what its summands are, and not their order
Class(c) == {c[i] : i \in DOMAIN c}
Classes == {Class(c) : c \in Complexes}

ASSUME ComplexAssumption ==
  /\ \A c \in Complexes : /\ c \in Seq(Summands) /\ c # <<>>
                          /\ \A i, j \in DOMAIN c : i # j => c[i] # c[j]
  /\ Regular \in Complexes /\ Regular \in Tilting /\ Tilting \subseteq Complexes
  /\ \A c \in Tilting, d \in Complexes : Class(c) = Class(d) => d \in Tilting
  /\ Terms \in [Complexes -> Nat] /\ Entries \in [Complexes -> Nat]

ASSUME LimitsAssumption ==
  \A l \in Limits :
    /\ l \in [max_vertices : Nat, max_directed_mutations : Nat, max_total_terms : Nat,
              max_matrix_entries : Nat, tilting : DOMAIN Start, through_silting : BOOLEAN]
    /\ Start[l.tilting] \in {"tilting", "undetermined", "error"}
    /\ \A c \in Complexes, direction \in Directions :
         /\ DOMAIN Mutation[l.tilting][c][direction] = DOMAIN c
         /\ \A i \in DOMAIN c : Mutation[l.tilting][c][direction][i] \in Results

\* isomorphic complexes have isomorphic mutations, unless a limit leaves one open
ASSUME MutationAssumption ==
  \A l \in Limits, c \in Complexes, d \in Complexes, direction \in Directions :
    LET results(x) == Mutation[l.tilting][x][direction] IN
    Class(c) = Class(d) =>
      \A i \in DOMAIN c : results(c)[i].kind = "value" =>
        \E j \in DOMAIN d : \/ results(d)[j].kind # "value"
                            \/ Class(results(d)[j].value) = Class(results(c)[i].value)

VARIABLES
  limits,                          \* of this walk
  vertices, edges, blocked,        \* DiscoveryContents: what the walk keeps
  completed_mutations, total_terms, matrix_entries,
  buckets,                         \* key -> indices of the vertices with that key
  frontier,                        \* the vertices still to walk
  cursor,                          \* the next attempt, or none
  pc, stop,                        \* where the walk is, and why it stopped
  progress,                        \* the snapshot of its control
  cancelled                        \* the flag of its control

contents == <<vertices, edges, blocked, completed_mutations, total_terms, matrix_entries>>
search == <<buckets, frontier>>
vars == <<limits, contents, search, cursor, pc, stop, progress, cancelled>>

-----------------------------------------------------------------------------
(* Keys, isomorphism and mutation.                                         *)

\* TiltingComplexKey: how many summands have each shape
Key(c) == [s \in {Shape[x] : x \in Summands} |->
             Cardinality({i \in DOMAIN c : Shape[c[i]] = s})]

\* mutant of Isomorphic: equal shapes count as isomorphic
IsomorphicByShape(c, d) ==
  Len(c) = Len(d) /\ \A i \in DOMAIN c : \E j \in DOMAIN d : Shape[d[j]] = Shape[c[i]]

\* every summand of c has a match of equal shape in d
Isomorphic(c, d) ==
  /\ Len(c) = Len(d)
  /\ \A i \in DOMAIN c : \E j \in DOMAIN d : Shape[d[j]] = Shape[c[i]] /\ d[j] = c[i]

Admits(c) == limits.through_silting \/ c \in Tilting

Outcome(c, direction, summand) == Mutation[limits.tilting][c][direction][summand]

\* stored_value: a silting result that is not tilting is a vertex of a silting walk only
IsVertex(result) == result.kind = "value" /\ Admits(result.value)

BlockedReason(result) ==
  IF result.kind = "undetermined" THEN "undetermined" ELSE "silting_only"

Bucket(key) == IF key \in DOMAIN buckets THEN buckets[key] ELSE <<>>

\* stored_match: the search of c's bucket meets an isomorphic vertex first at k
FirstMatch(c, k) ==
  /\ k \in DOMAIN Bucket(Key(c)) /\ Isomorphic(c, vertices[Bucket(Key(c))[k]])
  /\ \A j \in 1 .. k - 1 : ~Isomorphic(c, vertices[Bucket(Key(c))[j]])

NoMatch(c) == \A k \in DOMAIN Bucket(Key(c)) : ~Isomorphic(c, vertices[Bucket(Key(c))[k]])

-----------------------------------------------------------------------------
(* Stops.                                                                  *)

Stop(kind, completed) == [kind |-> kind, completed |-> completed]
Running == Stop("none", 0)
StorageStops == {"vertex_limit", "term_limit", "matrix_limit"}

\* storage_stop for a vertex c beside n stored ones with the given totals
StorageStop(c, n, terms, entries) ==
  IF n >= limits.max_vertices THEN "vertex_limit"
  ELSE IF terms + Terms[c] > limits.max_total_terms THEN "term_limit"
  ELSE IF entries + Entries[c] > limits.max_matrix_entries THEN "matrix_limit"
  ELSE "none"

Progress(stage, completed, reserved) ==
  [stage |-> stage, completed_work |-> completed, reserved_work |-> reserved]

Finish(kind) ==
  /\ pc' = "done"
  /\ stop' = Stop(kind, completed_mutations')
  /\ progress' = IF kind = "exhausted_frontier" /\ vertices' # <<>>
                 THEN Progress("complete", completed_mutations', completed_mutations')
                 ELSE progress

-----------------------------------------------------------------------------
(* The walk.                                                               *)

NoCursor == [source |-> 0, direction |-> "left", summand |-> 0]

Init ==
  /\ limits \in Limits
  /\ vertices = <<>> /\ edges = <<>> /\ blocked = <<>>
  /\ completed_mutations = 0 /\ total_terms = 0 /\ matrix_entries = 0
  /\ buckets = <<>> /\ frontier = <<>>
  /\ cursor = NoCursor
  /\ pc = "start" /\ stop = Running
  /\ progress = Progress("mutation", 0, 0)
  /\ cancelled = FALSE

\* initial_state: the regular complex is stored, or the graph is returned without it
StartWalk ==
  /\ pc = "start" /\ Start[limits.tilting] = "tilting"
  /\ StorageStop(Regular, 0, 0, 0) = "none"
  /\ vertices' = <<Regular>>
  /\ total_terms' = Terms[Regular] /\ matrix_entries' = Entries[Regular]
  /\ buckets' = [k \in {Key(Regular)} |-> <<1>>]
  /\ frontier' = <<1>>
  /\ pc' = "walk"
  /\ UNCHANGED <<limits, edges, blocked, completed_mutations, cursor, stop, progress, cancelled>>

RefuseRoot ==
  /\ pc = "start" /\ Start[limits.tilting] = "tilting"
  /\ LET kind == StorageStop(Regular, 0, 0, 0)
     IN  kind # "none" /\ stop' = Stop(kind, 0)
  /\ pc' = "done"
  /\ UNCHANGED <<limits, contents, search, cursor, progress, cancelled>>

RootBlocker == [source |-> 1, direction |-> "left", summand |-> 1, reason |-> "undetermined"]

BlockRoot ==
  /\ pc = "start" /\ Start[limits.tilting] = "undetermined"
  /\ blocked' = <<RootBlocker>>
  /\ pc' = "done" /\ stop' = Stop("exhausted_frontier", 0)
  /\ UNCHANGED <<limits, vertices, edges, completed_mutations, total_terms, matrix_entries,
                 search, cursor, progress, cancelled>>

FailRoot ==
  /\ pc = "start" /\ Start[limits.tilting] = "error"
  /\ pc' = "failed"
  /\ UNCHANGED <<limits, contents, search, cursor, stop, progress, cancelled>>

PopSource ==
  /\ pc = "walk" /\ cursor = NoCursor /\ frontier # <<>>
  /\ cursor' = [source |-> Head(frontier), direction |-> "left", summand |-> 1]
  /\ frontier' = Tail(frontier)
  /\ UNCHANGED <<limits, contents, buckets, pc, stop, progress, cancelled>>

Exhaust ==
  /\ pc = "walk" /\ cursor = NoCursor /\ frontier = <<>>
  /\ UNCHANGED <<limits, contents, search, cursor, cancelled>>
  /\ Finish("exhausted_frontier")

NextStop ==
  IF cancelled THEN "cancelled"
  ELSE IF completed_mutations >= limits.max_directed_mutations THEN "mutation_limit"
  ELSE "none"

RefuseAttempt ==
  /\ pc = "walk" /\ cursor # NoCursor /\ NextStop # "none"
  /\ UNCHANGED <<limits, contents, search, cursor, cancelled>>
  /\ Finish(NextStop)

BeginAttempt ==
  /\ pc = "walk" /\ cursor # NoCursor /\ NextStop = "none"
  /\ pc' = "attempt"
  /\ progress' = Progress("mutation", completed_mutations, completed_mutations + 1)
  /\ UNCHANGED <<limits, contents, search, cursor, stop, cancelled>>

Place(source, direction, summand) ==
  [source |-> source, direction |-> direction, summand |-> summand]

\* mutant of NextCursor: the last summand is taken for the end of both directions
NextCursorLeftOnly ==
  IF cursor.summand < Len(vertices[cursor.source])
  THEN Place(cursor.source, cursor.direction, cursor.summand + 1) ELSE NoCursor

\* the loops over summands and directions
NextCursor ==
  IF cursor.summand < Len(vertices[cursor.source])
  THEN Place(cursor.source, cursor.direction, cursor.summand + 1)
  ELSE IF cursor.direction = "left" THEN Place(cursor.source, "right", 1)
  ELSE NoCursor

\* mutant of Interrupt: the attempt in progress is counted
InterruptCounted ==
  /\ pc = "attempt" /\ cancelled
  /\ completed_mutations' = completed_mutations + 1
  /\ UNCHANGED <<limits, vertices, edges, blocked, total_terms, matrix_entries, search, cursor,
                 cancelled>>
  /\ Finish("cancelled")

\* a charge of the meter sees the flag: the attempt leaves no trace
Interrupt ==
  /\ pc = "attempt" /\ cancelled
  /\ UNCHANGED <<limits, contents, search, cursor, cancelled>>
  /\ Finish("cancelled")

Attempted == Outcome(vertices[cursor.source], cursor.direction, cursor.summand)

FailAttempt ==
  /\ pc = "attempt" /\ Attempted.kind = "error"
  /\ pc' = "failed"
  /\ UNCHANGED <<limits, contents, search, cursor, stop, progress, cancelled>>

\* what every completed attempt does before its result is kept
Complete ==
  /\ pc = "attempt" /\ Attempted.kind # "error"
  /\ completed_mutations' = completed_mutations + 1
  /\ UNCHANGED <<limits, cancelled>>

Resume ==
  /\ pc' = "walk" /\ cursor' = NextCursor
  /\ progress' = Progress("mutation", completed_mutations', completed_mutations')
  /\ UNCHANGED stop

Edge(target) == [source |-> cursor.source, target |-> target,
                 direction |-> cursor.direction, summand |-> cursor.summand]

BlockAttempt ==
  /\ Complete /\ ~IsVertex(Attempted)
  /\ blocked' = Append(blocked, [source |-> cursor.source, direction |-> cursor.direction,
                                 summand |-> cursor.summand, reason |-> BlockedReason(Attempted)])
  /\ UNCHANGED <<vertices, edges, total_terms, matrix_entries, search>>
  /\ Resume

MatchVertex ==
  /\ Complete /\ IsVertex(Attempted)
  /\ \E k \in DOMAIN Bucket(Key(Attempted.value)) :
       /\ FirstMatch(Attempted.value, k)
       /\ edges' = Append(edges, Edge(Bucket(Key(Attempted.value))[k]))
  /\ UNCHANGED <<vertices, blocked, total_terms, matrix_entries, search>>
  /\ Resume

NewVertex == IsVertex(Attempted) /\ NoMatch(Attempted.value)

RefuseVertex ==
  /\ Complete /\ NewVertex
  /\ LET kind == StorageStop(Attempted.value, Len(vertices), total_terms, matrix_entries)
     IN  kind # "none" /\ stop' = Stop(kind, completed_mutations')
  /\ pc' = "done"
  /\ progress' = Progress("mutation", completed_mutations', completed_mutations')
  /\ UNCHANGED <<vertices, edges, blocked, total_terms, matrix_entries, search, cursor>>

\* mutant of Enqueue: the new vertex is stored and never walked
ForgetToEnqueue(n) == UNCHANGED frontier

Enqueue(n) == frontier' = Append(frontier, n)

\* store_vertex, and the edge to the new vertex
StoreVertex ==
  LET value == Attempted.value
      target == Len(vertices) + 1
      key == Key(value)
  IN
  /\ Complete /\ NewVertex
  /\ StorageStop(value, Len(vertices), total_terms, matrix_entries) = "none"
  /\ vertices' = Append(vertices, value)
  /\ total_terms' = total_terms + Terms[value]
  /\ matrix_entries' = matrix_entries + Entries[value]
  /\ buckets' = [k \in DOMAIN buckets \cup {key} |->
                   IF k = key THEN Append(Bucket(key), target) ELSE buckets[k]]
  /\ Enqueue(target)
  /\ edges' = Append(edges, Edge(target))
  /\ UNCHANGED blocked
  /\ Resume

Walk ==
  \/ StartWalk \/ RefuseRoot \/ BlockRoot \/ FailRoot
  \/ PopSource \/ Exhaust
  \/ RefuseAttempt \/ BeginAttempt \/ Interrupt \/ FailAttempt
  \/ BlockAttempt \/ MatchVertex \/ RefuseVertex \/ StoreVertex

\* another thread cancels the control
Cancel ==
  /\ ~cancelled /\ cancelled' = TRUE
  /\ UNCHANGED <<limits, contents, search, cursor, pc, stop, progress>>

Next == Walk \/ Cancel

Spec == Init /\ [][Next]_vars

-----------------------------------------------------------------------------
(* IncompleteEquivalenceGraph::verify.                                     *)

Total(size) == FoldFunction(LAMBDA c, sum : size[c] + sum, 0, vertices)

\* an attempt that ended at a storage ceiling is counted and leaves no record
Unretained == IF stop.kind \in StorageStops /\ vertices # <<>> THEN 1 ELSE 0

RecordsMatch ==
  /\ \A n \in DOMAIN vertices : Admits(vertices[n])
  /\ total_terms = Total(Terms) /\ matrix_entries = Total(Entries)
  /\ completed_mutations = Len(edges) + Len(blocked) + Unretained

VerticesAreDistinct ==
  \A m, n \in DOMAIN vertices :
    m < n /\ Key(vertices[m]) = Key(vertices[n]) => ~Isomorphic(vertices[n], vertices[m])

\* mutation: an attempt outside the graph stays undetermined
Replay(record) ==
  IF record.source \in DOMAIN vertices /\ record.summand \in DOMAIN vertices[record.source]
  THEN Outcome(vertices[record.source], record.direction, record.summand)
  ELSE Undetermined

VerifyEdge(edge) ==
  /\ edge.target \in DOMAIN vertices
  /\ LET result == Replay(edge)
     IN  /\ IsVertex(result)
         /\ Key(result.value) = Key(vertices[edge.target])
         /\ Isomorphic(result.value, vertices[edge.target])

VerifyBlocked(record) ==
  LET result == Replay(record)
  IN  result.kind # "error" /\ ~IsVertex(result) /\ BlockedReason(result) = record.reason

VerifyRegularBlocker ==
  /\ stop.kind = "exhausted_frontier" /\ edges = <<>>
  /\ completed_mutations = 0 /\ total_terms = 0 /\ matrix_entries = 0
  /\ Start[limits.tilting] = "undetermined" /\ blocked = <<RootBlocker>>

Verify ==
  IF vertices = <<>> /\ blocked # <<>>
  THEN VerifyRegularBlocker
  ELSE /\ RecordsMatch /\ VerticesAreDistinct
       /\ \A n \in DOMAIN edges : VerifyEdge(edges[n])
       /\ \A n \in DOMAIN blocked : VerifyBlocked(blocked[n])

-----------------------------------------------------------------------------
(* Properties.                                                             *)

\* At every moment of the walk the stored vertices are pairwise different up to
\* isomorphism, although keys collide and a path decides the order of the
\* summands, and an edge ends at the vertex its mutation really gives
\* (equivalence_discovery.rs, IncompleteEquivalenceGraph).
GraphIsExact ==
  /\ \A m, n \in DOMAIN vertices : m # n => Class(vertices[m]) # Class(vertices[n])
  /\ \A n \in DOMAIN edges :
       LET result == Outcome(vertices[edges[n].source], edges[n].direction, edges[n].summand)
       IN  result.kind = "value" /\ Class(result.value) = Class(vertices[edges[n].target])

\* Every graph the walk returns, whichever limit, cancellation or blocker ended
\* it, passes its own verifier (a2_walk in equivalence_discovery/tests.rs).
ReturnedGraphVerifies == pc = "done" => Verify

\* The classes reachable from the regular complex: in every set that has its
\* class and is closed under the mutations between complexes the walk admits.
ClosedUnderMutation(S) ==
  /\ Class(Regular) \in S
  /\ \A c \in Complexes, direction \in Directions : Class(c) \in S =>
       \A i \in DOMAIN c : LET result == Outcome(c, direction, i)
                          IN  IsVertex(result) => Class(result.value) \in S

Reachable == {k \in Classes : \A S \in SUBSET Classes : ClosedUnderMutation(S) => k \in S}

Found == {Class(vertices[n]) : n \in DOMAIN vertices}

\* The claim of DiscoveryStop::ExhaustedFrontier: without an undetermined
\* blocker the vertices are exactly the complexes reachable from the regular
\* one; a walk that stops for another reason has found only reachable ones.
ExhaustedIsReachable ==
  pc = "done" =>
    /\ Found \subseteq Reachable
    /\ /\ stop.kind = "exhausted_frontier"
       /\ \A n \in DOMAIN blocked : blocked[n].reason # "undetermined"
       => Found = Reachable

PlaceOf(record) == Place(record.source, record.direction, record.summand)

Recorded == {PlaceOf(edges[n]) : n \in DOMAIN edges} \cup {PlaceOf(blocked[n]) : n \in DOMAIN blocked}

\* the first attempt the walk has not recorded
Position ==
  IF cursor # NoCursor THEN cursor
  ELSE Place(IF frontier = <<>> THEN Len(vertices) + 1 ELSE Head(frontier), "left", 1)

\* the order of the walk: by vertex, left before right, by summand
Earlier(a, b) ==
  \/ a.source < b.source
  \/ a.source = b.source /\ a.direction = "left" /\ b.direction = "right"
  \/ a.source = b.source /\ a.direction = b.direction /\ a.summand < b.summand

\* The walk goes through the attempts of the vertices in breadth-first order
\* and, wherever it is cut, has recorded each attempt before its position in
\* exactly one edge or blocker and no other (process_vertex, attempt).
EveryAttemptOnce ==
  vertices # <<>> =>
    /\ \A n \in DOMAIN vertices, direction \in Directions : \A i \in DOMAIN vertices[n] :
         Place(n, direction, i) \in Recorded <=> Earlier(Place(n, direction, i), Position)
    /\ \A m, n \in DOMAIN edges : m # n => PlaceOf(edges[m]) # PlaceOf(edges[n])
    /\ \A m, n \in DOMAIN blocked : m # n => PlaceOf(blocked[m]) # PlaceOf(blocked[n])
    /\ \A m \in DOMAIN edges, n \in DOMAIN blocked : PlaceOf(edges[m]) # PlaceOf(blocked[n])

=============================================================================
