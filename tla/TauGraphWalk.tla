---------------------------- MODULE TauGraphWalk ----------------------------
(***************************************************************************)
(* The breadth-first walk of the support tau-tilting quiver from (A, 0)    *)
(* under left mutation (taugraph/walk, verify.rs, contracts.rs): its four  *)
(* budgets, certifications that stay blocked, the registry of summands and *)
(* the closure witness that gates a closed outcome. Modules are classes up *)
(* to isomorphism; mutations are data of the algebra.                      *)
(***************************************************************************)
EXTENDS Integers, Sequences, FiniteSets, Functions, SequencesExt

CONSTANTS
  Algebras,  \* records, see the assumptions; left gives the target of a slot, {} in the Fac case
  Limits     \* the MutationGraphLimits a caller may pass

\* a basic pair: its indecomposable summands in slot order, its projective vertices
Pair(module, support) == [module |-> module, support |-> support]

\* the slots whose left mutation is the pair p
Arrows(a, p) ==
  UNION {{<<q, s>> : s \in {i \in DOMAIN q.module : a.left[q][i] = {p}}} : q \in DOMAIN a.left}

ASSUME AlgebraAssumption ==
  \A a \in Algebras :
    LET pairs == DOMAIN a.left IN
    /\ a.rank \in Nat
    /\ \A x \in DOMAIN a.dims : a.dims[x] \in [1 .. a.rank -> Nat]
    /\ a.regular \in pairs /\ a.regular.support = {}
    /\ \A p \in pairs :
         /\ p.module \in Seq(DOMAIN a.dims)
         /\ IsFiniteSet(p.support) /\ Len(p.module) + Cardinality(p.support) = a.rank
         /\ DOMAIN a.left[p] = DOMAIN p.module
         /\ \A s \in DOMAIN p.module :
              a.left[p][s] \subseteq pairs /\ \A q, r \in a.left[p][s] : q = r

\* What the closure argument takes from tau-tilting theory (taugraph.rs): (A, 0)
\* is the maximum of the order of the pairs, and for U < V a left mutation of V
\* is still above U or equal to it (Adachi, Iyama, Reiten, Theorem 2.35(b)).
ASSUME OrderAssumption ==
  \A a \in Algebras :
    LET pairs == DOMAIN a.left
        Below(u, v) == <<u, v>> \in a.order
    IN
    /\ \A u \in pairs : ~Below(u, u) /\ (u # a.regular => Below(u, a.regular))
    /\ \A u, v, w \in pairs : Below(u, v) /\ Below(v, w) => Below(u, w)
    /\ \A v \in pairs : \A s \in DOMAIN v.module : \A w \in a.left[v][s] : Below(w, v)
    /\ \A u, v \in pairs :
         Below(u, v) =>
           \E s \in DOMAIN v.module : \E w \in a.left[v][s] : u = w \/ Below(u, w)

\* The quiver is n-regular: a slot without a left mutation and a projective summand
\* have a right mutation, which is an arrow into the pair (n_regular in verify.rs).
ASSUME RegularityAssumption ==
  \A a \in Algebras :
    \A p \in DOMAIN a.left :
      Cardinality(Arrows(a, p)) =
        Cardinality({s \in DOMAIN p.module : a.left[p][s] = {}}) + Cardinality(p.support)

ASSUME LimitsAssumption ==
  Limits \subseteq [vertices : Nat, mutations : Nat, work : Nat, matrix : Nat]

VARIABLES
  algebra, limits,  \* of this run
  vertices,         \* pair, records of the decided slots, registry indices of the summands
  mutations,        \* edges: source, slot, target
  queue,            \* vertices not yet taken
  visiting,         \* the vertex taken from the queue and its next slot, or <<>>
  at,               \* vertex and slot of the diagnostics, slot 0 for None
  count,            \* total_slots, verified_slots, new_vertices, repeated_endpoints
  registry,         \* entries (index, class) and the next fresh index
  units,            \* of the ledger
  pc, stop

vars == <<algebra, limits, vertices, mutations, queue, visiting, at, count, registry, units, pc, stop>>

-----------------------------------------------------------------------------
(* Sizes and rates.                                                        *)

Total(f) == FoldFunction(+, 0, f)
Dims(module) ==
  [v \in 1 .. algebra.rank |-> Total([i \in DOMAIN module |-> algebra.dims[module[i]][v]])]
HomEntries(left, right) == Total([v \in 1 .. algebra.rank |-> left[v] * right[v]])

ScaleOf(module) ==
  LET entries == HomEntries(Dims(module), Dims(module)) IN IF entries = 0 THEN 1 ELSE entries

DecomposeUnits(n, scale) == 8 * n * n * n * scale
IsoUnits(n, scale) == DecomposeUnits(n, scale) + 16 * scale
TauUnits(scale) == 64 * scale + DecomposeUnits(1, scale)
IndecUnits(scale) == 8 * scale
VertexUnits(n, scale) == DecomposeUnits(n, scale) + n * IndecUnits(scale) + (n * n + 1) * scale
FingerprintUnits(n, scale) == 2 * n * algebra.rank * scale

FacUnits(scale) == scale
SlotUnits(n, scale) ==    \* of a left mutation
  FacUnits(scale) + VertexUnits(n - 1, scale) + DecomposeUnits(1, scale) + IndecUnits(scale)
    + VertexUnits(n, scale) + IsoUnits(n, scale)

-----------------------------------------------------------------------------
(* The registry and the vertices.                                          *)

\* candidates tested in order until the first that matches
Tested(candidates, matches) == {c \in candidates : \A m \in matches : c <= m}

\* mutant of Matches: the dimension vector alone decides
MatchesByDims(entries, x) == {k \in DOMAIN entries : algebra.dims[entries[k].class] = algebra.dims[x]}

Matches(entries, x) == {k \in DOMAIN entries : entries[k].class = x}

Least(S) == CHOOSE k \in S : \A m \in S : k <= m

\* the index of one summand: looked up, else the preferred one, else a fresh one
Resolve(acc, x) ==
  LET similar == {k \in DOMAIN acc.entries : algebra.dims[acc.entries[k].class] = algebra.dims[x]}
      matches == Matches(acc.entries, x)
      charged == acc.units + Cardinality(Tested(similar, matches)) * IsoUnits(1, ScaleOf(<<x>>))
      fresh   == acc.preferred = {}
      index   == IF matches # {} THEN acc.entries[Least(matches)].index
                 ELSE IF fresh THEN acc.next ELSE CHOOSE i \in acc.preferred : TRUE
      new     == matches = {}
  IN  [entries   |-> IF new THEN Append(acc.entries, [index |-> index, class |-> x]) ELSE acc.entries,
       next      |-> IF new /\ fresh THEN acc.next + 1 ELSE acc.next,
       preferred |-> IF new THEN {} ELSE acc.preferred,
       indices   |-> Append(acc.indices, index),
       units     |-> charged]

ResolveIndices(reg, preferred, spent, module) ==
  FoldLeft(Resolve, [entries |-> reg.entries, next |-> reg.next, preferred |-> preferred,
                     indices |-> <<>>, units |-> spent], module)

\* find_vertex: a bucket of equal fingerprints, each candidate tested in turn
Bucket(p) == {v \in DOMAIN vertices : algebra.fingerprint[vertices[v].pair] = algebra.fingerprint[p]}

\* mutant of Same: a fingerprint match counts as an isomorphism
SameFingerprint(p) == Bucket(p)

Same(p) == {v \in Bucket(p) : vertices[v].pair = p}

FindUnits(p) ==
  LET n == Len(p.module)
      scale == ScaleOf(p.module)
  IN  FingerprintUnits(n, scale) + Cardinality(Tested(Bucket(p), Same(p))) * IsoUnits(n, scale)

Blocked(where) == where \in algebra.blocked

-----------------------------------------------------------------------------
(* Stops.                                                                  *)

Stop(reason) == pc' = "incomplete" /\ stop' = reason

\* mutant of OverWorkBudget: what a slot charges beyond its reservation is not checked
NeverOverWorkBudget(spent) == spent < 0

OverWorkBudget(spent) == spent > limits.work

\* the next slot of vertex v, or none when s passes the last one
Slot(v, s, n) == IF s <= n THEN <<v, s>> ELSE <<>>

\* after a slot that did not stop the walk
NextSlot(v, s, n, spent) ==
  /\ units' = spent
  /\ IF OverWorkBudget(spent)
     THEN Stop("work") /\ at' = [vertex |-> v, slot |-> s] /\ UNCHANGED visiting
     ELSE /\ visiting' = Slot(v, s + 1, n)
          /\ at' = [vertex |-> v, slot |-> IF s < n THEN s ELSE 0]
          /\ UNCHANGED <<pc, stop>>

\* push_vertex of pair p, after spent units, with the indices res of its summands
Pushed(p, res) == Append(vertices, [pair |-> p, slots |-> <<>>, indices |-> res.indices])
ClassifyUnits(p, spent) ==
  spent + Len(p.module) * TauUnits(ScaleOf(p.module))
PushUnits(p, spent) ==
  ClassifyUnits(p, spent) + FingerprintUnits(Len(p.module), ScaleOf(p.module))
ResolvePushed(reg, preferred, spent, p) ==
  ResolveIndices(reg, preferred, spent + VertexUnits(Len(p.module), ScaleOf(p.module)), p.module)
Registered(res) == [entries |-> res.entries, next |-> res.next]

-----------------------------------------------------------------------------
(* The walk.                                                               *)

Init ==
  /\ algebra \in Algebras /\ limits \in Limits
  /\ vertices = <<>> /\ mutations = <<>> /\ queue = <<>> /\ visiting = <<>>
  /\ at = [vertex |-> 1, slot |-> 0]
  /\ count = [slots |-> 0, verified |-> 0, new |-> 0, repeated |-> 0]
  /\ registry = [entries |-> <<>>, next |-> 1]
  /\ units = 0 /\ pc = "root" /\ stop = "none"

\* regular_parts fails with an error; a blocked classification stops the walk
PushRoot ==
  LET root == algebra.regular
      res  == ResolvePushed(registry, {}, 0, root)
  IN
  /\ pc = "root"
  /\ IF Blocked(<<"decompose", root>>) THEN
       /\ pc' = "error" /\ stop' = "blocked"
       /\ UNCHANGED <<vertices, queue, count, registry, units>>
     ELSE IF Blocked(<<"classify", root>>) THEN
       /\ Stop("blocked") /\ registry' = Registered(res)
       /\ units' \in {res.units + k * TauUnits(ScaleOf(root.module)) : k \in 0 .. Len(root.module)}
       /\ UNCHANGED <<vertices, queue, count>>
     ELSE
       /\ pc' = "walk" /\ registry' = Registered(res)
       /\ vertices' = Pushed(root, res) /\ queue' = <<1>>
       /\ count' = [count EXCEPT !.slots = @ + Len(root.module)]
       /\ units' = PushUnits(root, res.units)
       /\ UNCHANGED stop
  /\ UNCHANGED <<algebra, limits, mutations, visiting, at>>

\* mutant of TakenFrom: the vertex found last is walked first
TakenFromBack(q) == [vertex |-> q[Len(q)], rest |-> SubSeq(q, 1, Len(q) - 1)]

TakenFrom(q) == [vertex |-> q[1], rest |-> Tail(q)]

TakeVertex ==
  LET taken == TakenFrom(queue)
      n == Len(vertices[taken.vertex].pair.module)
  IN
  /\ pc = "walk" /\ visiting = <<>> /\ queue # <<>>
  /\ queue' = taken.rest
  /\ visiting' = Slot(taken.vertex, 1, n)
  /\ at' = IF n = 0 THEN [at EXCEPT !.slot = 0] ELSE at
  /\ UNCHANGED <<algebra, limits, vertices, mutations, count, registry, units, pc, stop>>

V == visiting[1]
S == visiting[2]
Source == vertices[V].pair
N == Len(Source.module)
Scale == ScaleOf(Source.module)
HasLeftMutation == algebra.left[Source][S] # {}
Outcome == CHOOSE p \in algebra.left[Source][S] : TRUE

FacSystemFits ==
  HomEntries(Dims(RemoveAt(Source.module, S)), algebra.dims[Source.module[S]]) <= limits.matrix
WouldExceed == units + SlotUnits(N, Scale) > limits.work

StopBeforeSlot ==
  /\ pc = "walk" /\ visiting # <<>>
  /\ at' = [vertex |-> V, slot |-> S]
  /\ \/ ~FacSystemFits /\ Stop("matrix")
     \/ FacSystemFits /\ WouldExceed /\ Stop("work")
  /\ UNCHANGED <<algebra, limits, vertices, mutations, queue, visiting, count, registry, units>>

Prepared == pc = "walk" /\ visiting # <<>> /\ FacSystemFits /\ ~WouldExceed

\* prepare_slot spends an index on every slot it admits
Spent(reg) == [reg EXCEPT !.next = @ + 1]

BlockSlot ==
  /\ Prepared /\ HasLeftMutation /\ Blocked(<<"slot", Source, S>>)
  /\ registry' = Spent(registry)
  /\ \E misses \in 0 .. 1 : units' = units + misses * TauUnits(Scale)
  /\ at' = [vertex |-> V, slot |-> S] /\ Stop("blocked")
  /\ UNCHANGED <<algebra, limits, vertices, mutations, queue, visiting, count>>

RecordNoLeftMutation ==
  /\ Prepared /\ ~HasLeftMutation
  /\ registry' = Spent(registry)
  /\ vertices' = [vertices EXCEPT ![V].slots = Append(@, {})]
  /\ count' = [count EXCEPT !.verified = @ + 1]
  /\ NextSlot(V, S, N, units + FacUnits(Scale))
  /\ UNCHANGED <<algebra, limits, mutations, queue>>

Mutated == Prepared /\ HasLeftMutation /\ ~Blocked(<<"slot", Source, S>>)

\* a summand replaced by a module costs the translate of the new one
Replaced == Len(Outcome.module) = N
MutationUnits == units + (IF Replaced THEN TauUnits(Scale) ELSE 0) + SlotUnits(N, Scale)

StopAtMutations ==
  /\ Mutated /\ Len(mutations) >= limits.mutations
  /\ registry' = Spent(registry) /\ units' = MutationUnits
  /\ at' = [vertex |-> V, slot |-> S] /\ Stop("mutations")
  /\ UNCHANGED <<algebra, limits, vertices, mutations, queue, visiting, count>>

Endpoint == Mutated /\ Len(mutations) < limits.mutations

Edge(target) == Append(mutations, [source |-> V, slot |-> S, target |-> target])

RecordRepeatedEndpoint ==
  /\ Endpoint /\ Same(Outcome) # {}
  /\ registry' = Spent(registry)
  /\ mutations' = Edge(Least(Same(Outcome)))
  /\ vertices' = [vertices EXCEPT ![V].slots = Append(@, {Len(mutations) + 1})]
  /\ count' = [count EXCEPT !.verified = @ + 1, !.repeated = @ + 1]
  /\ NextSlot(V, S, N, MutationUnits + FindUnits(Outcome))
  /\ UNCHANGED <<algebra, limits, queue>>

StopAtVertices ==
  /\ Endpoint /\ Same(Outcome) = {} /\ Len(vertices) >= limits.vertices
  /\ registry' = Spent(registry) /\ units' = MutationUnits + FindUnits(Outcome)
  /\ at' = [vertex |-> V, slot |-> S] /\ Stop("vertices")
  /\ UNCHANGED <<algebra, limits, vertices, mutations, queue, visiting, count>>

Rebuilt == Endpoint /\ Same(Outcome) = {} /\ Len(vertices) < limits.vertices

\* BasicDecomposition::new of the target: every failure leaves as an error
FailRebuild ==
  /\ Rebuilt /\ Blocked(<<"decompose", Outcome>>)
  /\ registry' = Spent(registry) /\ units' = MutationUnits + FindUnits(Outcome)
  /\ at' = [vertex |-> V, slot |-> S] /\ pc' = "error" /\ stop' = "blocked"
  /\ UNCHANGED <<algebra, limits, vertices, mutations, queue, visiting, count>>

\* the index already spent on a replacement is preferred for it
Resolved ==
  ResolvePushed(Spent(registry), IF Replaced THEN {registry.next} ELSE {},
                MutationUnits + FindUnits(Outcome), Outcome)

BlockVertex ==
  /\ Rebuilt /\ ~Blocked(<<"decompose", Outcome>>) /\ Blocked(<<"classify", Outcome>>)
  /\ registry' = Registered(Resolved)
  /\ units' \in {Resolved.units + k * TauUnits(ScaleOf(Outcome.module)) : k \in 0 .. Len(Outcome.module)}
  /\ at' = [vertex |-> V, slot |-> S] /\ Stop("blocked")
  /\ UNCHANGED <<algebra, limits, vertices, mutations, queue, visiting, count>>

RecordNewVertex ==
  LET target == Len(vertices) + 1
      n == Len(Outcome.module)
  IN
  /\ Rebuilt /\ ~Blocked(<<"decompose", Outcome>>) /\ ~Blocked(<<"classify", Outcome>>)
  /\ registry' = Registered(Resolved)
  /\ mutations' = Edge(target)
  /\ vertices' = [Pushed(Outcome, Resolved) EXCEPT ![V].slots = Append(@, {Len(mutations) + 1})]
  /\ queue' = Append(queue, target)
  /\ count' = [count EXCEPT !.slots = @ + n, !.new = @ + 1, !.verified = @ + 1]
  /\ NextSlot(V, S, N, PushUnits(Outcome, Resolved.units) + IsoUnits(n, ScaleOf(Outcome.module)))
  /\ UNCHANGED <<algebra, limits>>

-----------------------------------------------------------------------------
(* The closure witness.                                                    *)

Undecided(v) == Len(vertices[v].pair.module) - Len(vertices[v].slots)
OutSlots(v) == {s \in DOMAIN vertices[v].slots : vertices[v].slots[s] # {}}
Incoming(v) == {e \in DOMAIN mutations : mutations[e].target = v}

\* each stored mutation is the record of exactly one slot, and of its own
SlotsResolved ==
  /\ \A v \in DOMAIN vertices :
       /\ Undecided(v) = 0
       /\ \A s \in OutSlots(v) :
            \A e \in vertices[v].slots[s] :
              mutations[e].source = v /\ mutations[e].slot = s /\ mutations[e].target \in DOMAIN vertices
       /\ \A s \in DOMAIN vertices[v].slots \ OutSlots(v) : algebra.left[vertices[v].pair][s] = {}
  /\ \A e \in DOMAIN mutations : \E v \in DOMAIN vertices : \E s \in OutSlots(v) : e \in vertices[v].slots[s]

EndpointsBound ==
  \A e \in DOMAIN mutations :
    algebra.left[vertices[mutations[e].source].pair][mutations[e].slot] = {vertices[mutations[e].target].pair}

Connected ==
  \A R \in SUBSET DOMAIN vertices :
    1 \in R /\ (\A e \in DOMAIN mutations : mutations[e].source \in R => mutations[e].target \in R)
      => R = DOMAIN vertices

NRegular ==
  \A v \in DOMAIN vertices :
    /\ Cardinality(Incoming(v)) =
         Len(vertices[v].slots) - Cardinality(OutSlots(v)) + Cardinality(vertices[v].pair.support)
    /\ Cardinality(OutSlots(v)) + Cardinality(Incoming(v)) = algebra.rank

Verify ==
  /\ \A v, w \in DOMAIN vertices : v # w => vertices[v].pair # vertices[w].pair
  /\ vertices # <<>> /\ vertices[1].pair = algebra.regular
  /\ SlotsResolved /\ EndpointsBound /\ Connected /\ NRegular

Close ==
  /\ pc = "walk" /\ visiting = <<>> /\ queue = <<>>
  /\ IF OverWorkBudget(units) THEN Stop("work")
     ELSE pc' = (IF Verify THEN "closed" ELSE "defect") /\ UNCHANGED stop
  /\ UNCHANGED <<algebra, limits, vertices, mutations, queue, visiting, at, count, registry, units>>

Next ==
  \/ PushRoot \/ TakeVertex \/ StopBeforeSlot \/ BlockSlot \/ RecordNoLeftMutation
  \/ StopAtMutations \/ RecordRepeatedEndpoint \/ StopAtVertices
  \/ FailRebuild \/ BlockVertex \/ RecordNewVertex \/ Close

Spec == Init /\ [][Next]_vars

-----------------------------------------------------------------------------
(* Properties.                                                             *)

Pairs == {vertices[v].pair : v \in DOMAIN vertices}

LeftClosed == \A p \in Pairs : UNION Range(algebra.left[p]) \subseteq Pairs

\* A closed outcome lists every support tau-tilting pair once, and it stayed
\* inside each budget of the caller, the charges after the last slot included.
\* The root is not counted against the vertices: a budget of none still closes
\* over the algebra without vertices, and over no other.
ClosedIsComplete ==
  pc = "closed" =>
    /\ Pairs = DOMAIN algebra.left /\ Len(vertices) = Cardinality(Pairs)
    /\ algebra.rank > 0 => Len(vertices) <= limits.vertices
    /\ Len(mutations) <= limits.mutations /\ units <= limits.work

\* The closure recheck of a drained walk never fails, whatever the order of
\* discovery and the collisions of fingerprints (close in verify.rs).
NoDefect == pc # "defect"

\* The diagnostics of a stopped walk describe its partial graph: open_slots are
\* the undecided slots, they lie at the vertex of the stop and in the frontier
\* (every earlier vertex is decided: the walk is breadth first), each edge is
\* a new vertex or a repeated endpoint, and every vertex but the root has one.
DiagnosticsAreTrue ==
  pc = "incomplete" /\ vertices # <<>> =>
    /\ count.slots - count.verified = Total([v \in DOMAIN vertices |-> Undecided(v)])
    /\ \A v \in DOMAIN vertices :
         /\ v < at.vertex => Undecided(v) = 0
         /\ v > at.vertex => vertices[v].slots = <<>> /\ \E i \in DOMAIN queue : queue[i] = v
    /\ Len(queue) = Len(vertices) - at.vertex
    /\ count.new + count.repeated = Len(mutations)
    /\ count.new + 1 = Len(vertices)
    /\ \A e \in DOMAIN mutations : vertices[mutations[e].source].slots[mutations[e].slot] = {e}

\* An index names one class of summands in every vertex, and a class keeps its
\* index: rebuilt summands are recovered by isomorphism, and the index spent
\* on a replacement is the one its class gets (SummandRegistry).
IndicesAreStable ==
  \A v, w \in DOMAIN vertices :
    \A i \in DOMAIN vertices[v].indices, j \in DOMAIN vertices[w].indices :
      vertices[v].indices[i] = vertices[w].indices[j] <=>
        vertices[v].pair.module[i] = vertices[w].pair.module[j]

\* The module documentation: a truncated set is never accidentally closed, at
\* the moment of truncation the deepest vertex has an unvisited slot. It is
\* asked here of a walk that followed an edge.
TruncatedIsNotClosed == pc = "incomplete" /\ mutations # <<>> => ~LeftClosed

\* The documentation of support_tau_tilting_graph: a blocked certification is
\* no error, it comes back as an incomplete outcome with the partial graph.
BlockedIsNoError == stop = "blocked" => pc # "error"

=============================================================================
