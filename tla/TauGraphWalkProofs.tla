-------------------------- MODULE TauGraphWalkProofs --------------------------
(***************************************************************************)
(* Proofs about the walk of TauGraphWalk: what the diagnostics of a stop   *)
(* say, the stability of the summand indices, and the closure argument of  *)
(* the documentation: a drained walk is finite and left closed, so by the  *)
(* order of the pairs it is complete, and its recheck cannot fail.         *)
(***************************************************************************)
EXTENDS TauGraphWalk, ProofLibrary, FiniteSetTheorems, TLAPS

VertexType == [pair : DOMAIN algebra.left, slots : Seq(SUBSET Nat), indices : Seq(Nat)]
EntryType == [index : Nat, class : DOMAIN algebra.dims]

TypeOK ==
  /\ algebra \in Algebras /\ limits \in Limits
  /\ vertices \in Seq(VertexType)
  /\ mutations \in Seq([source : Nat, slot : Nat, target : Nat])
  /\ queue \in Seq(Nat)
  /\ visiting \in {<<>>} \cup (Nat \X Nat)
  /\ at \in [vertex : Nat, slot : Nat]
  /\ count \in [slots : Nat, verified : Nat, new : Nat, repeated : Nat]
  /\ registry \in [entries : Seq(EntryType), next : Nat]
  /\ units \in Nat
  /\ pc \in {"root", "walk", "incomplete", "closed", "defect", "error"}

\* the vertex taken last: the queue holds the later ones, in order
Current == Len(vertices) - Len(queue)

\* Breadth first: the vertices before the current one are decided, those after
\* it untouched, and a stop is at the current one.  A root that exceeds the
\* budget of work is found out at its first slot or when the queue is empty.
FrontierInv ==
  /\ Len(queue) <= Len(vertices) /\ \A i \in DOMAIN queue : queue[i] = Current + i
  /\ \A v \in DOMAIN vertices :
       /\ Undecided(v) >= 0
       /\ v < Current => Undecided(v) = 0
       /\ v > Current => vertices[v].slots = <<>>
  /\ pc = "root" => vertices = <<>> /\ queue = <<>> /\ visiting = <<>> /\ at.vertex = 1
  /\ pc \in {"walk", "closed", "defect"} => vertices # <<>>
  /\ pc \in {"walk", "closed", "defect"} /\ visiting = <<>> /\ Current > 0 => Undecided(Current) = 0
  /\ pc = "walk" /\ visiting # <<>> =>
       /\ V = Current /\ V > 0
       /\ S = Len(vertices[V].slots) + 1 /\ Undecided(V) > 0
  /\ pc = "walk" /\ units > limits.work => Len(vertices) = 1 /\ at.vertex = 1
  /\ pc = "incomplete" /\ vertices # <<>> => at.vertex = Current
  /\ pc \in {"closed", "defect"} => visiting = <<>> /\ queue = <<>> /\ units <= limits.work

OpenSlots(vs) == Total([v \in DOMAIN vs |-> Len(vs[v].pair.module) - Len(vs[v].slots)])

CountInv ==
  /\ count.slots = count.verified + OpenSlots(vertices)
  /\ count.new + count.repeated = Len(mutations)
  /\ vertices # <<>> => count.new + 1 = Len(vertices)
  /\ vertices = <<>> => mutations = <<>>
  /\ Len(mutations) <= limits.mutations
  /\ Len(vertices) <= 1 \/ Len(vertices) <= limits.vertices

\* an edge is the record of its slot and leads where the algebra says
EdgesInv ==
  \A e \in DOMAIN mutations :
    /\ mutations[e].source \in DOMAIN vertices /\ mutations[e].target \in DOMAIN vertices
    /\ mutations[e].slot \in DOMAIN vertices[mutations[e].source].slots
    /\ vertices[mutations[e].source].slots[mutations[e].slot] = {e}
    /\ algebra.left[vertices[mutations[e].source].pair][mutations[e].slot]
         = {vertices[mutations[e].target].pair}

\* a record is one edge of its slot, or the slot has no left mutation
Recorded(v, s) ==
  \/ vertices[v].slots[s] = {} /\ algebra.left[vertices[v].pair][s] = {}
  \/ \E e \in DOMAIN mutations :
       vertices[v].slots[s] = {e} /\ mutations[e].source = v /\ mutations[e].slot = s

RecordsInv ==
  \A v \in DOMAIN vertices : \A s \in DOMAIN vertices[v].slots : Recorded(v, s)

\* a pair is one vertex, and an edge from an earlier vertex found it
PairsInv ==
  /\ \A v, w \in DOMAIN vertices : vertices[v].pair = vertices[w].pair => v = w
  /\ vertices # <<>> => vertices[1].pair = algebra.regular
  /\ \A v \in DOMAIN vertices :
       v > 1 => \E e \in DOMAIN mutations : mutations[e].target = v /\ mutations[e].source < v

GraphInv == EdgesInv /\ RecordsInv /\ PairsInv

\* a class has one entry and an index one class; the next index is fresh
OneIndexEach(entries, next) ==
  /\ \A k \in DOMAIN entries : entries[k].index < next
  /\ \A k, m \in DOMAIN entries :
       entries[k].index = entries[m].index \/ entries[k].class = entries[m].class => k = m

\* the indices of the summands of a module are those the entries give its classes
Names(indices, module, entries) ==
  /\ DOMAIN indices = DOMAIN module
  /\ \A i \in DOMAIN module :
       \E k \in DOMAIN entries : entries[k] = [index |-> indices[i], class |-> module[i]]

RegistryInv ==
  /\ OneIndexEach(registry.entries, registry.next)
  /\ \A v \in DOMAIN vertices :
       Names(vertices[v].indices, vertices[v].pair.module, registry.entries)

WalkInv == TypeOK /\ FrontierInv /\ CountInv /\ GraphInv /\ RegistryInv

-----------------------------------------------------------------------------
(* Rates are natural numbers.                                              *)

\* The totals of the model are the sums of ProofLibrary.
LEMMA TotalIsSum ==
  ASSUME NEW D, IsFiniteSet(D), NEW w \in [D -> Nat]
  PROVE  Total(w) = SumOf(w) /\ Total(w) \in Nat
<1>1. Total(w) = (CHOOSE g : Sums(g, DOMAIN w, w))[DOMAIN w]
  <2>1. Total(w) = (CHOOSE g : g = [s \in SUBSET DOMAIN w |->
                       IF s = {} THEN 0
                       ELSE w[CHOOSE x \in s : TRUE] + g[s \ {CHOOSE x \in s : TRUE}]])[DOMAIN w]
    BY Zenon DEF Total, FoldFunction, FoldFunctionOnSet, MapThenFoldSet
  <2> QED BY <2>1, Zenon DEF Sums, Pick
<1>2. Total(w) = SumOf(w)
  BY <1>1, Zenon DEF SumOf
<1>3. SumOf(w) \in Nat
  BY SumType
<1> QED BY <1>2, <1>3

\* A product of naturals is one.
LEMMA ProductType ==
  ASSUME NEW m \in Nat, NEW n \in Nat
  PROVE  m * n \in Nat
OBVIOUS

\* The scale of a module is a natural.
LEMMA ScaleType ==
  ASSUME algebra \in Algebras, NEW module \in Seq(DOMAIN algebra.dims)
  PROVE  ScaleOf(module) \in Nat
<1>1. algebra.rank \in Nat /\ \A x \in DOMAIN algebra.dims : algebra.dims[x] \in [1 .. algebra.rank -> Nat]
  BY AlgebraAssumption
<1>2. PICK r \in Nat : r = algebra.rank
  BY <1>1
<1>3. IsFiniteSet(1 .. r)
  BY FS_Interval
<1>4. ASSUME NEW v \in 1 .. r
      PROVE  Total([i \in DOMAIN module |-> algebra.dims[module[i]][v]]) \in Nat
  <2> DEFINE D == DOMAIN module
             w == [i \in D |-> algebra.dims[module[i]][v]]
  <2>1. IsFiniteSet(D)
    BY FS_Interval
  <2>2. w \in [D -> Nat]
    <3> SUFFICES ASSUME NEW i \in D PROVE algebra.dims[module[i]][v] \in Nat
      OBVIOUS
    <3>1. module[i] \in DOMAIN algebra.dims
      OBVIOUS
    <3> QED BY <1>1, <1>2, <3>1
  <2> HIDE DEF D, w
  <2>3. Total(w) \in Nat
    BY <2>1, <2>2, TotalIsSum
  <2> QED BY <2>3 DEF D, w
<1>5. Dims(module) \in [1 .. r -> Nat]
  BY <1>2, <1>4 DEF Dims
<1>6. PICK dims \in [1 .. r -> Nat] : dims = Dims(module)
  BY <1>5
<1>7. HomEntries(dims, dims) \in Nat
  <2> DEFINE w == [v \in 1 .. r |-> dims[v] * dims[v]]
  <2>1. w \in [1 .. r -> Nat]
    BY <1>6, ProductType
  <2> HIDE DEF w
  <2>2. Total(w) \in Nat
    BY <1>3, <2>1, TotalIsSum
  <2> QED BY <1>2, <2>2 DEF HomEntries, w
<1> QED BY <1>6, <1>7 DEF ScaleOf

\* So are the rates of work.
LEMMA RatesType ==
  ASSUME algebra \in Algebras, NEW n \in Nat, NEW scale \in Nat
  PROVE  /\ DecomposeUnits(n, scale) \in Nat /\ IsoUnits(n, scale) \in Nat
         /\ TauUnits(scale) \in Nat /\ IndecUnits(scale) \in Nat
         /\ VertexUnits(n, scale) \in Nat /\ FingerprintUnits(n, scale) \in Nat
         /\ FacUnits(scale) \in Nat
<1>1. ASSUME NEW m \in Nat PROVE DecomposeUnits(m, scale) \in Nat
  <2>1. 8 * m * m \in Nat
    BY ProductType
  <2>2. 8 * m * m * m \in Nat
    BY <2>1, ProductType
  <2> QED BY <2>2, ProductType DEF DecomposeUnits
<1>2. IsoUnits(n, scale) \in Nat /\ TauUnits(scale) \in Nat /\ IndecUnits(scale) \in Nat
  BY <1>1, ProductType DEF IsoUnits, TauUnits, IndecUnits
<1>3. VertexUnits(n, scale) \in Nat
  <2>1. n * IndecUnits(scale) \in Nat /\ n * n + 1 \in Nat
    BY <1>2, ProductType
  <2>2. (n * n + 1) * scale \in Nat
    BY <2>1, ProductType
  <2> QED BY <1>1, <2>1, <2>2 DEF VertexUnits
<1>4. FingerprintUnits(n, scale) \in Nat
  <2>1. algebra.rank \in Nat
    BY AlgebraAssumption
  <2>2. 2 * n * algebra.rank \in Nat
    BY <2>1, ProductType
  <2> QED BY <2>2, ProductType DEF FingerprintUnits
<1> QED BY <1>1, <1>2, <1>3, <1>4 DEF FacUnits

\* So is the work of a slot.
LEMMA SlotUnitsType ==
  ASSUME algebra \in Algebras, NEW n \in Nat \ {0}, NEW scale \in Nat
  PROVE  SlotUnits(n, scale) \in Nat
<1>1. n - 1 \in Nat /\ n \in Nat /\ 1 \in Nat
  OBVIOUS
<1>2. VertexUnits(n - 1, scale) \in Nat
  BY <1>1, RatesType
<1>3. VertexUnits(n, scale) \in Nat /\ IsoUnits(n, scale) \in Nat
  BY <1>1, RatesType
<1>4. DecomposeUnits(1, scale) \in Nat /\ IndecUnits(scale) \in Nat /\ FacUnits(scale) \in Nat
  BY <1>1, RatesType
<1> QED BY <1>2, <1>3, <1>4 DEF SlotUnits

-----------------------------------------------------------------------------
(* The registry: resolving the summands of a module.                       *)

Candidates ==
  [entries : Seq(EntryType), next : Nat, preferred : SUBSET Nat, indices : Seq(Nat), units : Nat]

Keeps(old, new) == \A k \in DOMAIN old : k \in DOMAIN new /\ new[k] = old[k]

\* a resolution under way: one index each, the preferred one still unused
Sound(acc) ==
  /\ OneIndexEach(acc.entries, acc.next)
  /\ \A i \in acc.preferred :
       /\ i < acc.next
       /\ \A k \in DOMAIN acc.entries : acc.entries[k].index # i
  /\ \A i, j \in acc.preferred : i = j

\* one more index, the one of the class x
Indexed(old, new, x) ==
  \E i \in Nat : /\ new.indices = Append(old.indices, i)
                 /\ \E k \in DOMAIN new.entries : new.entries[k] = [index |-> i, class |-> x]

\* A list of one element.
LEMMA OneElement ==
  ASSUME NEW T, NEW x \in T
  PROVE  <<x>> \in Seq(T)
OBVIOUS

\* The fields of an entry of the registry, one by one.
LEMMA EntryFields ==
  ASSUME NEW entries \in Seq(EntryType), NEW k \in DOMAIN entries
  PROVE  /\ entries[k] \in EntryType /\ entries[k].index \in Nat
         /\ entries[k] = [index |-> entries[k].index, class |-> entries[k].class]
<1>1. entries[k] \in EntryType
  OBVIOUS
<1> QED BY <1>1 DEF EntryType

\* One summand: it gets the index of its class, or an index no class has.
LEMMA ResolveStep ==
  ASSUME algebra \in Algebras, NEW acc \in Candidates, Sound(acc), NEW x \in DOMAIN algebra.dims,
         NEW new, new = Resolve(acc, x)
  PROVE  /\ new \in Candidates /\ Sound(new)
         /\ Keeps(acc.entries, new.entries)
         /\ Indexed(acc, new, x)
<1> DEFINE similar == {k \in DOMAIN acc.entries : algebra.dims[acc.entries[k].class] = algebra.dims[x]}
<1>0. PICK matches, charged, fresh, index :
        /\ matches = Matches(acc.entries, x)
        /\ charged = acc.units + Cardinality(Tested(similar, matches)) * IsoUnits(1, ScaleOf(<<x>>))
        /\ fresh = (acc.preferred = {})
        /\ index = (IF matches # {} THEN acc.entries[Least(matches)].index
                    ELSE IF fresh THEN acc.next ELSE CHOOSE i \in acc.preferred : TRUE)
  OBVIOUS
<1>1. new = [entries   |-> IF matches = {} THEN Append(acc.entries, [index |-> index, class |-> x])
                           ELSE acc.entries,
             next      |-> IF matches = {} /\ fresh THEN acc.next + 1 ELSE acc.next,
             preferred |-> IF matches = {} THEN {} ELSE acc.preferred,
             indices   |-> Append(acc.indices, index),
             units     |-> charged]
  BY <1>0, Zenon DEF Resolve
<1>2. charged \in Nat
  <2>1. <<x>> \in Seq(DOMAIN algebra.dims)
    BY OneElement
  <2>2. ScaleOf(<<x>>) \in Nat
    BY <2>1, ScaleType
  <2>3. IsoUnits(1, ScaleOf(<<x>>)) \in Nat
    <3>1. 1 \in Nat
      OBVIOUS
    <3> QED BY <2>2, <3>1, RatesType
  <2>4. Cardinality(Tested(similar, matches)) \in Nat
    <3>1. IsFiniteSet(1 .. Len(acc.entries)) /\ DOMAIN acc.entries = 1 .. Len(acc.entries)
      BY FS_Interval DEF Candidates
    <3>2. Tested(similar, matches) \subseteq DOMAIN acc.entries
      BY DEF Tested
    <3> QED BY <3>1, <3>2, FS_Subset, FS_CardinalityType
  <2>5. Cardinality(Tested(similar, matches)) * IsoUnits(1, ScaleOf(<<x>>)) \in Nat
    BY <2>3, <2>4, ProductType
  <2>6. acc.units \in Nat
    BY DEF Candidates
  <2> QED BY <1>0, <2>5, <2>6
<1>3. /\ acc.entries \in Seq(EntryType) /\ acc.next \in Nat /\ acc.preferred \in SUBSET Nat
      /\ acc.indices \in Seq(Nat)
  BY DEF Candidates
<1>4. CASE matches # {}
  <2>1. PICK k \in DOMAIN acc.entries : acc.entries[k].class = x
    BY <1>0, <1>4 DEF Matches
  <2>2. matches = {k}
    BY <1>0, <2>1 DEF Matches, Sound, OneIndexEach
  <2>3. Least(matches) = k
    <3>1. k \in Nat
      BY <1>3
    <3> QED BY <2>2, <3>1 DEF Least
  <2>4. index = acc.entries[k].index
    BY <1>0, <1>4, <2>3
  <2>5. acc.entries[k] = [index |-> index, class |-> x] /\ index \in Nat
    BY <1>3, <2>1, <2>4, EntryFields
  <2>6. /\ new.entries = acc.entries /\ new.next = acc.next /\ new.preferred = acc.preferred
        /\ new.indices = Append(acc.indices, index) /\ new.units = charged
    BY <1>1, <1>4
  <2>7. new \in Candidates
    <3>1. Append(acc.indices, index) \in Seq(Nat)
      BY <1>3, <2>5
    <3> QED BY <1>1, <1>2, <1>3, <1>4, <3>1 DEF Candidates
  <2>8. Sound(new)
    BY <2>6 DEF Sound
  <2> QED BY <2>1, <2>5, <2>6, <2>7, <2>8 DEF Keeps, Indexed
<1>5. CASE matches = {}
  <2>1. /\ index \in Nat /\ (fresh => index = acc.next) /\ (~fresh => index \in acc.preferred)
        /\ \A k \in DOMAIN acc.entries : acc.entries[k].index # index
    <3>1. CASE fresh
      <4>1. index = acc.next
        BY <1>0, <1>5, <3>1
      <4>2. \A k \in DOMAIN acc.entries : acc.entries[k].index < acc.next /\ acc.entries[k].index \in Nat
        BY <1>3, EntryFields DEF Sound, OneIndexEach
      <4> QED BY <1>3, <3>1, <4>1, <4>2
    <3>2. CASE ~fresh
      <4>1. index \in acc.preferred
        BY <1>0, <1>5, <3>2
      <4> QED BY <1>0, <1>3, <3>2, <4>1 DEF Sound
    <3> QED BY <3>1, <3>2
  <2> DEFINE entry == [index |-> index, class |-> x]
  <2>2. /\ new.entries = Append(acc.entries, entry) /\ new.preferred = {}
        /\ new.next = (IF fresh THEN acc.next + 1 ELSE acc.next)
        /\ new.indices = Append(acc.indices, index) /\ new.units = charged
    BY <1>1, <1>5
  <2>3. entry \in EntryType
    BY <2>1 DEF EntryType
  <2>4. entry.index = index /\ entry.class = x
    OBVIOUS
  <2> HIDE DEF entry
  <2>5. PICK n \in Nat : n = Len(acc.entries) + 1
    BY <1>3
  <2>6. /\ DOMAIN new.entries = 1 .. n /\ DOMAIN acc.entries = 1 .. (n - 1)
        /\ new.entries[n] = entry
        /\ \A k \in 1 .. (n - 1) : new.entries[k] = acc.entries[k]
    BY <1>3, <2>2, <2>3, <2>5
  <2>7. new \in Candidates
    <3>1. Append(acc.indices, index) \in Seq(Nat) /\ Append(acc.entries, entry) \in Seq(EntryType)
      BY <1>3, <2>1, <2>3
    <3> QED BY <1>1, <1>2, <1>3, <1>5, <3>1 DEF Candidates, entry
  <2>8. OneIndexEach(new.entries, new.next)
    <3>1. ASSUME NEW k \in DOMAIN new.entries PROVE new.entries[k].index < new.next
      <4>1. CASE k = n
        <5>1. index < new.next
          BY <1>3, <2>1, <2>2 DEF Sound
        <5> QED BY <2>4, <2>6, <4>1, <5>1
      <4>2. CASE k # n
        <5>1. k \in DOMAIN acc.entries /\ new.entries[k] = acc.entries[k]
          BY <2>6, <4>2
        <5>2. acc.entries[k].index < acc.next /\ acc.entries[k].index \in Nat
          BY <1>3, <5>1, EntryFields DEF Sound, OneIndexEach
        <5> QED BY <1>3, <2>2, <5>1, <5>2
      <4> QED BY <4>1, <4>2
    <3>2. ASSUME NEW k \in DOMAIN new.entries, NEW m \in DOMAIN new.entries,
                 new.entries[k].index = new.entries[m].index \/ new.entries[k].class = new.entries[m].class
          PROVE  k = m
      <4>1. \A j \in 1 .. (n - 1) :
              /\ new.entries[j] = acc.entries[j] /\ acc.entries[j].index # index
              /\ acc.entries[j].class # x
        BY <1>0, <1>5, <2>1, <2>6 DEF Matches
      <4>2. k \in 1 .. (n - 1) /\ m \in 1 .. (n - 1) => k = m
        BY <2>6, <3>2, <4>1 DEF Sound, OneIndexEach
      <4>3. (k = n \/ k \in 1 .. (n - 1)) /\ (m = n \/ m \in 1 .. (n - 1))
        BY <2>6
      <4> QED BY <2>4, <2>6, <3>2, <4>1, <4>2, <4>3
    <3> QED BY <3>1, <3>2 DEF OneIndexEach
  <2>9. Sound(new)
    BY <2>2, <2>8 DEF Sound
  <2>10. \A k \in DOMAIN acc.entries : k \in DOMAIN new.entries /\ new.entries[k] = acc.entries[k]
    BY <2>6
  <2>11. n \in DOMAIN new.entries /\ new.entries[n] = [index |-> index, class |-> x]
    <3>1. n \in 1 .. n
      BY <1>3, <2>5
    <3>2. new.entries[n] = entry /\ DOMAIN new.entries = 1 .. n
      BY <2>6
    <3>3. n \in DOMAIN new.entries
      BY <3>1, <3>2
    <3> QED BY <3>2, <3>3 DEF entry
  <2> QED BY <2>1, <2>2, <2>7, <2>9, <2>10, <2>11 DEF Keeps, Indexed
<1> QED BY <1>4, <1>5

SoundCandidates == {acc \in Candidates : Sound(acc)}

\* Resolving a summand keeps the candidate registry sound.
LEMMA ResolveStays ==
  ASSUME algebra \in Algebras, NEW acc \in SoundCandidates, NEW x \in DOMAIN algebra.dims
  PROVE  Resolve(acc, x) \in SoundCandidates
<1>1. acc \in Candidates /\ Sound(acc)
  BY DEF SoundCandidates
<1>2. PICK new : new = Resolve(acc, x)
  OBVIOUS
<1>3. new \in Candidates /\ Sound(new)
  BY <1>1, <1>2, ResolveStep
<1> QED BY <1>2, <1>3 DEF SoundCandidates

\* The maximum of a nonempty set of indices is in it and the greatest.
LEMMA MaxIsGreatest ==
  ASSUME NEW n \in Nat, NEW s \in SUBSET (1 .. n), s # {}
  PROVE  Max(s) \in s /\ \A i \in s : i <= Max(s)
<1>1. Max(s) \in s /\ \A y \in s : Max(s) >= y
  BY GreatestExists DEF Max
<1> QED BY <1>1

\* value comes from first by resolving the summands of the module in turn
TakenInTurn(value, first, module, n) ==
  \E h \in [0 .. n -> SoundCandidates] :
    h[0] = first /\ h[n] = value /\ \A i \in 1 .. n : h[i] = Resolve(h[i - 1], module[i])

Folded(first, module) == FoldLeft(Resolve, first, module)

\* A fold of Resolve takes the summands one after the other.
LEMMA ResolveInTurn ==
  ASSUME algebra \in Algebras, NEW first \in SoundCandidates,
         NEW module \in Seq(DOMAIN algebra.dims), NEW n \in Nat, n = Len(module)
  PROVE  TakenInTurn(Folded(first, module), first, module, n)
<1> DEFINE Rule(g) ==
      [s \in SUBSET DOMAIN module |->
         IF s = {} THEN first ELSE Resolve(g[s \ {Max(s)}], module[Max(s)])]
<1>1. Folded(first, module) = (CHOOSE g : g = Rule(g))[DOMAIN module]
  BY Zenon DEF Folded, FoldLeft, MapThenFoldSet
<1>2. DOMAIN module = 1 .. n /\ \A i \in 1 .. n : module[i] \in DOMAIN algebra.dims
  OBVIOUS
<1>3. IsFiniteSet(1 .. n)
  BY FS_Interval
<1> DEFINE step == [i \in 1 .. n |-> [acc \in SoundCandidates |-> Resolve(acc, module[i])]]
           pick == [s \in SUBSET (1 .. n) |-> Max(s)]
<1>4. step \in [1 .. n -> [SoundCandidates -> SoundCandidates]]
  BY <1>2, ResolveStays
<1>5. \A s \in SUBSET (1 .. n) : s # {} => pick[s] \in s /\ \A i \in s : i <= pick[s]
  BY MaxIsGreatest
<1>6. ASSUME NEW g \in [SUBSET (1 .. n) -> SoundCandidates]
      PROVE  Runs(g, 1 .. n, first, step, pick) <=> g = Rule(g)
  <2> DEFINE Run == [s \in SUBSET (1 .. n) |->
                       IF s = {} THEN first ELSE step[pick[s]][g[s \ {pick[s]}]]]
  <2>1. ASSUME NEW s \in SUBSET (1 .. n), s # {}
        PROVE  step[pick[s]][g[s \ {pick[s]}]] = Resolve(g[s \ {Max(s)}], module[Max(s)])
    <3>1. pick[s] = Max(s) /\ Max(s) \in 1 .. n
      BY <2>1, MaxIsGreatest
    <3>2. PICK m \in 1 .. n, r \in SUBSET (1 .. n) : m = Max(s) /\ r = s \ {m}
      BY <3>1
    <3>3. g[r] \in SoundCandidates
      OBVIOUS
    <3>4. step[m][g[r]] = Resolve(g[r], module[m])
      BY <3>3
    <3> HIDE DEF step, pick
    <3> QED BY <3>1, <3>2, <3>4
  <2>2. Run = Rule(g)
    <3> HIDE DEF step, pick
    <3> QED BY <1>2, <2>1
  <2>3. Runs(g, 1 .. n, first, step, pick) <=> g = Run
    <3> HIDE DEF step, pick
    <3> QED BY DEF Runs
  <2> HIDE DEF Rule, Run
  <2> QED BY <2>2, <2>3
<1>7. \E g : g = Rule(g)
  <2> HIDE DEF step, pick, Rule
  <2>1. \E g \in [SUBSET (1 .. n) -> SoundCandidates] : Runs(g, 1 .. n, first, step, pick)
    BY <1>3, <1>4, <1>5, RunsExist
  <2> QED BY <1>6, <2>1
<1>8. PICK g : g = (CHOOSE f : f = Rule(f))
  OBVIOUS
<1>9. g = Rule(g)
  <2> HIDE DEF Rule
  <2> QED BY <1>7, <1>8
<1>10. /\ DOMAIN g = SUBSET (1 .. n) /\ g[{}] = first
       /\ \A s \in SUBSET (1 .. n) :
            s # {} => g[s] = Resolve(g[s \ {Max(s)}], module[Max(s)])
  <2>1. DOMAIN Rule(g) = SUBSET (1 .. n) /\ Rule(g)[{}] = first
    BY <1>2
  <2>2. \A s \in SUBSET (1 .. n) :
          s # {} => Rule(g)[s] = Resolve(g[s \ {Max(s)}], module[Max(s)])
    BY <1>2
  <2> HIDE DEF Rule
  <2> QED BY <1>9, <2>1, <2>2
<1>11. SUBSET (1 .. n) \subseteq {s \in SUBSET (1 .. n) : g[s] \in SoundCandidates}
  <2> DEFINE P == {s \in SUBSET (1 .. n) : g[s] \in SoundCandidates}
  <2>1. {} \in P
    BY <1>10
  <2>2. ASSUME NEW s \in SUBSET (1 .. n), s # {}, \A x \in s : s \ {x} \in P PROVE s \in P
    <3>1. PICK m \in s : m = Max(s)
      BY <2>2, MaxIsGreatest
    <3>2. PICK acc \in SoundCandidates : acc = g[s \ {m}]
      BY <2>2
    <3>3. module[m] \in DOMAIN algebra.dims
      BY <1>2
    <3>4. g[s] = Resolve(acc, module[m])
      BY <1>10, <2>2, <3>1, <3>2
    <3>5. g[s] \in SoundCandidates
      BY <3>3, <3>4, ResolveStays
    <3> QED BY <3>5
  <2> HIDE DEF P
  <2>3. SUBSET (1 .. n) \subseteq P
    BY <1>3, <2>1, <2>2, SubsetInduction
  <2> QED BY <2>3 DEF P
<1>12. g \in [SUBSET (1 .. n) -> SoundCandidates]
  <2>1. g = [s \in SUBSET (1 .. n) |-> g[s]]
    <3> HIDE DEF Rule
    <3>1. Rule(g) = [s \in SUBSET (1 .. n) |-> Rule(g)[s]]
      BY <1>2 DEF Rule
    <3> QED BY <1>9, <3>1
  <2> QED BY <1>11, <2>1
<1>13. Runs(g, 1 .. n, first, step, pick)
  <2> HIDE DEF step, pick, Rule
  <2> QED BY <1>6, <1>9, <1>12
<1>14. ComputedIn(g[1 .. n], n, SoundCandidates, first, step)
  <2> HIDE DEF step, pick, Rule
  <2>1. PICK D : D = 1 .. n
    OBVIOUS
  <2>2. step \in [D -> [SoundCandidates -> SoundCandidates]]
    BY <1>4, <2>1
  <2>3. \A s \in SUBSET D : s # {} => pick[s] \in s /\ \A i \in s : i <= pick[s]
    BY <1>5, <2>1
  <2>4. g \in [SUBSET D -> SoundCandidates]
    BY <1>12, <2>1
  <2>5. Runs(g, D, first, step, pick)
    BY <1>13, <2>1
  <2>6. ComputedIn(g[D], n, SoundCandidates, first, step)
    BY <2>1, <2>2, <2>3, <2>4, <2>5, RunsInOrder
  <2> QED BY <2>1, <2>6
<1>15. PICK h \in [0 .. n -> SoundCandidates] :
         h[0] = first /\ h[n] = g[1 .. n] /\ \A i \in 1 .. n : h[i] = step[i][h[i - 1]]
  <2> HIDE DEF step, pick, Rule
  <2>1. PICK h \in [0 .. n -> SoundCandidates] : Computes(h, n, first, step) /\ h[n] = g[1 .. n]
    BY <1>14 DEF ComputedIn
  <2>2. \A i \in 0 .. n : h[i] = IF i = 0 THEN first ELSE step[i][h[i - 1]]
    BY <2>1 DEF Computes
  <2>3. 0 \in 0 .. n /\ \A i \in 1 .. n : i \in 0 .. n /\ i # 0
    OBVIOUS
  <2> QED BY <2>1, <2>2, <2>3
<1>16. h[n] = Folded(first, module)
  <2> HIDE DEF step, pick, Rule
  <2> QED BY <1>1, <1>2, <1>8, <1>15
<1>17. \A i \in 1 .. n : h[i] = Resolve(h[i - 1], module[i])
  <2> SUFFICES ASSUME NEW i \in 1 .. n PROVE h[i] = Resolve(h[i - 1], module[i])
    OBVIOUS
  <2>1. i - 1 \in 0 .. n
    OBVIOUS
  <2>2. PICK acc \in SoundCandidates : acc = h[i - 1]
    BY <2>1
  <2>3. step[i][acc] = Resolve(acc, module[i])
    OBVIOUS
  <2> HIDE DEF step
  <2> QED BY <1>15, <2>2, <2>3
<1> HIDE DEF step, pick, Rule
<1> QED BY <1>15, <1>16, <1>17 DEF TakenInTurn

\* Indices that name a module keep naming it while the entries are kept.
LEMMA NamesKept ==
  ASSUME NEW indices, NEW module, NEW old, NEW new, Names(indices, module, old), Keeps(old, new)
  PROVE  Names(indices, module, new)
BY DEF Names, Keeps

\* The entries after some steps name the summands taken so far.
LEMMA StepsName ==
  ASSUME algebra \in Algebras, NEW n \in Nat, NEW module \in Seq(DOMAIN algebra.dims),
         n = Len(module), NEW h \in [0 .. n -> SoundCandidates], h[0].indices = <<>>,
         \A i \in 1 .. n : h[i] = Resolve(h[i - 1], module[i])
  PROVE  /\ Keeps(h[0].entries, h[n].entries)
         /\ Names(h[n].indices, module, h[n].entries)
<1> DEFINE Named(i) ==
      /\ Len(h[i].indices) = i
      /\ \A j \in 1 .. i : \E k \in DOMAIN h[i].entries :
           h[i].entries[k] = [index |-> h[i].indices[j], class |-> module[j]]
<1> DEFINE Settled == {i \in 0 .. n : Keeps(h[0].entries, h[i].entries) /\ Named(i)}
<1>1. 0 \in Settled
  BY DEF Keeps
<1>2. ASSUME NEW i \in 1 .. n, i - 1 \in Settled PROVE i \in Settled
  <2>1. PICK a, b : a = h[i - 1] /\ b = h[i] /\ b = Resolve(a, module[i])
    OBVIOUS
  <2>2. i - 1 \in 0 .. n /\ module[i] \in DOMAIN algebra.dims
    OBVIOUS
  <2>3. a \in Candidates /\ Sound(a) /\ a.indices \in Seq(Nat)
    <3>1. a \in SoundCandidates
      BY <2>1, <2>2
    <3> QED BY <3>1 DEF SoundCandidates, Candidates
  <2>4. PICK y \in DOMAIN algebra.dims : y = module[i]
    BY <2>2
  <2>5. Keeps(a.entries, b.entries) /\ Indexed(a, b, y)
    <3>1. b = Resolve(a, y)
      BY <2>1, <2>4
    <3> QED BY <2>3, <2>4, <3>1, ResolveStep
  <2>6. PICK x \in Nat : /\ b.indices = Append(a.indices, x)
                        /\ \E k \in DOMAIN b.entries : b.entries[k] = [index |-> x, class |-> module[i]]
    BY <2>4, <2>5 DEF Indexed
  <2>7. Keeps(h[0].entries, a.entries) /\ Len(a.indices) = i - 1
        /\ \A j \in 1 .. (i - 1) : \E k \in DOMAIN a.entries :
             a.entries[k] = [index |-> a.indices[j], class |-> module[j]]
    BY <1>2, <2>1
  <2>8. Keeps(h[0].entries, b.entries)
    BY <2>5, <2>7 DEF Keeps
  <2>9. Len(b.indices) = i /\ b.indices[i] = x
        /\ \A j \in 1 .. (i - 1) : b.indices[j] = a.indices[j]
    BY <2>3, <2>6, <2>7
  <2>10. ASSUME NEW j \in 1 .. i
        PROVE  \E k \in DOMAIN b.entries : b.entries[k] = [index |-> b.indices[j], class |-> module[j]]
    <3>1. CASE j = i
      BY <2>6, <2>9, <3>1
    <3>2. CASE j # i
      <4>1. j \in 1 .. (i - 1)
        BY <3>2
      <4>2. PICK k \in DOMAIN a.entries : a.entries[k] = [index |-> a.indices[j], class |-> module[j]]
        BY <2>7, <4>1
      <4> QED BY <2>5, <2>9, <4>1, <4>2 DEF Keeps
    <3> QED BY <3>1, <3>2
  <2>11. i \in 0 .. n
    OBVIOUS
  <2> QED BY <2>1, <2>8, <2>9, <2>10, <2>11
<1>3. 0 .. n \subseteq Settled
  <2> HIDE DEF Settled
  <2> QED BY <1>1, <1>2, IntervalInduction
<1>4. n \in Settled
  <2>1. n \in 0 .. n
    OBVIOUS
  <2> HIDE DEF Settled
  <2> QED BY <1>3, <2>1
<1>5. h[n].indices \in Seq(Nat)
  <2>1. h[n] \in SoundCandidates
    OBVIOUS
  <2> QED BY <2>1 DEF SoundCandidates, Candidates
<1>6. DOMAIN h[n].indices = 1 .. n /\ DOMAIN module = 1 .. n
  BY <1>4, <1>5
<1> QED BY <1>4, <1>6 DEF Names

\* Resolving a module extends the registry by its new classes, and the indices
\* it returns are those of the registry.
LEMMA ResolveNames ==
  ASSUME algebra \in Algebras, NEW reg \in [entries : Seq(EntryType), next : Nat],
         OneIndexEach(reg.entries, reg.next), NEW preferred \in SUBSET Nat,
         \A i \in preferred : i < reg.next /\ \A k \in DOMAIN reg.entries : reg.entries[k].index # i,
         \A i, j \in preferred : i = j,
         NEW spent \in Nat, NEW module \in Seq(DOMAIN algebra.dims),
         NEW res, res = ResolveIndices(reg, preferred, spent, module)
  PROVE  /\ Registered(res) \in [entries : Seq(EntryType), next : Nat]
         /\ res.units \in Nat /\ res.indices \in Seq(Nat)
         /\ OneIndexEach(res.entries, res.next)
         /\ Names(res.indices, module, res.entries)
         /\ Keeps(reg.entries, res.entries)
<1>1. PICK first : first = [entries |-> reg.entries, next |-> reg.next, preferred |-> preferred,
                            indices |-> <<>>, units |-> spent]
  OBVIOUS
<1>2. first \in SoundCandidates
  <2>1. first \in Candidates
    <3>1. <<>> \in Seq(Nat)
      OBVIOUS
    <3> QED BY <1>1, <3>1 DEF Candidates
  <2>2. Sound(first)
    BY <1>1 DEF Sound
  <2> QED BY <2>1, <2>2 DEF SoundCandidates
<1>3. PICK n \in Nat : n = Len(module)
  OBVIOUS
<1>4. PICK h \in [0 .. n -> SoundCandidates] :
        /\ h[0] = first /\ h[n] = Folded(first, module)
        /\ \A i \in 1 .. n : h[i] = Resolve(h[i - 1], module[i])
  <2>1. TakenInTurn(Folded(first, module), first, module, n)
    BY <1>2, <1>3, ResolveInTurn
  <2> QED BY <2>1 DEF TakenInTurn
<1>5. res = h[n]
  <2>1. res = Folded(first, module)
    BY <1>1, Zenon DEF ResolveIndices, Folded
  <2> QED BY <1>4, <2>1
<1>6. Keeps(reg.entries, res.entries) /\ Names(res.indices, module, res.entries)
  <2>1. h[0].indices = <<>> /\ h[0].entries = reg.entries
    BY <1>1, <1>4
  <2>2. Keeps(h[0].entries, h[n].entries) /\ Names(h[n].indices, module, h[n].entries)
    BY <1>3, <1>4, <2>1, StepsName
  <2> QED BY <1>5, <2>1, <2>2
<1>7. res \in Candidates /\ Sound(res)
  <2>1. n \in 0 .. n
    OBVIOUS
  <2> QED BY <1>4, <1>5, <2>1 DEF SoundCandidates
<1>8. /\ Registered(res) \in [entries : Seq(EntryType), next : Nat]
      /\ res.units \in Nat /\ res.indices \in Seq(Nat)
  BY <1>7 DEF Candidates, Registered
<1>9. OneIndexEach(res.entries, res.next)
  BY <1>7 DEF Sound
<1> QED BY <1>6, <1>8, <1>9

-----------------------------------------------------------------------------
(* What the invariant says of the slot being visited.                      *)

\* A pair has a module, and at most one left mutation at each summand.
LEMMA PairData ==
  ASSUME algebra \in Algebras, NEW p \in DOMAIN algebra.left
  PROVE  /\ p.module \in Seq(DOMAIN algebra.dims) /\ Len(p.module) \in Nat
         /\ DOMAIN p.module = 1 .. Len(p.module) /\ DOMAIN algebra.left[p] = DOMAIN p.module
         /\ \A s \in DOMAIN p.module :
              /\ algebra.left[p][s] \subseteq DOMAIN algebra.left
              /\ \A q, r \in algebra.left[p][s] : q = r
BY AlgebraAssumption

\* The fields of a vertex, one by one.
LEMMA VertexFields ==
  ASSUME TypeOK, NEW v \in DOMAIN vertices
  PROVE  /\ vertices[v] \in VertexType /\ vertices[v].pair \in DOMAIN algebra.left
         /\ vertices[v].slots \in Seq(SUBSET Nat) /\ vertices[v].indices \in Seq(Nat)
         /\ Len(vertices[v].slots) \in Nat /\ Len(vertices[v].pair.module) \in Nat
<1>1. vertices[v] \in VertexType
  BY DEF TypeOK
<1>2. /\ vertices[v].pair \in DOMAIN algebra.left /\ vertices[v].slots \in Seq(SUBSET Nat)
      /\ vertices[v].indices \in Seq(Nat)
  BY <1>1 DEF VertexType
<1>3. algebra \in Algebras
  BY DEF TypeOK
<1> QED BY <1>1, <1>2, <1>3, PairData

\* What is known of the slot at work.
LEMMA SlotFacts ==
  ASSUME TypeOK, FrontierInv, pc = "walk", visiting # <<>>
  PROVE  /\ V \in DOMAIN vertices /\ V \in Nat /\ V > 0 /\ V = Current
         /\ N \in Nat \ {0} /\ S \in 1 .. N /\ S = Len(vertices[V].slots) + 1
         /\ visiting = <<V, S>>
         /\ Source \in DOMAIN algebra.left /\ Source = vertices[V].pair
         /\ N = Len(vertices[V].pair.module)
         /\ Scale \in Nat /\ SlotUnits(N, Scale) \in Nat
<1>1. /\ V = Current /\ V > 0 /\ V \in Nat /\ S \in Nat /\ visiting = <<V, S>>
      /\ S = Len(vertices[V].slots) + 1 /\ Undecided(V) > 0
  BY DEF TypeOK, FrontierInv, V, S
<1>2. V \in DOMAIN vertices
  <2>1. Len(queue) \in Nat /\ Len(vertices) \in Nat /\ DOMAIN vertices = 1 .. Len(vertices)
    BY DEF TypeOK
  <2> QED BY <1>1, <2>1 DEF Current
<1>3. Source \in DOMAIN algebra.left /\ Source = vertices[V].pair
  BY <1>2, VertexFields DEF Source
<1>4. N = Len(vertices[V].pair.module) /\ N \in Nat
  BY <1>2, VertexFields DEF Source, N
<1>5. Len(vertices[V].slots) \in Nat
  BY <1>2, VertexFields
<1>6. N \in Nat \ {0} /\ S \in 1 .. N
  <2>1. PICK n \in Nat, m \in Nat, s \in Nat : n = N /\ m = Len(vertices[V].slots) /\ s = S
    BY <1>1, <1>4, <1>5
  <2>2. s = m + 1 /\ n - m > 0 /\ n \in Nat
    BY <1>1, <1>4, <2>1 DEF Undecided
  <2>3. n \in Nat \ {0} /\ s \in 1 .. n
    BY <2>2
  <2> QED BY <2>1, <2>3
<1>7. algebra \in Algebras
  BY DEF TypeOK
<1>8. Scale \in Nat
  <2>1. Source.module \in Seq(DOMAIN algebra.dims)
    BY <1>3, <1>7, PairData
  <2> QED BY <1>7, <2>1, ScaleType DEF Scale
<1>9. SlotUnits(N, Scale) \in Nat
  BY <1>6, <1>7, <1>8, SlotUnitsType
<1> QED BY <1>1, <1>2, <1>3, <1>4, <1>6, <1>8, <1>9

\* A nonempty set of indices has a least one.
LEMMA LeastExists ==
  ASSUME NEW n \in Nat, NEW T, T \subseteq 1 .. n, T # {}
  PROVE  \E k \in T : \A m \in T : k <= m
<1> DEFINE mirror == {n + 1 - k : k \in T}
<1>1. mirror \in SUBSET (1 .. n) /\ mirror # {}
  <2>1. \A k \in T : n + 1 - k \in 1 .. n
    OBVIOUS
  <2>2. mirror \subseteq 1 .. n
    BY <2>1
  <2>3. PICK k \in T : TRUE
    OBVIOUS
  <2>4. n + 1 - k \in mirror
    OBVIOUS
  <2> QED BY <2>2, <2>4
<1>2. PICK x \in mirror : \A y \in mirror : x >= y
  <2> HIDE DEF mirror
  <2> QED BY <1>1, GreatestExists
<1>3. PICK k \in T : x = n + 1 - k
  OBVIOUS
<1>4. \A m \in T : k <= m
  <2> SUFFICES ASSUME NEW m \in T PROVE k <= m
    OBVIOUS
  <2>1. n + 1 - m \in mirror
    OBVIOUS
  <2>2. x >= n + 1 - m
    BY <1>2, <2>1
  <2> QED BY <1>3, <2>2
<1> QED BY <1>4

\* The vertices found for a pair are those with this very pair.
LEMMA SameIsEqual ==
  ASSUME NEW p
  PROVE  Same(p) = {v \in DOMAIN vertices : vertices[v].pair = p}
BY DEF Same, Bucket

\* The work of looking for a vertex is a natural.
LEMMA FindUnitsType ==
  ASSUME TypeOK, NEW p \in DOMAIN algebra.left
  PROVE  FindUnits(p) \in Nat
<1>1. algebra \in Algebras
  BY DEF TypeOK
<1>2. PICK n, scale : n = Len(p.module) /\ scale = ScaleOf(p.module)
  OBVIOUS
<1>3. n \in Nat /\ scale \in Nat
  BY <1>1, <1>2, PairData, ScaleType
<1>4. FingerprintUnits(n, scale) \in Nat /\ IsoUnits(n, scale) \in Nat
  BY <1>1, <1>3, RatesType
<1>5. Cardinality(Tested(Bucket(p), Same(p))) \in Nat
  <2>1. IsFiniteSet(1 .. Len(vertices)) /\ DOMAIN vertices = 1 .. Len(vertices)
    BY FS_Interval DEF TypeOK
  <2>2. Tested(Bucket(p), Same(p)) \subseteq DOMAIN vertices
    BY DEF Tested, Bucket
  <2> QED BY <2>1, <2>2, FS_Subset, FS_CardinalityType
<1>6. Cardinality(Tested(Bucket(p), Same(p))) * IsoUnits(n, scale) \in Nat
  BY <1>4, <1>5, ProductType
<1> QED BY <1>2, <1>4, <1>6 DEF FindUnits

\* What is known of the mutation of the slot at work.
LEMMA OutcomeFacts ==
  ASSUME TypeOK, FrontierInv, pc = "walk", visiting # <<>>, HasLeftMutation
  PROVE  /\ Outcome \in DOMAIN algebra.left /\ algebra.left[Source][S] = {Outcome}
         /\ Outcome.module \in Seq(DOMAIN algebra.dims)
         /\ Len(Outcome.module) \in Nat /\ ScaleOf(Outcome.module) \in Nat
         /\ FindUnits(Outcome) \in Nat /\ MutationUnits \in Nat
<1>1. algebra \in Algebras /\ units \in Nat
  BY DEF TypeOK
<1>2. /\ Source \in DOMAIN algebra.left /\ S \in 1 .. N /\ N \in Nat /\ Scale \in Nat
      /\ SlotUnits(N, Scale) \in Nat
  BY SlotFacts
<1>3. S \in DOMAIN Source.module
  BY <1>1, <1>2, PairData DEF N
<1>4. PICK q : q \in algebra.left[Source][S] /\ Outcome = q
  BY DEF HasLeftMutation, Outcome
<1>5. q \in DOMAIN algebra.left /\ algebra.left[Source][S] = {q}
  BY <1>1, <1>2, <1>3, <1>4, PairData
<1>6. /\ q.module \in Seq(DOMAIN algebra.dims) /\ Len(q.module) \in Nat
      /\ ScaleOf(q.module) \in Nat /\ FindUnits(q) \in Nat
  BY <1>1, <1>5, PairData, ScaleType, FindUnitsType
<1>7. MutationUnits \in Nat
  <2>1. TauUnits(Scale) \in Nat
    BY <1>1, <1>2, RatesType
  <2> QED BY <1>1, <1>2, <2>1 DEF MutationUnits
<1> QED BY <1>4, <1>5, <1>6, <1>7

-----------------------------------------------------------------------------
(* The registry along a step.                                              *)

RegistryType == [entries : Seq(EntryType), next : Nat]

\* reg is the registry after a step: the entries stay, one index each
Grown(reg) ==
  /\ reg \in RegistryType /\ OneIndexEach(reg.entries, reg.next)
  /\ Keeps(registry.entries, reg.entries)

\* An index spent on nothing keeps the entries.
LEMMA SpentGrows ==
  ASSUME TypeOK, RegistryInv
  PROVE  /\ Grown(Spent(registry)) /\ Spent(registry).entries = registry.entries
         /\ registry.next \in Nat /\ Spent(registry).next = registry.next + 1
         /\ \A k \in DOMAIN registry.entries : registry.entries[k].index # registry.next
<1>1. registry \in RegistryType
  BY DEF TypeOK, RegistryType
<1>2. /\ registry.entries \in Seq(EntryType) /\ registry.next \in Nat
      /\ registry = [entries |-> registry.entries, next |-> registry.next]
  BY <1>1 DEF RegistryType
<1>3. PICK reg : reg = Spent(registry)
  OBVIOUS
<1>4. reg = [entries |-> registry.entries, next |-> registry.next + 1]
  BY <1>2, <1>3 DEF Spent
<1>5. reg \in RegistryType
  BY <1>2, <1>4 DEF RegistryType
<1>6. \A k \in DOMAIN registry.entries :
        registry.entries[k].index < registry.next /\ registry.entries[k].index \in Nat
  BY <1>2, EntryFields DEF RegistryInv, OneIndexEach
<1>7. OneIndexEach(reg.entries, reg.next)
  <2>1. \A k \in DOMAIN registry.entries : registry.entries[k].index < reg.next
    BY <1>2, <1>4, <1>6
  <2> QED BY <1>4, <2>1 DEF OneIndexEach, RegistryInv
<1>8. Keeps(registry.entries, reg.entries)
  BY <1>4 DEF Keeps
<1>9. \A k \in DOMAIN registry.entries : registry.entries[k].index # registry.next
  BY <1>2, <1>6
<1> QED BY <1>2, <1>3, <1>4, <1>5, <1>7, <1>8, <1>9 DEF Grown

\* Entries kept twice are kept.
LEMMA KeepsTransitive ==
  ASSUME NEW a, NEW b, NEW c, Keeps(a, b), Keeps(b, c)
  PROVE  Keeps(a, c)
BY DEF Keeps

\* push_vertex resolves the summands of its pair and charges what it does.
LEMMA PushFacts ==
  ASSUME algebra \in Algebras, NEW reg, Grown(reg), NEW preferred \in SUBSET Nat,
         \A i \in preferred : i < reg.next /\ \A k \in DOMAIN reg.entries : reg.entries[k].index # i,
         \A i, j \in preferred : i = j,
         NEW spent \in Nat, NEW p \in DOMAIN algebra.left,
         NEW res, res = ResolvePushed(reg, preferred, spent, p)
  PROVE  /\ Grown(Registered(res)) /\ res.units \in Nat /\ res.indices \in Seq(Nat)
         /\ Names(res.indices, p.module, Registered(res).entries)
         /\ \A k \in Nat : res.units + k * TauUnits(ScaleOf(p.module)) \in Nat
         /\ PushUnits(p, res.units) + IsoUnits(Len(p.module), ScaleOf(p.module)) \in Nat
         /\ PushUnits(p, res.units) \in Nat
<1>1. /\ reg \in [entries : Seq(EntryType), next : Nat] /\ OneIndexEach(reg.entries, reg.next)
      /\ Keeps(registry.entries, reg.entries)
  BY DEF Grown, RegistryType
<1>2. PICK module, n, scale : module = p.module /\ n = Len(module) /\ scale = ScaleOf(module)
  OBVIOUS
<1>3. module \in Seq(DOMAIN algebra.dims) /\ n \in Nat /\ scale \in Nat
  BY <1>2, PairData, ScaleType
<1>4. /\ VertexUnits(n, scale) \in Nat /\ TauUnits(scale) \in Nat
      /\ FingerprintUnits(n, scale) \in Nat /\ IsoUnits(n, scale) \in Nat
  BY <1>3, RatesType
<1>5. PICK paid \in Nat : paid = spent + VertexUnits(n, scale)
  BY <1>4
<1>6. res = ResolveIndices(reg, preferred, paid, module)
  BY <1>2, <1>5 DEF ResolvePushed
<1>7. /\ Registered(res) \in [entries : Seq(EntryType), next : Nat]
      /\ res.units \in Nat /\ res.indices \in Seq(Nat)
      /\ OneIndexEach(res.entries, res.next)
      /\ Names(res.indices, module, res.entries)
      /\ Keeps(reg.entries, res.entries)
  BY <1>1, <1>3, <1>6, ResolveNames
<1>8. Registered(res).entries = res.entries /\ Registered(res).next = res.next
  BY DEF Registered
<1>9. Grown(Registered(res))
  BY <1>1, <1>7, <1>8, KeepsTransitive DEF Grown, RegistryType
<1>10. \A k \in Nat : res.units + k * TauUnits(scale) \in Nat
  <2> SUFFICES ASSUME NEW k \in Nat PROVE res.units + k * TauUnits(scale) \in Nat
    OBVIOUS
  <2>1. k * TauUnits(scale) \in Nat
    BY <1>4, ProductType
  <2> QED BY <1>7, <2>1
<1>11. PushUnits(p, res.units) \in Nat
  <2>1. PushUnits(p, res.units) = (res.units + n * TauUnits(scale)) + FingerprintUnits(n, scale)
    BY <1>2, Zenon DEF PushUnits, ClassifyUnits
  <2>2. PICK a \in Nat, b \in Nat : a = res.units + n * TauUnits(scale) /\ b = FingerprintUnits(n, scale)
    BY <1>3, <1>4, <1>10
  <2>3. PushUnits(p, res.units) = a + b
    BY <2>1, <2>2, Zenon
  <2> QED BY <2>3
<1>12. PushUnits(p, res.units) + IsoUnits(Len(p.module), ScaleOf(p.module)) \in Nat
  BY <1>2, <1>4, <1>11
<1>13. Names(res.indices, p.module, Registered(res).entries)
  BY <1>2, <1>7, <1>8
<1> QED BY <1>2, <1>7, <1>9, <1>10, <1>11, <1>12, <1>13

-----------------------------------------------------------------------------
(* The actions at a slot: some halt the walk, three decide the slot.       *)

Halting ==
  \/ StopBeforeSlot \/ BlockSlot \/ StopAtMutations \/ StopAtVertices
  \/ FailRebuild \/ BlockVertex

\* the walk ends at the slot with its graph as it was
Halted ==
  /\ pc = "walk" /\ visiting # <<>>
  /\ pc' \in {"incomplete", "error"} /\ at' = [vertex |-> V, slot |-> S]
  /\ UNCHANGED <<algebra, limits, vertices, mutations, queue, visiting, count>>
  /\ Grown(registry') /\ units' \in Nat

\* The registry keeps its own entries.
LEMMA RegistryStays ==
  ASSUME TypeOK, RegistryInv
  PROVE  Grown(registry)
<1>1. registry \in RegistryType
  BY DEF TypeOK, RegistryType
<1>2. Keeps(registry.entries, registry.entries)
  BY DEF Keeps
<1> QED BY <1>1, <1>2 DEF Grown, RegistryInv

\* The resolved registry keeps the entries and names the new module.
LEMMA ResolvedFacts ==
  ASSUME TypeOK, FrontierInv, RegistryInv, Mutated
  PROVE  /\ Grown(Registered(Resolved)) /\ Resolved.units \in Nat /\ Resolved.indices \in Seq(Nat)
         /\ Names(Resolved.indices, Outcome.module, Registered(Resolved).entries)
         /\ \A k \in Nat : Resolved.units + k * TauUnits(ScaleOf(Outcome.module)) \in Nat
         /\ PushUnits(Outcome, Resolved.units)
              + IsoUnits(Len(Outcome.module), ScaleOf(Outcome.module)) \in Nat
<1>1. pc = "walk" /\ visiting # <<>> /\ HasLeftMutation /\ algebra \in Algebras
  BY DEF Mutated, Prepared, TypeOK
<1>2. PICK reg : reg = Spent(registry)
  OBVIOUS
<1>3. /\ Grown(reg) /\ reg.entries = registry.entries /\ registry.next \in Nat
      /\ reg.next = registry.next + 1
      /\ \A k \in DOMAIN registry.entries : registry.entries[k].index # registry.next
  BY <1>2, SpentGrows
<1>4. PICK preferred : preferred = IF Replaced THEN {registry.next} ELSE {}
  OBVIOUS
<1>5. /\ preferred \in SUBSET Nat
      /\ \A i \in preferred : i < reg.next /\ \A k \in DOMAIN reg.entries : reg.entries[k].index # i
      /\ \A i, j \in preferred : i = j
  BY <1>3, <1>4
<1>6. PICK spent \in Nat, p \in DOMAIN algebra.left :
        spent = MutationUnits + FindUnits(Outcome) /\ p = Outcome
  BY <1>1, OutcomeFacts
<1>7. PICK res : res = Resolved
  OBVIOUS
<1>8. res = ResolvePushed(reg, preferred, spent, p)
  BY <1>2, <1>4, <1>6, <1>7 DEF Resolved
<1>9. /\ Grown(Registered(res)) /\ res.units \in Nat /\ res.indices \in Seq(Nat)
      /\ Names(res.indices, p.module, Registered(res).entries)
      /\ \A k \in Nat : res.units + k * TauUnits(ScaleOf(p.module)) \in Nat
      /\ PushUnits(p, res.units) + IsoUnits(Len(p.module), ScaleOf(p.module)) \in Nat
  BY <1>1, <1>3, <1>5, <1>8, PushFacts
<1> QED BY <1>6, <1>7, <1>9

\* A step that halts ends the walk at its slot and leaves the graph as it was.
LEMMA HaltingHalts ==
  ASSUME TypeOK, FrontierInv, RegistryInv, Halting
  PROVE  Halted
<1>1. units \in Nat /\ algebra \in Algebras
  BY DEF TypeOK
<1>2. Grown(Spent(registry)) /\ Grown(registry)
  BY SpentGrows, RegistryStays
<1>3. CASE StopBeforeSlot
  BY <1>1, <1>2, <1>3 DEF StopBeforeSlot, Stop, Halted
<1>4. CASE BlockSlot
  <2>1. pc = "walk" /\ visiting # <<>> /\ registry' = Spent(registry)
    BY <1>4 DEF BlockSlot, Prepared
  <2>2. PICK misses \in 0 .. 1 : units' = units + misses * TauUnits(Scale)
    BY <1>4 DEF BlockSlot
  <2>3. units' \in Nat
    <3>1. TauUnits(Scale) \in Nat
      <4>1. Scale \in Nat
        BY <2>1, SlotFacts
      <4> QED BY <1>1, <4>1, RatesType
    <3>2. misses \in Nat
      OBVIOUS
    <3>3. misses * TauUnits(Scale) \in Nat
      BY <3>1, <3>2, ProductType
    <3> QED BY <1>1, <2>2, <3>3
  <2> QED BY <1>2, <1>4, <2>1, <2>3 DEF BlockSlot, Stop, Halted
<1>5. ASSUME Mutated
      PROVE  /\ pc = "walk" /\ visiting # <<>>
             /\ MutationUnits \in Nat /\ MutationUnits + FindUnits(Outcome) \in Nat
  <2>1. pc = "walk" /\ visiting # <<>> /\ HasLeftMutation
    BY <1>5 DEF Mutated, Prepared
  <2>2. MutationUnits \in Nat /\ FindUnits(Outcome) \in Nat
    BY <2>1, OutcomeFacts
  <2> QED BY <2>1, <2>2
<1>6. CASE StopAtMutations
  <2>1. Mutated
    BY <1>6 DEF StopAtMutations
  <2>2. pc = "walk" /\ visiting # <<>> /\ MutationUnits \in Nat
    BY <1>5, <2>1
  <2> QED BY <1>2, <1>6, <2>2 DEF StopAtMutations, Stop, Halted
<1>7. CASE StopAtVertices
  <2>1. Mutated
    BY <1>7 DEF StopAtVertices, Endpoint
  <2>2. pc = "walk" /\ visiting # <<>> /\ MutationUnits + FindUnits(Outcome) \in Nat
    BY <1>5, <2>1
  <2> QED BY <1>2, <1>7, <2>2 DEF StopAtVertices, Stop, Halted
<1>8. CASE FailRebuild
  <2>1. Mutated
    BY <1>8 DEF FailRebuild, Rebuilt, Endpoint
  <2>2. pc = "walk" /\ visiting # <<>> /\ MutationUnits + FindUnits(Outcome) \in Nat
    BY <1>5, <2>1
  <2> QED BY <1>2, <1>8, <2>2 DEF FailRebuild, Halted
<1>9. CASE BlockVertex
  <2>1. Mutated
    BY <1>9 DEF BlockVertex, Rebuilt, Endpoint
  <2>2. pc = "walk" /\ visiting # <<>> /\ Grown(Registered(Resolved))
    BY <1>5, <2>1, ResolvedFacts
  <2>3. PICK k \in 0 .. Len(Outcome.module) :
          units' = Resolved.units + k * TauUnits(ScaleOf(Outcome.module))
    BY <1>9 DEF BlockVertex
  <2>4. k \in Nat
    <3>1. HasLeftMutation
      BY <2>1 DEF Mutated
    <3>2. Len(Outcome.module) \in Nat
      BY <2>2, <3>1, OutcomeFacts
    <3> QED BY <3>2
  <2>5. units' \in Nat
    BY <2>1, <2>3, <2>4, ResolvedFacts
  <2> QED BY <1>9, <2>2, <2>5 DEF BlockVertex, Stop, Halted
<1> QED BY <1>3, <1>4, <1>6, <1>7, <1>8, <1>9 DEF Halting

\* the slot is decided in the vertices vs, and the walk goes on or stops there
Decides(vs, record) ==
  /\ pc = "walk" /\ visiting # <<>> /\ units <= limits.work
  /\ Grown(registry') /\ UNCHANGED <<algebra, limits>>
  /\ vertices' = [vs EXCEPT ![V].slots = Append(@, record)]
  /\ \E spent \in Nat : NextSlot(V, S, N, spent)

\* the slot leads to the outcome, the vertex target
Leads(target) ==
  /\ algebra.left[Source][S] = {Outcome} /\ Outcome \in DOMAIN algebra.left
  /\ Len(mutations) < limits.mutations
  /\ mutations' = Append(mutations, [source |-> V, slot |-> S, target |-> target])

\* A prepared step is one of a walk within its limit of work.
LEMMA PreparedFits ==
  ASSUME TypeOK, FrontierInv, Prepared
  PROVE  pc = "walk" /\ visiting # <<>> /\ units <= limits.work
<1>1. pc = "walk" /\ visiting # <<>> /\ ~WouldExceed
  BY DEF Prepared
<1>2. SlotUnits(N, Scale) \in Nat
  BY <1>1, SlotFacts
<1>3. units \in Nat /\ limits.work \in Nat
  BY LimitsAssumption DEF TypeOK
<1> QED BY <1>1, <1>2, <1>3 DEF WouldExceed

\* A slot without a left mutation is decided by no edge.
LEMMA NoLeftMutationDecides ==
  ASSUME TypeOK, FrontierInv, RegistryInv, RecordNoLeftMutation
  PROVE  /\ Decides(vertices, {}) /\ algebra.left[Source][S] = {}
         /\ UNCHANGED <<mutations, queue>>
         /\ count' = [count EXCEPT !.verified = @ + 1]
<1>1. pc = "walk" /\ visiting # <<>> /\ units <= limits.work
  BY PreparedFits DEF RecordNoLeftMutation
<1>2. units + FacUnits(Scale) \in Nat
  <2>1. Scale \in Nat /\ units \in Nat
    BY <1>1, SlotFacts DEF TypeOK
  <2> QED BY <2>1 DEF FacUnits
<1>3. Grown(registry')
  BY SpentGrows DEF RecordNoLeftMutation
<1>4. Decides(vertices, {})
  BY <1>1, <1>2, <1>3 DEF RecordNoLeftMutation, Decides
<1> QED BY <1>4 DEF RecordNoLeftMutation, HasLeftMutation

\* A slot whose endpoint is known is decided by an edge to it.
LEMMA RepeatedEndpointDecides ==
  ASSUME TypeOK, FrontierInv, RegistryInv, RecordRepeatedEndpoint
  PROVE  \E target \in DOMAIN vertices :
           /\ Decides(vertices, {Len(mutations) + 1}) /\ Leads(target)
           /\ vertices[target].pair = Outcome /\ UNCHANGED queue
           /\ count' = [count EXCEPT !.verified = @ + 1, !.repeated = @ + 1]
<1>1. Endpoint /\ Mutated /\ Prepared /\ HasLeftMutation
  BY DEF RecordRepeatedEndpoint, Endpoint, Mutated
<1>2. pc = "walk" /\ visiting # <<>> /\ units <= limits.work
  BY <1>1, PreparedFits
<1>3. /\ Outcome \in DOMAIN algebra.left /\ algebra.left[Source][S] = {Outcome}
      /\ MutationUnits + FindUnits(Outcome) \in Nat
  BY <1>1, <1>2, OutcomeFacts
<1>4. Grown(registry')
  BY SpentGrows DEF RecordRepeatedEndpoint
<1>5. PICK target : target = Least(Same(Outcome))
  OBVIOUS
<1>6. target \in DOMAIN vertices /\ vertices[target].pair = Outcome
  <2>1. Same(Outcome) = {v \in DOMAIN vertices : vertices[v].pair = Outcome}
    BY SameIsEqual
  <2>2. PICK v \in Same(Outcome) : TRUE
    BY DEF RecordRepeatedEndpoint
  <2>3. \E k \in Same(Outcome) : \A m \in Same(Outcome) : k <= m
    <3>1. PICK n \in Nat : DOMAIN vertices = 1 .. n
      BY DEF TypeOK
    <3>2. Same(Outcome) \subseteq 1 .. n /\ Same(Outcome) # {}
      BY <2>1, <2>2, <3>1
    <3> QED BY <3>2, LeastExists
  <2>4. target \in Same(Outcome)
    BY <1>5, <2>3 DEF Least
  <2> QED BY <2>1, <2>4
<1>7. Decides(vertices, {Len(mutations) + 1})
  BY <1>2, <1>3, <1>4 DEF RecordRepeatedEndpoint, Decides
<1>8. Leads(target)
  BY <1>1, <1>3, <1>5 DEF RecordRepeatedEndpoint, Leads, Edge, Endpoint
<1> QED BY <1>6, <1>7, <1>8 DEF RecordRepeatedEndpoint

\* A slot whose endpoint is new is decided by an edge to a new vertex.
LEMMA NewVertexDecides ==
  ASSUME TypeOK, FrontierInv, RegistryInv, RecordNewVertex
  PROVE  /\ Decides(Pushed(Outcome, Resolved), {Len(mutations) + 1}) /\ Leads(Len(vertices) + 1)
         /\ \A v \in DOMAIN vertices : vertices[v].pair # Outcome
         /\ Resolved.indices \in Seq(Nat) /\ registry' = Registered(Resolved)
         /\ Names(Resolved.indices, Outcome.module, registry'.entries)
         /\ Len(vertices) < limits.vertices /\ queue' = Append(queue, Len(vertices) + 1)
         /\ count' = [count EXCEPT !.slots = @ + Len(Outcome.module), !.new = @ + 1, !.verified = @ + 1]
<1>1. Rebuilt /\ Endpoint /\ Mutated /\ Prepared /\ HasLeftMutation
  BY DEF RecordNewVertex, Rebuilt, Endpoint, Mutated
<1>2. pc = "walk" /\ visiting # <<>> /\ units <= limits.work
  BY <1>1, PreparedFits
<1>3. Outcome \in DOMAIN algebra.left /\ algebra.left[Source][S] = {Outcome}
  BY <1>1, <1>2, OutcomeFacts
<1>4. /\ Grown(Registered(Resolved)) /\ Resolved.indices \in Seq(Nat)
      /\ Names(Resolved.indices, Outcome.module, Registered(Resolved).entries)
      /\ PushUnits(Outcome, Resolved.units)
           + IsoUnits(Len(Outcome.module), ScaleOf(Outcome.module)) \in Nat
  BY <1>1, ResolvedFacts
<1>5. Decides(Pushed(Outcome, Resolved), {Len(mutations) + 1})
  BY <1>2, <1>4, Zenon DEF RecordNewVertex, Decides
<1>6. Leads(Len(vertices) + 1)
  BY <1>1, <1>3 DEF RecordNewVertex, Leads, Edge, Endpoint
<1>7. \A v \in DOMAIN vertices : vertices[v].pair # Outcome
  BY <1>1, SameIsEqual DEF Rebuilt
<1> QED BY <1>1, <1>4, <1>5, <1>6, <1>7 DEF RecordNewVertex, Rebuilt

-----------------------------------------------------------------------------
(* Vertices with one more slot record, and one more vertex.                *)

\* ws are the vertices vs with the record in addition at v
OneMoreRecord(vs, v, record, ws) ==
  /\ vs \in Seq(VertexType) /\ v \in DOMAIN vs /\ record \in SUBSET Nat
  /\ ws = [vs EXCEPT ![v].slots = Append(@, record)]

\* ws are the vertices vs with the pair p in addition
OneMoreVertex(vs, p, indices, ws) ==
  /\ vs \in Seq(VertexType) /\ p \in DOMAIN algebra.left /\ indices \in Seq(Nat)
  /\ ws = Append(vs, [pair |-> p, slots |-> <<>>, indices |-> indices])

\* ws has the vertices of vs, and behind them one of the pair p
Extends(vs, p, indices, ws) ==
  /\ ws \in Seq(VertexType) /\ Len(ws) = Len(vs) + 1
  /\ DOMAIN ws = DOMAIN vs \cup {Len(vs) + 1} /\ Len(vs) + 1 \notin DOMAIN vs
  /\ \A u \in DOMAIN vs : ws[u] = vs[u]
  /\ ws[Len(vs) + 1].pair = p /\ ws[Len(vs) + 1].slots = <<>>
  /\ ws[Len(vs) + 1].indices = indices

\* One more record is appended to one vertex, and nothing else changes.
LEMMA RecordAppended ==
  ASSUME NEW vs, NEW v, NEW record, NEW ws, OneMoreRecord(vs, v, record, ws)
  PROVE  /\ ws \in Seq(VertexType) /\ Len(ws) = Len(vs) /\ DOMAIN ws = DOMAIN vs
         /\ \A u \in DOMAIN vs : ws[u].pair = vs[u].pair /\ ws[u].indices = vs[u].indices
         /\ \A u \in DOMAIN vs : u # v => ws[u].slots = vs[u].slots
         /\ ws[v].slots = Append(vs[v].slots, record)
<1>0. /\ vs \in Seq(VertexType) /\ v \in DOMAIN vs /\ record \in SUBSET Nat
      /\ ws = [vs EXCEPT ![v].slots = Append(@, record)]
  BY DEF OneMoreRecord
<1>1. vs[v] \in VertexType
  BY <1>0
<1>2. /\ vs[v].pair \in DOMAIN algebra.left /\ vs[v].slots \in Seq(SUBSET Nat)
      /\ vs[v].indices \in Seq(Nat)
      /\ vs[v] = [pair |-> vs[v].pair, slots |-> vs[v].slots, indices |-> vs[v].indices]
  BY <1>1 DEF VertexType
<1>3. PICK x : x = [vs[v] EXCEPT !.slots = Append(vs[v].slots, record)]
  OBVIOUS
<1>4. x.pair = vs[v].pair /\ x.indices = vs[v].indices /\ x.slots = Append(vs[v].slots, record)
  BY <1>2, <1>3
<1>5. x \in VertexType
  <2>1. Append(vs[v].slots, record) \in Seq(SUBSET Nat)
    BY <1>0, <1>2
  <2>2. x = [pair |-> vs[v].pair, slots |-> Append(vs[v].slots, record), indices |-> vs[v].indices]
    BY <1>2, <1>3
  <2> QED BY <1>2, <2>1, <2>2 DEF VertexType
<1>6. ws = [vs EXCEPT ![v] = x]
  BY <1>0, <1>3
<1>7. DOMAIN ws = DOMAIN vs /\ ws[v] = x /\ \A u \in DOMAIN vs : u # v => ws[u] = vs[u]
  BY <1>0, <1>6
<1>8. ws \in Seq(VertexType) /\ Len(ws) = Len(vs)
  <2>1. PICK T : T = VertexType
    OBVIOUS
  <2>2. vs \in Seq(T) /\ x \in T /\ v \in 1 .. Len(vs)
    BY <1>0, <1>5, <2>1
  <2>3. [vs EXCEPT ![v] = x] \in Seq(T) /\ Len([vs EXCEPT ![v] = x]) = Len(vs)
    BY <2>2
  <2> QED BY <1>6, <2>1, <2>3
<1> QED BY <1>0, <1>4, <1>7, <1>8

\* One more vertex leaves the others.
LEMMA VertexAppended ==
  ASSUME NEW vs, NEW p, NEW indices, NEW ws, OneMoreVertex(vs, p, indices, ws)
  PROVE  Extends(vs, p, indices, ws)
<1>0. /\ vs \in Seq(VertexType) /\ p \in DOMAIN algebra.left /\ indices \in Seq(Nat)
      /\ ws = Append(vs, [pair |-> p, slots |-> <<>>, indices |-> indices])
  BY DEF OneMoreVertex
<1>1. PICK x : x = [pair |-> p, slots |-> <<>>, indices |-> indices]
  OBVIOUS
<1>2. x.pair = p /\ x.slots = <<>> /\ x.indices = indices
  BY <1>1
<1>3. x \in VertexType
  <2>1. <<>> \in Seq(SUBSET Nat)
    OBVIOUS
  <2> QED BY <1>0, <1>1, <2>1 DEF VertexType
<1>4. ws = Append(vs, x)
  BY <1>0, <1>1
<1>5. /\ ws \in Seq(VertexType) /\ Len(ws) = Len(vs) + 1 /\ ws[Len(vs) + 1] = x
      /\ \A u \in DOMAIN vs : ws[u] = vs[u]
      /\ DOMAIN ws = DOMAIN vs \cup {Len(vs) + 1} /\ Len(vs) + 1 \notin DOMAIN vs
  BY <1>0, <1>3, <1>4
<1> QED BY <1>2, <1>5 DEF Extends

\* the slots of v not yet decided in the vertices vs
Open(vs, v) == Len(vs[v].pair.module) - Len(vs[v].slots)

\* v is w with the term k in addition, or with the term k changed
OneMoreTerm(D, w, E, v, k) ==
  /\ IsFiniteSet(D) /\ w \in [D -> Nat] /\ k \notin D
  /\ E = D \cup {k} /\ v \in [E -> Nat] /\ \A x \in D : v[x] = w[x]
OneOtherTerm(D, w, v, k) ==
  /\ IsFiniteSet(D) /\ w \in [D -> Nat] /\ k \in D
  /\ v \in [D -> Nat] /\ \A x \in D : x # k => v[x] = w[x]

\* A sum with one more term is greater by it.
LEMMA SumOneMore ==
  ASSUME NEW D, NEW w, NEW E, NEW v, NEW k, OneMoreTerm(D, w, E, v, k)
  PROVE  SumOf(v) = SumOf(w) + v[k]
BY SumAdd DEF OneMoreTerm

\* A sum with one other term differs by their difference.
LEMMA SumOneOther ==
  ASSUME NEW D, NEW w, NEW v, NEW k, OneOtherTerm(D, w, v, k)
  PROVE  SumOf(v) + w[k] = SumOf(w) + v[k]
BY SumChange DEF OneOtherTerm

\* The open slots are the sum of those of the vertices.
LEMMA OpenSlotsSum ==
  ASSUME NEW vs \in Seq(VertexType), \A v \in DOMAIN vs : Open(vs, v) \in Nat,
         NEW w, w = [v \in DOMAIN vs |-> Open(vs, v)]
  PROVE  /\ w \in [DOMAIN vs -> Nat] /\ IsFiniteSet(DOMAIN vs)
         /\ OpenSlots(vs) = SumOf(w) /\ OpenSlots(vs) \in Nat
<1>1. IsFiniteSet(DOMAIN vs)
  <2>1. PICK n \in Nat : DOMAIN vs = 1 .. n
    OBVIOUS
  <2> QED BY <2>1, FS_Interval
<1>2. w \in [DOMAIN vs -> Nat]
  OBVIOUS
<1>3. OpenSlots(vs) = Total(w)
  BY Zenon DEF OpenSlots, Open
<1>4. Total(w) = SumOf(w) /\ Total(w) \in Nat
  BY <1>1, <1>2, TotalIsSum
<1> QED BY <1>1, <1>2, <1>3, <1>4

\* No vertex has no open slot.
LEMMA OpenSlotsOfNone ==
  OpenSlots(<<>>) = 0
<1>0. <<>> \in Seq(VertexType) /\ DOMAIN <<>> = {}
  OBVIOUS
<1>1. PICK vs : vs = <<>> /\ vs \in Seq(VertexType) /\ DOMAIN vs = {}
  BY <1>0
<1>2. PICK w : w = [v \in DOMAIN vs |-> Open(vs, v)]
  OBVIOUS
<1>3. w \in [DOMAIN vs -> Nat] /\ IsFiniteSet(DOMAIN vs) /\ OpenSlots(vs) = SumOf(w)
  BY <1>1, <1>2, OpenSlotsSum
<1>4. SumOf(w) = 0
  BY <1>1, <1>3, SumType
<1> QED BY <1>1, <1>3, <1>4

\* A new vertex opens one slot for each summand.
LEMMA OpenSlotsPushed ==
  ASSUME algebra \in Algebras, NEW vs, \A v \in DOMAIN vs : Open(vs, v) \in Nat,
         NEW p, NEW indices, NEW ws, OneMoreVertex(vs, p, indices, ws)
  PROVE  /\ OpenSlots(ws) = OpenSlots(vs) + Len(p.module)
         /\ \A v \in DOMAIN ws : Open(ws, v) \in Nat
<1>1. PICK D, E, k : D = DOMAIN vs /\ E = DOMAIN ws /\ k = Len(vs) + 1
  OBVIOUS
<1>2. /\ ws \in Seq(VertexType) /\ E = D \cup {k} /\ k \notin D
      /\ \A u \in D : ws[u] = vs[u]
      /\ ws[k].pair = p /\ ws[k].slots = <<>>
  <2>1. Extends(vs, p, indices, ws)
    BY VertexAppended
  <2> QED BY <1>1, <2>1 DEF Extends
<1> USE DEF OneMoreVertex
<1>3. Open(ws, k) = Len(p.module) /\ Len(p.module) \in Nat
  <2>1. Len(p.module) \in Nat /\ Len(<<>>) = 0
    BY PairData
  <2>2. Open(ws, k) = Len(p.module) - Len(<<>>)
    BY <1>2, Zenon DEF Open
  <2> QED BY <2>1, <2>2
<1>4. \A u \in D : Open(ws, u) = Open(vs, u) /\ Open(vs, u) \in Nat
  <2>1. \A u \in D : Open(ws, u) = Open(vs, u)
    BY <1>2, Zenon DEF Open
  <2>2. \A u \in D : Open(vs, u) \in Nat
    BY <1>1
  <2> QED BY <2>1, <2>2
<1>5. \A u \in DOMAIN ws : Open(ws, u) \in Nat
  BY <1>1, <1>2, <1>3, <1>4
<1>6. PICK w, v : w = [u \in D |-> Open(vs, u)] /\ v = [u \in E |-> Open(ws, u)]
  OBVIOUS
<1>7. w \in [D -> Nat] /\ IsFiniteSet(D) /\ OpenSlots(vs) = SumOf(w)
  BY <1>1, <1>6, OpenSlotsSum
<1>8. v \in [E -> Nat] /\ OpenSlots(ws) = SumOf(v)
  BY <1>1, <1>2, <1>5, <1>6, OpenSlotsSum
<1>9. (\A u \in D : v[u] = w[u]) /\ v[k] = Len(p.module)
  BY <1>2, <1>3, <1>4, <1>6
<1>10. SumOf(v) = SumOf(w) + v[k]
  <2>1. OneMoreTerm(D, w, E, v, k)
    BY <1>2, <1>7, <1>8, <1>9 DEF OneMoreTerm
  <2> QED BY <2>1, SumOneMore
<1> QED BY <1>5, <1>7, <1>8, <1>9, <1>10

\* A decided slot is open no more.
LEMMA OpenSlotsDecided ==
  ASSUME algebra \in Algebras, NEW vs, \A v \in DOMAIN vs : Open(vs, v) \in Nat,
         NEW k, Open(vs, k) > 0, NEW record, NEW ws, OneMoreRecord(vs, k, record, ws)
  PROVE  /\ OpenSlots(ws) + 1 = OpenSlots(vs) /\ Open(ws, k) + 1 = Open(vs, k)
         /\ \A v \in DOMAIN ws : Open(ws, v) \in Nat /\ (v # k => Open(ws, v) = Open(vs, v))
<1>0. vs \in Seq(VertexType) /\ k \in DOMAIN vs /\ record \in SUBSET Nat
  BY DEF OneMoreRecord
<1>1. PICK D : D = DOMAIN vs
  OBVIOUS
<1>2. /\ ws \in Seq(VertexType) /\ DOMAIN ws = D
      /\ \A u \in D : ws[u].pair = vs[u].pair
      /\ \A u \in D : u # k => ws[u].slots = vs[u].slots
      /\ ws[k].slots = Append(vs[k].slots, record)
  <2>1. /\ ws \in Seq(VertexType) /\ DOMAIN ws = DOMAIN vs
        /\ \A u \in DOMAIN vs : ws[u].pair = vs[u].pair
        /\ \A u \in DOMAIN vs : u # k => ws[u].slots = vs[u].slots
        /\ ws[k].slots = Append(vs[k].slots, record)
    BY RecordAppended
  <2> QED BY <1>1, <2>1
<1>3. Len(ws[k].slots) = Len(vs[k].slots) + 1 /\ Len(vs[k].slots) \in Nat
  <2>1. vs[k] \in VertexType
    BY <1>0
  <2>2. vs[k].slots \in Seq(SUBSET Nat)
    BY <2>1 DEF VertexType
  <2>3. PICK q \in Seq(SUBSET Nat) : q = vs[k].slots
    BY <2>2
  <2>4. Len(Append(q, record)) = Len(q) + 1 /\ Len(q) \in Nat
    BY <1>0
  <2> QED BY <1>2, <2>3, <2>4
<1>4. Open(ws, k) + 1 = Open(vs, k) /\ Open(ws, k) \in Nat
  <2>1. PICK m, n : m = Len(vs[k].pair.module) /\ n = Len(vs[k].slots)
    OBVIOUS
  <2>2. Open(vs, k) = m - n /\ Open(ws, k) = m - (n + 1) /\ m - n \in Nat /\ n \in Nat /\ m - n > 0
    BY <1>0, <1>1, <1>2, <1>3, <2>1 DEF Open
  <2>3. m \in Int
    <3>1. vs[k] \in VertexType
      BY <1>0
    <3>2. vs[k].pair \in DOMAIN algebra.left
      BY <3>1 DEF VertexType
    <3> QED BY <2>1, <3>2, PairData
  <2> QED BY <2>2, <2>3
<1>5. \A u \in D : Open(vs, u) \in Nat /\ (u # k => Open(ws, u) = Open(vs, u))
  BY <1>1, <1>2 DEF Open
<1>6. \A u \in DOMAIN ws : Open(ws, u) \in Nat
  BY <1>2, <1>4, <1>5
<1>7. PICK w, v : w = [u \in D |-> Open(vs, u)] /\ v = [u \in D |-> Open(ws, u)]
  OBVIOUS
<1>8. w \in [D -> Nat] /\ IsFiniteSet(D) /\ OpenSlots(vs) = SumOf(w)
  BY <1>0, <1>1, <1>7, OpenSlotsSum
<1>9. v \in [D -> Nat] /\ OpenSlots(ws) = SumOf(v)
  BY <1>2, <1>6, <1>7, OpenSlotsSum
<1>10. k \in D /\ w[k] = Open(vs, k) /\ v[k] = Open(ws, k) /\ \A u \in D : u # k => v[u] = w[u]
  BY <1>0, <1>1, <1>5, <1>7
<1>11. SumOf(v) + w[k] = SumOf(w) + v[k]
  <2>1. OneOtherTerm(D, w, v, k)
    BY <1>8, <1>9, <1>10 DEF OneOtherTerm
  <2> QED BY <2>1, SumOneOther
<1>12. SumOf(v) \in Nat /\ SumOf(w) \in Nat
  BY <1>8, <1>9, SumType
<1>13. OpenSlots(ws) + 1 = OpenSlots(vs)
  <2>1. PICK a \in Nat, b \in Nat, c \in Nat, d \in Nat :
          a = SumOf(v) /\ b = SumOf(w) /\ c = Open(ws, k) /\ d = Open(vs, k)
    BY <1>1, <1>4, <1>5, <1>12
  <2>2. a + d = b + c /\ c + 1 = d
    BY <1>4, <1>10, <1>11, <2>1
  <2> QED BY <1>8, <1>9, <2>1, <2>2
<1> QED BY <1>2, <1>4, <1>5, <1>6, <1>13

-----------------------------------------------------------------------------
(* The invariant holds initially, and the steps that leave the graph.      *)

\* The invariant holds when a walk starts.
LEMMA InitInv ==
  ASSUME Init
  PROVE  WalkInv
<1>1. /\ algebra \in Algebras /\ limits \in Limits
      /\ vertices = <<>> /\ mutations = <<>> /\ queue = <<>> /\ visiting = <<>>
      /\ at = [vertex |-> 1, slot |-> 0]
      /\ count = [slots |-> 0, verified |-> 0, new |-> 0, repeated |-> 0]
      /\ registry = [entries |-> <<>>, next |-> 1]
      /\ units = 0 /\ pc = "root"
  BY DEF Init
<1>2. TypeOK
  <2>1. vertices \in Seq(VertexType) /\ mutations \in Seq([source : Nat, slot : Nat, target : Nat])
        /\ queue \in Seq(Nat)
    BY <1>1
  <2>2. registry \in [entries : Seq(EntryType), next : Nat]
    <3>1. <<>> \in Seq(EntryType)
      OBVIOUS
    <3> QED BY <1>1, <3>1
  <2>3. at \in [vertex : Nat, slot : Nat]
        /\ count \in [slots : Nat, verified : Nat, new : Nat, repeated : Nat]
    BY <1>1
  <2> QED BY <1>1, <2>1, <2>2, <2>3 DEF TypeOK
<1>3. Len(vertices) = 0 /\ Len(mutations) = 0 /\ Len(queue) = 0
      /\ DOMAIN vertices = {} /\ DOMAIN mutations = {} /\ DOMAIN queue = {}
  BY <1>1
<1>4. limits.work \in Nat /\ limits.mutations \in Nat
  BY <1>1, LimitsAssumption
<1>5. FrontierInv
  BY <1>1, <1>3, <1>4 DEF FrontierInv
<1>6. CountInv
  <2>1. OpenSlots(vertices) = 0
    BY <1>1, OpenSlotsOfNone
  <2>2. count.slots = 0 /\ count.verified = 0 /\ count.new = 0 /\ count.repeated = 0
    BY <1>1
  <2> QED BY <1>1, <1>3, <1>4, <2>1, <2>2 DEF CountInv
<1>7. GraphInv
  BY <1>1, <1>3 DEF GraphInv, EdgesInv, RecordsInv, PairsInv
<1>8. RegistryInv
  <2>1. registry.entries = <<>> /\ DOMAIN <<>> = {}
    BY <1>1
  <2> QED BY <1>3, <2>1 DEF RegistryInv, OneIndexEach
<1> QED BY <1>2, <1>5, <1>6, <1>7, <1>8 DEF WalkInv

\* A step that keeps the vertices and the edges keeps what is said of them.
LEMMA GraphStays ==
  ASSUME WalkInv, UNCHANGED <<algebra, limits, vertices, mutations, count>>
  PROVE  /\ CountInv' /\ GraphInv'
         /\ \A v \in DOMAIN vertices : Undecided(v)' = Undecided(v)
         /\ vertices' \in Seq(VertexType') /\ mutations' \in Seq([source : Nat, slot : Nat, target : Nat])
<1>1. CountInv'
  <2>1. OpenSlots(vertices') = OpenSlots(vertices)
    BY Zenon
  <2> QED BY <2>1 DEF WalkInv, CountInv, OpenSlots
<1>2. GraphInv'
  <2>1. EdgesInv'
    BY DEF WalkInv, GraphInv, EdgesInv
  <2>2. RecordsInv'
    BY DEF WalkInv, GraphInv, RecordsInv, Recorded
  <2>3. PairsInv'
    BY DEF WalkInv, GraphInv, PairsInv
  <2> QED BY <2>1, <2>2, <2>3 DEF GraphInv
<1>3. \A v \in DOMAIN vertices : Undecided(v)' = Undecided(v)
  BY DEF Undecided
<1>4. VertexType' = VertexType
  BY DEF VertexType
<1> QED BY <1>1, <1>2, <1>3, <1>4 DEF WalkInv, TypeOK

\* Indices that name a module name it in the entries that keep the old ones.
LEMMA NamesStay ==
  ASSUME NEW indices, NEW module, NEW a, NEW b, Names(indices, module, a), Keeps(a, b)
  PROVE  Names(indices, module, b)
BY DEF Names, Keeps

\* A registry that has grown keeps its invariant.
LEMMA RegistryFits ==
  ASSUME WalkInv, UNCHANGED <<algebra, vertices>>, Grown(registry')
  PROVE  RegistryInv' /\ registry' \in [entries : Seq(EntryType'), next : Nat]
<1>1. EntryType' = EntryType
  BY DEF EntryType
<1>2. OneIndexEach(registry'.entries, registry'.next)
  BY DEF Grown
<1>3. \A v \in DOMAIN vertices :
        Names(vertices[v].indices, vertices[v].pair.module, registry'.entries)
  <2> SUFFICES ASSUME NEW v \in DOMAIN vertices
               PROVE  Names(vertices[v].indices, vertices[v].pair.module, registry'.entries)
    OBVIOUS
  <2>1. Names(vertices[v].indices, vertices[v].pair.module, registry.entries)
    BY DEF WalkInv, RegistryInv
  <2> QED BY <2>1, NamesStay DEF Grown
<1>4. RegistryInv'
  BY <1>2, <1>3, Zenon DEF RegistryInv, OneIndexEach, Names
<1> QED BY <1>1, <1>4 DEF Grown, RegistryType

\* A step that halts keeps the invariant.
LEMMA HaltInv ==
  ASSUME WalkInv, Halted
  PROVE  WalkInv'
<1>1. /\ pc = "walk" /\ visiting # <<>>
      /\ pc' \in {"incomplete", "error"} /\ at' = [vertex |-> V, slot |-> S]
      /\ UNCHANGED <<algebra, limits, vertices, mutations, queue, visiting, count>>
      /\ Grown(registry') /\ units' \in Nat
  BY DEF Halted
<1>2. TypeOK /\ FrontierInv
  BY DEF WalkInv
<1>3. V = Current /\ V \in Nat /\ S \in Nat
  <2>1. V = Current /\ V \in Nat /\ N \in Nat /\ S \in 1 .. N
    BY <1>1, <1>2, SlotFacts
  <2> QED BY <2>1
<1>4. at' \in [vertex : Nat, slot : Nat] /\ at'.vertex = V
  BY <1>1, <1>3
<1>5. /\ CountInv' /\ GraphInv'
      /\ \A v \in DOMAIN vertices : Undecided(v)' = Undecided(v)
      /\ vertices' \in Seq(VertexType') /\ mutations' \in Seq([source : Nat, slot : Nat, target : Nat])
  BY <1>1, GraphStays
<1>6. RegistryInv' /\ registry' \in [entries : Seq(EntryType'), next : Nat]
  BY <1>1, RegistryFits
<1>7. Current' = Current
  BY <1>1 DEF Current
<1>8. TypeOK'
  BY <1>1, <1>2, <1>4, <1>5, <1>6 DEF TypeOK
<1>9. FrontierInv'
  BY <1>1, <1>2, <1>3, <1>4, <1>5, <1>7 DEF FrontierInv
<1> QED BY <1>5, <1>6, <1>8, <1>9 DEF WalkInv

\* Closing the walk keeps it.
LEMMA CloseInv ==
  ASSUME WalkInv, Close
  PROVE  WalkInv'
<1>1. /\ pc = "walk" /\ visiting = <<>> /\ queue = <<>>
      /\ UNCHANGED <<algebra, limits, vertices, mutations, queue, visiting, at, count, registry, units>>
      /\ \/ pc' = "incomplete" /\ units > limits.work
         \/ pc' \in {"closed", "defect"} /\ ~(units > limits.work)
  BY DEF Close, Stop, OverWorkBudget
<1>2. TypeOK /\ FrontierInv /\ RegistryInv
  BY DEF WalkInv
<1>3. Grown(registry')
  BY <1>1, <1>2, RegistryStays
<1>4. /\ CountInv' /\ GraphInv'
      /\ \A v \in DOMAIN vertices : Undecided(v)' = Undecided(v)
      /\ vertices' \in Seq(VertexType') /\ mutations' \in Seq([source : Nat, slot : Nat, target : Nat])
  BY <1>1, GraphStays
<1>5. RegistryInv' /\ registry' \in [entries : Seq(EntryType'), next : Nat]
  BY <1>1, <1>3, RegistryFits
<1>6. Current' = Current /\ Current = Len(vertices)
  <2>1. Len(queue) = 0 /\ Len(vertices) \in Nat
    BY <1>1, <1>2 DEF TypeOK
  <2> QED BY <1>1, <2>1 DEF Current
<1>7. TypeOK'
  BY <1>1, <1>2, <1>4, <1>5 DEF TypeOK
<1>8. units \in Nat /\ limits.work \in Nat
  BY <1>2, LimitsAssumption DEF TypeOK
<1>9. FrontierInv'
  <2>1. Len(queue') <= Len(vertices') /\ \A i \in DOMAIN queue' : queue'[i] = Current' + i
    BY <1>1, <1>2, <1>6 DEF FrontierInv
  <2>2. \A v \in DOMAIN vertices' :
          /\ Undecided(v)' >= 0
          /\ v < Current' => Undecided(v)' = 0
          /\ v > Current' => vertices'[v].slots = <<>>
    BY <1>1, <1>2, <1>4, <1>6 DEF FrontierInv
  <2>3. vertices' # <<>> /\ (pc' = "incomplete" => at'.vertex = Current')
    BY <1>1, <1>2, <1>6 DEF FrontierInv
  <2>4. Current' > 0 => Undecided(Current)' = 0
    <3>1. Undecided(Current)' = Undecided(Current)
      BY <1>1, <1>6 DEF Undecided
    <3> QED BY <1>1, <1>2, <1>6, <3>1 DEF FrontierInv
  <2> QED BY <1>1, <1>8, <2>1, <2>2, <2>3, <2>4 DEF FrontierInv
<1> QED BY <1>4, <1>5, <1>7, <1>9 DEF WalkInv

\* Taking a vertex from the queue keeps it.
LEMMA TakeVertexInv ==
  ASSUME WalkInv, TakeVertex
  PROVE  WalkInv'
<1>1. TypeOK /\ FrontierInv /\ RegistryInv
  BY DEF WalkInv
<1>2. PICK c, n : c = queue[1] /\ n = Len(vertices[queue[1]].pair.module)
  OBVIOUS
<1>3. /\ pc = "walk" /\ visiting = <<>> /\ queue # <<>>
      /\ queue' = Tail(queue) /\ visiting' = Slot(c, 1, n)
      /\ at' = IF n = 0 THEN [at EXCEPT !.slot = 0] ELSE at
      /\ UNCHANGED <<algebra, limits, vertices, mutations, count, registry, units, pc, stop>>
  BY <1>2 DEF TakeVertex, TakenFrom
<1>4. /\ queue \in Seq(Nat) /\ Len(queue) \in Nat \ {0} /\ Len(vertices) \in Nat
      /\ DOMAIN vertices = 1 .. Len(vertices) /\ Len(queue) <= Len(vertices)
      /\ \A i \in DOMAIN queue : queue[i] = Current + i
  BY <1>1, <1>3 DEF TypeOK, FrontierInv
<1>5. c = Current + 1 /\ c \in DOMAIN vertices /\ c \in Nat /\ c > 0 /\ Current \in Nat
  BY <1>2, <1>4 DEF Current
<1>6. /\ queue' \in Seq(Nat) /\ Len(queue') = Len(queue) - 1 /\ Current' = c
      /\ \A i \in DOMAIN queue' : queue'[i] = c + i
  <2>1. queue' \in Seq(Nat) /\ Len(queue') = Len(queue) - 1
        /\ \A i \in DOMAIN queue' : i \in Nat /\ i + 1 \in DOMAIN queue /\ queue'[i] = queue[i + 1]
    BY <1>3, <1>4
  <2>2. Current' = c
    BY <1>3, <1>4, <1>5, <2>1 DEF Current
  <2>3. \A i \in DOMAIN queue' : queue'[i] = c + i
    BY <1>4, <1>5, <2>1
  <2> QED BY <2>1, <2>2, <2>3
<1>7. vertices[c].slots = <<>> /\ n \in Nat /\ Undecided(c) = n
  <2>1. vertices[c].slots = <<>>
    BY <1>1, <1>5 DEF FrontierInv
  <2>2. n \in Nat /\ n = Len(vertices[c].pair.module)
    BY <1>1, <1>2, <1>5, VertexFields
  <2>3. Len(<<>>) = 0 /\ n - 0 = n
    BY <2>2
  <2> QED BY <2>1, <2>2, <2>3 DEF Undecided
<1>8. \A v \in DOMAIN vertices : v < c => Undecided(v) = 0
  BY <1>1, <1>3, <1>4, <1>5 DEF FrontierInv
<1>9. /\ n = 0 => visiting' = <<>>
      /\ n > 0 => visiting' = <<c, 1>> /\ V' = c /\ S' = 1
  BY <1>3, <1>7 DEF Slot, V, S
<1>10. at' \in [vertex : Nat, slot : Nat] /\ at'.vertex = at.vertex
  <2>1. at \in [vertex : Nat, slot : Nat]
    BY <1>1 DEF TypeOK
  <2> QED BY <1>3, <2>1
<1>11. /\ CountInv' /\ GraphInv'
       /\ \A v \in DOMAIN vertices : Undecided(v)' = Undecided(v)
       /\ vertices' \in Seq(VertexType') /\ mutations' \in Seq([source : Nat, slot : Nat, target : Nat])
  BY <1>3, GraphStays
<1>12. RegistryInv' /\ registry' \in [entries : Seq(EntryType'), next : Nat]
  <2>1. Grown(registry')
    BY <1>1, <1>3, RegistryStays
  <2> QED BY <1>3, <2>1, RegistryFits
<1>13. TypeOK'
  <2>1. visiting' \in {<<>>} \cup (Nat \X Nat)
    BY <1>5, <1>7, <1>9
  <2>2. /\ algebra' \in Algebras /\ limits' \in Limits /\ units' \in Nat
        /\ count' \in [slots : Nat, verified : Nat, new : Nat, repeated : Nat]
        /\ pc' \in {"root", "walk", "incomplete", "closed", "defect", "error"}
    BY <1>1, <1>3 DEF TypeOK
  <2> QED BY <1>6, <1>10, <1>11, <1>12, <2>1, <2>2 DEF TypeOK
<1>14. FrontierInv'
  <2>1. Len(queue') <= Len(vertices') /\ \A i \in DOMAIN queue' : queue'[i] = Current' + i
    BY <1>3, <1>4, <1>6
  <2>2. \A v \in DOMAIN vertices' :
          /\ Undecided(v)' >= 0
          /\ v < Current' => Undecided(v)' = 0
          /\ v > Current' => vertices'[v].slots = <<>>
    BY <1>1, <1>3, <1>4, <1>5, <1>6, <1>8, <1>11 DEF FrontierInv
  <2>3. visiting' = <<>> => Undecided(c)' = 0
    BY <1>5, <1>7, <1>9, <1>11
  <2>4. Undecided(Current)' = Undecided(c)' /\ (V' = c => Undecided(V)' = Undecided(c)')
    BY <1>3, <1>6, <1>9 DEF Undecided
  <2>5. visiting' # <<>> =>
          /\ V' = Current' /\ V' > 0
          /\ S' = Len(vertices'[V'].slots) + 1 /\ Undecided(V)' > 0
    <3> SUFFICES ASSUME visiting' # <<>>
                 PROVE  /\ V' = Current' /\ V' > 0
                        /\ S' = Len(vertices'[V'].slots) + 1 /\ Undecided(V)' > 0
      OBVIOUS
    <3>1. n > 0
      BY <1>7, <1>9
    <3>2. V' = c /\ S' = 1 /\ Undecided(V)' = n
      BY <1>5, <1>7, <1>9, <1>11, <2>4, <3>1
    <3>3. Len(vertices'[V'].slots) = 0
      BY <1>3, <1>7, <3>2
    <3> QED BY <1>5, <1>6, <3>1, <3>2, <3>3
  <2>6. vertices' # <<>>
    BY <1>3, <1>4
  <2> QED BY <1>1, <1>3, <1>10, <2>1, <2>2, <2>3, <2>4, <2>5, <2>6 DEF FrontierInv
<1> QED BY <1>11, <1>12, <1>13, <1>14 DEF WalkInv

-----------------------------------------------------------------------------
(* A step that decides a slot.                                             *)

\* vs are the vertices and those just queued
Widens(vs) ==
  /\ vs \in Seq(VertexType) /\ Len(vertices) <= Len(vs)
  /\ \A u \in DOMAIN vertices : vs[u] = vertices[u]
  /\ \A u \in DOMAIN vs \ DOMAIN vertices : vs[u].slots = <<>>
  /\ queue' \in Seq(Nat) /\ Len(queue') + Len(vertices) = Len(queue) + Len(vs)
  /\ \A i \in DOMAIN queue' : queue'[i] = Current + i

\* The open slots of vs, and its current vertex.
LEMMA WidensFacts ==
  ASSUME TypeOK, FrontierInv, pc = "walk", visiting # <<>>, NEW vs, Widens(vs)
  PROVE  /\ vs \in Seq(VertexType) /\ V \in DOMAIN vs /\ DOMAIN vertices \subseteq DOMAIN vs
         /\ \A u \in DOMAIN vs : Open(vs, u) \in Nat /\ (u < V => Open(vs, u) = 0)
         /\ \A u \in DOMAIN vs : u > V => vs[u].slots = <<>>
         /\ Open(vs, V) = N + 1 - S /\ Len(vs[V].slots) = S - 1
<1>1. /\ V \in DOMAIN vertices /\ V \in Nat /\ V > 0 /\ V = Current
      /\ N \in Nat /\ S \in 1 .. N /\ S = Len(vertices[V].slots) + 1
      /\ N = Len(vertices[V].pair.module)
  BY SlotFacts
<1>2. /\ vs \in Seq(VertexType) /\ \A u \in DOMAIN vertices : vs[u] = vertices[u]
      /\ \A u \in DOMAIN vs \ DOMAIN vertices : vs[u].slots = <<>>
      /\ Len(vertices) <= Len(vs)
  BY DEF Widens
<1>3. /\ DOMAIN vertices = 1 .. Len(vertices) /\ DOMAIN vs = 1 .. Len(vs)
      /\ Len(vertices) \in Nat /\ Len(vs) \in Nat /\ algebra \in Algebras
  BY <1>2 DEF TypeOK
<1>4. DOMAIN vertices \subseteq DOMAIN vs
  BY <1>2, <1>3
<1>5. \A u \in DOMAIN vertices :
        /\ Open(vs, u) = Undecided(u) /\ Undecided(u) \in Int
        /\ Undecided(u) >= 0 /\ (u < V => Undecided(u) = 0)
        /\ (u > V => vertices[u].slots = <<>>)
  <2> SUFFICES ASSUME NEW u \in DOMAIN vertices
               PROVE  /\ Open(vs, u) = Undecided(u) /\ Undecided(u) \in Int
                      /\ Undecided(u) >= 0 /\ (u < V => Undecided(u) = 0)
                      /\ (u > V => vertices[u].slots = <<>>)
    OBVIOUS
  <2>1. Undecided(u) \in Int
    BY VertexFields DEF Undecided
  <2>2. Open(vs, u) = Undecided(u)
    BY <1>2, Zenon DEF Open, Undecided
  <2>3. /\ Undecided(u) >= 0 /\ (u < Current => Undecided(u) = 0)
        /\ (u > Current => vertices[u].slots = <<>>)
    BY DEF FrontierInv
  <2> QED BY <1>1, <2>1, <2>2, <2>3
<1>6. \A u \in DOMAIN vs \ DOMAIN vertices : Open(vs, u) \in Nat /\ u > V
  <2> SUFFICES ASSUME NEW u \in DOMAIN vs \ DOMAIN vertices
               PROVE  Open(vs, u) \in Nat /\ u > V
    OBVIOUS
  <2>1. u > V
    BY <1>1, <1>3
  <2>2. vs[u].pair \in DOMAIN algebra.left
    <3>1. vs[u] \in VertexType
      BY <1>2
    <3> QED BY <3>1 DEF VertexType
  <2>3. Len(vs[u].pair.module) \in Nat /\ Len(vs[u].slots) = 0
    BY <1>2, <1>3, <2>2, PairData
  <2> QED BY <2>1, <2>3 DEF Open
<1>7. \A u \in DOMAIN vs : Open(vs, u) \in Nat /\ (u < V => Open(vs, u) = 0)
                           /\ (u > V => vs[u].slots = <<>>)
  <2> SUFFICES ASSUME NEW u \in DOMAIN vs
               PROVE  Open(vs, u) \in Nat /\ (u < V => Open(vs, u) = 0)
                      /\ (u > V => vs[u].slots = <<>>)
    OBVIOUS
  <2>1. CASE u \in DOMAIN vertices
    BY <1>2, <1>5, <2>1
  <2>2. CASE u \notin DOMAIN vertices
    BY <1>1, <1>2, <1>3, <1>6, <2>2
  <2> QED BY <2>1, <2>2
<1>8. Open(vs, V) = N + 1 - S /\ Len(vs[V].slots) = S - 1
  <2>1. vs[V] = vertices[V]
    BY <1>1, <1>2
  <2>2. Open(vs, V) = Len(vertices[V].pair.module) - Len(vertices[V].slots)
    BY <2>1, Zenon DEF Open
  <2>3. PICK m, n : m = Len(vertices[V].slots) /\ n = Len(vertices[V].pair.module)
    OBVIOUS
  <2>4. m \in Nat /\ S = m + 1 /\ N = n /\ Open(vs, V) = n - m /\ Len(vs[V].slots) = m
    BY <1>1, <2>1, <2>2, <2>3, VertexFields
  <2> QED BY <1>1, <2>4
<1> QED BY <1>1, <1>2, <1>4, <1>7, <1>8

\* Deciding a slot keeps the frontier.
LEMMA DecidesFrontier ==
  ASSUME TypeOK, FrontierInv, NEW vs, Widens(vs), NEW record \in SUBSET Nat, Decides(vs, record)
  PROVE  /\ FrontierInv' /\ OneMoreRecord(vs, V, record, vertices')
         /\ visiting' \in {<<>>} \cup (Nat \X Nat) /\ at' \in [vertex : Nat, slot : Nat]
         /\ units' \in Nat /\ pc' \in {"walk", "incomplete"}
<1>1. /\ pc = "walk" /\ visiting # <<>> /\ units <= limits.work /\ UNCHANGED <<algebra, limits>>
      /\ vertices' = [vs EXCEPT ![V].slots = Append(@, record)]
  BY DEF Decides
<1>2. PICK spent \in Nat : NextSlot(V, S, N, spent)
  BY DEF Decides
<1>3. PICK c, s, n : c = V /\ s = S /\ n = N
  OBVIOUS
<1>4. /\ c \in DOMAIN vertices /\ c \in Nat /\ c > 0 /\ c = Current /\ visiting = <<c, s>>
      /\ n \in Nat /\ s \in 1 .. n
  BY <1>1, <1>3, SlotFacts
<1>5. /\ units' = spent
      /\ IF spent > limits.work
         THEN pc' = "incomplete" /\ at' = [vertex |-> c, slot |-> s] /\ visiting' = visiting
         ELSE /\ visiting' = IF s + 1 <= n THEN <<c, s + 1>> ELSE <<>>
              /\ at' = [vertex |-> c, slot |-> IF s < n THEN s ELSE 0]
              /\ pc' = "walk"
  BY <1>1, <1>2, <1>3 DEF NextSlot, OverWorkBudget, Stop, Slot
<1>6. /\ vs \in Seq(VertexType) /\ c \in DOMAIN vs /\ DOMAIN vertices \subseteq DOMAIN vs
      /\ \A u \in DOMAIN vs : Open(vs, u) \in Nat /\ (u < c => Open(vs, u) = 0)
      /\ \A u \in DOMAIN vs : u > c => vs[u].slots = <<>>
      /\ Open(vs, c) = n + 1 - s /\ Len(vs[c].slots) = s - 1
  BY <1>1, <1>3, WidensFacts
<1>7. OneMoreRecord(vs, V, record, vertices')
  BY <1>1, <1>3, <1>6 DEF OneMoreRecord
<1>8. PICK ws : ws = vertices'
  OBVIOUS
<1>9. /\ ws \in Seq(VertexType) /\ Len(ws) = Len(vs) /\ DOMAIN ws = DOMAIN vs
      /\ \A u \in DOMAIN vs : u # c => ws[u].slots = vs[u].slots
      /\ ws[c].slots = Append(vs[c].slots, record)
  <2>1. OneMoreRecord(vs, c, record, ws)
    BY <1>3, <1>7, <1>8
  <2> QED BY <2>1, RecordAppended
<1>10. /\ Open(ws, c) + 1 = Open(vs, c)
       /\ \A u \in DOMAIN ws : Open(ws, u) \in Nat /\ (u # c => Open(ws, u) = Open(vs, u))
  <2>1. OneMoreRecord(vs, c, record, ws) /\ Open(vs, c) > 0 /\ algebra \in Algebras
    BY <1>3, <1>4, <1>6, <1>7, <1>8 DEF TypeOK
  <2> QED BY <1>6, <2>1, OpenSlotsDecided
<1>11. Open(ws, c) = n - s /\ Len(ws[c].slots) = s
  <2>1. PICK q : q = vs[c].slots /\ q \in Seq(SUBSET Nat)
    <3>1. vs[c] \in VertexType
      BY <1>6
    <3> QED BY <3>1 DEF VertexType
  <2>2. Len(Append(q, record)) = Len(q) + 1
    BY <2>1
  <2>3. Len(ws[c].slots) = s
    BY <1>4, <1>6, <1>9, <2>1, <2>2
  <2>4. PICK o \in Nat : o = Open(ws, c)
    BY <1>6, <1>9, <1>10
  <2>5. o + 1 = n + 1 - s /\ n \in Nat /\ s \in Nat
    BY <1>4, <1>6, <1>10, <2>4
  <2> QED BY <2>3, <2>4, <2>5
<1>12. /\ queue' \in Seq(Nat) /\ Len(queue') \in Nat /\ Len(queue) \in Nat
       /\ Len(vertices) \in Nat /\ Len(vs) \in Nat /\ Len(vertices) <= Len(vs)
       /\ Len(queue) <= Len(vertices)
       /\ Len(queue') + Len(vertices) = Len(queue) + Len(vs)
       /\ \A i \in DOMAIN queue' : queue'[i] = Current + i
  <2>1. /\ queue' \in Seq(Nat) /\ vs \in Seq(VertexType) /\ Len(vertices) <= Len(vs)
        /\ Len(queue') + Len(vertices) = Len(queue) + Len(vs)
        /\ \A i \in DOMAIN queue' : queue'[i] = Current + i
    BY DEF Widens
  <2>2. Len(queue) \in Nat /\ Len(vertices) \in Nat
    BY DEF TypeOK
  <2>3. Len(queue) <= Len(vertices)
    BY DEF FrontierInv
  <2>4. Len(queue') \in Nat /\ Len(vs) \in Nat
    BY <2>1
  <2> QED BY <2>1, <2>2, <2>3, <2>4
<1>13. Current' = c /\ Len(queue') <= Len(ws)
  BY <1>4, <1>8, <1>9, <1>12 DEF Current
<1>14. \A u \in DOMAIN ws : Undecided(u)' = Open(ws, u)
  BY <1>8 DEF Undecided, Open
<1>15. /\ visiting' \in {<<>>} \cup (Nat \X Nat) /\ at' \in [vertex : Nat, slot : Nat]
       /\ units' \in Nat /\ pc' \in {"walk", "incomplete"}
  BY <1>4, <1>5
<1>16. FrontierInv'
  <2>1. Len(queue') <= Len(vertices') /\ \A i \in DOMAIN queue' : queue'[i] = Current' + i
    BY <1>4, <1>8, <1>12, <1>13
  <2>2. \A u \in DOMAIN ws :
          /\ Open(ws, u) >= 0
          /\ u < c => Open(ws, u) = 0
          /\ u > c => ws[u].slots = <<>>
    BY <1>4, <1>6, <1>9, <1>10
  <2>3. \A u \in DOMAIN vertices' :
          /\ Undecided(u)' >= 0
          /\ u < Current' => Undecided(u)' = 0
          /\ u > Current' => vertices'[u].slots = <<>>
    BY <1>8, <1>13, <1>14, <2>2
  <2>4. vertices' # <<>> /\ Undecided(Current)' = n - s
    <3>1. Undecided(Current)' = Open(ws, c)
      BY <1>8, <1>13 DEF Undecided, Open
    <3> QED BY <1>6, <1>8, <1>9, <1>11, <3>1
  <2>5. at'.vertex = c
    BY <1>5
  <2>6. CASE spent > limits.work
    <3>1. pc' = "incomplete"
      BY <1>5, <2>6
    <3> QED BY <1>13, <2>1, <2>3, <2>5, <3>1 DEF FrontierInv
  <2>7. CASE ~(spent > limits.work) /\ s + 1 <= n
    <3>1. pc' = "walk" /\ visiting' = <<c, s + 1>> /\ ~(units' > limits'.work)
      BY <1>1, <1>5, <2>7
    <3>2. V' = c /\ S' = s + 1 /\ visiting' # <<>>
      BY <3>1 DEF V, S
    <3>3. Undecided(V)' = n - s
      BY <1>8, <1>11, <3>2 DEF Undecided, Open
    <3>4. /\ V' = Current' /\ V' > 0
          /\ S' = Len(vertices'[V'].slots) + 1 /\ Undecided(V)' > 0
      BY <1>4, <1>8, <1>11, <1>13, <2>7, <3>2, <3>3
    <3> QED BY <2>1, <2>3, <2>4, <3>1, <3>2, <3>4 DEF FrontierInv
  <2>8. CASE ~(spent > limits.work) /\ ~(s + 1 <= n)
    <3>1. pc' = "walk" /\ visiting' = <<>> /\ ~(units' > limits'.work)
      BY <1>1, <1>5, <2>8
    <3>2. Undecided(Current)' = 0
      BY <1>4, <2>4, <2>8
    <3> QED BY <2>1, <2>3, <2>4, <3>1, <3>2 DEF FrontierInv
  <2> QED BY <2>6, <2>7, <2>8
<1> QED BY <1>7, <1>15, <1>16

\* ws has the records of the vertices, and one in addition for the slot visited
Decided(vs, record, ws) ==
  /\ DOMAIN ws = DOMAIN vs /\ DOMAIN vertices \subseteq DOMAIN vs
  /\ \A u \in DOMAIN vs : ws[u].pair = vs[u].pair
  /\ \A u \in DOMAIN vertices : ws[u].pair = vertices[u].pair
  /\ \A u \in DOMAIN vertices : \A s \in DOMAIN vertices[u].slots :
       s \in DOMAIN ws[u].slots /\ ws[u].slots[s] = vertices[u].slots[s]
  /\ S \in DOMAIN ws[V].slots /\ ws[V].slots[S] = record
  /\ \A u \in DOMAIN ws : \A s \in DOMAIN ws[u].slots :
       (u = V /\ s = S) \/ (u \in DOMAIN vertices /\ s \in DOMAIN vertices[u].slots)

\* A record appended to the vertex at work decides its slot and no other.
LEMMA SlotsDecided ==
  ASSUME TypeOK, FrontierInv, pc = "walk", visiting # <<>>, NEW vs, Widens(vs),
         NEW record, NEW ws, OneMoreRecord(vs, V, record, ws)
  PROVE  Decided(vs, record, ws)
<1>1. PICK c, s : c = V /\ s = S
  OBVIOUS
<1>2. /\ c \in DOMAIN vertices /\ s = Len(vertices[c].slots) + 1
  BY <1>1, SlotFacts
<1>3. /\ vs \in Seq(VertexType) /\ DOMAIN vertices \subseteq DOMAIN vs
  BY WidensFacts
<1>4. /\ \A u \in DOMAIN vertices : vs[u] = vertices[u]
      /\ \A u \in DOMAIN vs \ DOMAIN vertices : vs[u].slots = <<>>
  BY DEF Widens
<1>5. /\ DOMAIN ws = DOMAIN vs
      /\ \A u \in DOMAIN vs : ws[u].pair = vs[u].pair
      /\ \A u \in DOMAIN vs : u # c => ws[u].slots = vs[u].slots
      /\ ws[c].slots = Append(vs[c].slots, record)
  <2>1. OneMoreRecord(vs, c, record, ws)
    BY <1>1
  <2> QED BY <2>1, RecordAppended
<1>6. /\ DOMAIN ws[c].slots = DOMAIN vertices[c].slots \cup {s}
      /\ \A i \in DOMAIN vertices[c].slots : ws[c].slots[i] = vertices[c].slots[i]
      /\ ws[c].slots[s] = record
  <2>1. PICK q : q = vertices[c].slots /\ q \in Seq(SUBSET Nat)
    BY <1>2, VertexFields
  <2>2. record \in SUBSET Nat
    BY DEF OneMoreRecord
  <2>3. ws[c].slots = Append(q, record) /\ s = Len(q) + 1
    BY <1>2, <1>4, <1>5, <2>1
  <2>4. /\ DOMAIN Append(q, record) = DOMAIN q \cup {Len(q) + 1}
        /\ \A i \in DOMAIN q : Append(q, record)[i] = q[i]
        /\ Append(q, record)[Len(q) + 1] = record
    BY <2>1, <2>2
  <2> QED BY <2>1, <2>3, <2>4
<1>7. \A u \in DOMAIN vertices : ws[u].pair = vertices[u].pair
  BY <1>3, <1>4, <1>5
<1>8. \A u \in DOMAIN vertices : \A i \in DOMAIN vertices[u].slots :
        i \in DOMAIN ws[u].slots /\ ws[u].slots[i] = vertices[u].slots[i]
  <2> SUFFICES ASSUME NEW u \in DOMAIN vertices, NEW i \in DOMAIN vertices[u].slots
               PROVE  i \in DOMAIN ws[u].slots /\ ws[u].slots[i] = vertices[u].slots[i]
    OBVIOUS
  <2>1. CASE u = c
    BY <1>6, <2>1
  <2>2. CASE u # c
    BY <1>3, <1>4, <1>5, <2>2
  <2> QED BY <2>1, <2>2
<1>9. \A u \in DOMAIN ws : \A i \in DOMAIN ws[u].slots :
        (u = c /\ i = s) \/ (u \in DOMAIN vertices /\ i \in DOMAIN vertices[u].slots)
  <2> SUFFICES ASSUME NEW u \in DOMAIN ws, NEW i \in DOMAIN ws[u].slots
               PROVE  (u = c /\ i = s) \/ (u \in DOMAIN vertices /\ i \in DOMAIN vertices[u].slots)
    OBVIOUS
  <2>1. CASE u = c
    BY <1>2, <1>6, <2>1
  <2>2. CASE u # c /\ u \in DOMAIN vertices
    BY <1>3, <1>4, <1>5, <2>2
  <2>3. CASE u # c /\ u \notin DOMAIN vertices
    <3>1. ws[u].slots = <<>> /\ DOMAIN <<>> = {}
      BY <1>4, <1>5, <2>3
    <3> QED BY <3>1
  <2> QED BY <2>1, <2>2, <2>3
<1> QED BY <1>1, <1>3, <1>5, <1>6, <1>7, <1>8, <1>9 DEF Decided

\* A slot decided without an edge keeps the graph.
LEMMA NoEdgeDecided ==
  ASSUME WalkInv, pc = "walk", visiting # <<>>, algebra' = algebra, mutations' = mutations,
         algebra.left[Source][S] = {}, Decided(vertices, {}, vertices')
  PROVE  GraphInv'
<1>1. PICK ws, c, s : ws = vertices' /\ c = V /\ s = S
  OBVIOUS
<1>2. /\ DOMAIN ws = DOMAIN vertices
      /\ \A u \in DOMAIN vertices : ws[u].pair = vertices[u].pair
      /\ \A u \in DOMAIN vertices : \A i \in DOMAIN vertices[u].slots :
           i \in DOMAIN ws[u].slots /\ ws[u].slots[i] = vertices[u].slots[i]
      /\ ws[c].slots[s] = {}
      /\ \A u \in DOMAIN ws : \A i \in DOMAIN ws[u].slots :
           (u = c /\ i = s) \/ (u \in DOMAIN vertices /\ i \in DOMAIN vertices[u].slots)
  BY <1>1 DEF Decided
<1>3. TypeOK /\ FrontierInv /\ EdgesInv /\ RecordsInv /\ PairsInv
  BY DEF WalkInv, GraphInv
<1>4. c \in DOMAIN vertices /\ algebra.left[vertices[c].pair][s] = {}
  BY <1>1, <1>3, SlotFacts
<1>5. EdgesInv'
  <2> SUFFICES ASSUME NEW e \in DOMAIN mutations
               PROVE  /\ mutations[e].source \in DOMAIN ws /\ mutations[e].target \in DOMAIN ws
                      /\ mutations[e].slot \in DOMAIN ws[mutations[e].source].slots
                      /\ ws[mutations[e].source].slots[mutations[e].slot] = {e}
                      /\ algebra.left[ws[mutations[e].source].pair][mutations[e].slot]
                           = {ws[mutations[e].target].pair}
    BY <1>1 DEF EdgesInv
  <2>1. PICK u, i, t : u = mutations[e].source /\ i = mutations[e].slot /\ t = mutations[e].target
    OBVIOUS
  <2>2. /\ u \in DOMAIN vertices /\ t \in DOMAIN vertices
        /\ i \in DOMAIN vertices[u].slots /\ vertices[u].slots[i] = {e}
        /\ algebra.left[vertices[u].pair][i] = {vertices[t].pair}
    BY <1>3, <2>1 DEF EdgesInv
  <2>3. i \in DOMAIN ws[u].slots /\ ws[u].slots[i] = {e}
    BY <1>2, <2>2
  <2> QED BY <1>2, <2>1, <2>2, <2>3
<1>6. RecordsInv'
  <2> SUFFICES ASSUME NEW u \in DOMAIN ws, NEW i \in DOMAIN ws[u].slots
               PROVE  \/ ws[u].slots[i] = {} /\ algebra.left[ws[u].pair][i] = {}
                      \/ \E e \in DOMAIN mutations :
                           ws[u].slots[i] = {e} /\ mutations[e].source = u /\ mutations[e].slot = i
    BY <1>1 DEF RecordsInv, Recorded
  <2>1. CASE u = c /\ i = s
    BY <1>2, <1>4, <2>1
  <2>2. CASE u \in DOMAIN vertices /\ i \in DOMAIN vertices[u].slots
    <3>1. \/ vertices[u].slots[i] = {} /\ algebra.left[vertices[u].pair][i] = {}
          \/ \E e \in DOMAIN mutations :
               vertices[u].slots[i] = {e} /\ mutations[e].source = u /\ mutations[e].slot = i
      <4>1. Recorded(u, i)
        BY <1>3, <2>2, Zenon DEF RecordsInv
      <4> QED BY <4>1 DEF Recorded
    <3>2. ws[u].slots[i] = vertices[u].slots[i] /\ ws[u].pair = vertices[u].pair
      BY <1>2, <2>2
    <3> QED BY <3>1, <3>2
  <2> QED BY <1>2, <2>1, <2>2
<1>7. PairsInv'
  <2>1. vertices # <<>> /\ 1 \in DOMAIN vertices
    <3>1. DOMAIN vertices = 1 .. Len(vertices) /\ Len(vertices) \in Nat
      BY <1>3 DEF TypeOK
    <3> QED BY <1>4, <3>1
  <2>2. ws[1].pair = algebra.regular
    BY <1>2, <1>3, <2>1 DEF PairsInv
  <2> QED BY <1>1, <1>2, <1>3, <2>2 DEF PairsInv
<1> QED BY <1>5, <1>6, <1>7 DEF GraphInv

\* A slot decided by an edge keeps the graph.
LEMMA EdgeDecided ==
  ASSUME WalkInv, pc = "walk", visiting # <<>>, algebra' = algebra,
         NEW vs, Decided(vs, {Len(mutations) + 1}, vertices'),
         NEW target \in DOMAIN vs, vs[target].pair = Outcome, Leads(target),
         \A u \in DOMAIN vs \ DOMAIN vertices : u = target /\ V < u,
         \A u, w \in DOMAIN vs : vs[u].pair = vs[w].pair => u = w
  PROVE  GraphInv'
<1>1. PICK ws, ms, c, s, new :
        ws = vertices' /\ ms = mutations' /\ c = V /\ s = S /\ new = Len(mutations) + 1
  OBVIOUS
<1>2. /\ DOMAIN ws = DOMAIN vs /\ DOMAIN vertices \subseteq DOMAIN vs
      /\ \A u \in DOMAIN vs : ws[u].pair = vs[u].pair
      /\ \A u \in DOMAIN vertices : ws[u].pair = vertices[u].pair
      /\ \A u \in DOMAIN vertices : \A i \in DOMAIN vertices[u].slots :
           i \in DOMAIN ws[u].slots /\ ws[u].slots[i] = vertices[u].slots[i]
      /\ s \in DOMAIN ws[c].slots /\ ws[c].slots[s] = {new}
      /\ \A u \in DOMAIN ws : \A i \in DOMAIN ws[u].slots :
           (u = c /\ i = s) \/ (u \in DOMAIN vertices /\ i \in DOMAIN vertices[u].slots)
  BY <1>1 DEF Decided
<1>3. TypeOK /\ FrontierInv /\ EdgesInv /\ RecordsInv /\ PairsInv
  BY DEF WalkInv, GraphInv
<1>4. c \in DOMAIN vertices /\ algebra.left[vertices[c].pair][s] = {Outcome}
      /\ c \in Nat /\ s \in Nat
  <2>1. /\ V \in DOMAIN vertices /\ V \in Nat /\ S \in 1 .. N /\ N \in Nat
        /\ Source = vertices[V].pair
    BY <1>3, SlotFacts
  <2> QED BY <1>1, <2>1 DEF Leads
<1>5. /\ DOMAIN ms = DOMAIN mutations \cup {new} /\ new \notin DOMAIN mutations
      /\ \A e \in DOMAIN mutations : ms[e] = mutations[e]
      /\ ms[new].source = c /\ ms[new].slot = s /\ ms[new].target = target
  <2>1. PICK m : m = [source |-> c, slot |-> s, target |-> target]
    OBVIOUS
  <2>2. ms = Append(mutations, m) /\ mutations \in Seq([source : Nat, slot : Nat, target : Nat])
    BY <1>1, <1>3, <2>1 DEF Leads, TypeOK
  <2>3. m.source = c /\ m.slot = s /\ m.target = target
    BY <2>1, SMTT(30)
  <2> QED BY <1>1, <2>2, <2>3
<1>6. EdgesInv'
  <2> SUFFICES ASSUME NEW e \in DOMAIN ms
               PROVE  /\ ms[e].source \in DOMAIN ws /\ ms[e].target \in DOMAIN ws
                      /\ ms[e].slot \in DOMAIN ws[ms[e].source].slots
                      /\ ws[ms[e].source].slots[ms[e].slot] = {e}
                      /\ algebra.left[ws[ms[e].source].pair][ms[e].slot] = {ws[ms[e].target].pair}
    BY <1>1 DEF EdgesInv
  <2>1. PICK u, i, t : u = ms[e].source /\ i = ms[e].slot /\ t = ms[e].target
    OBVIOUS
  <2>2. CASE e \in DOMAIN mutations
    <3>1. /\ u \in DOMAIN vertices /\ t \in DOMAIN vertices
          /\ i \in DOMAIN vertices[u].slots /\ vertices[u].slots[i] = {e}
          /\ algebra.left[vertices[u].pair][i] = {vertices[t].pair}
      BY <1>3, <1>5, <2>1, <2>2 DEF EdgesInv
    <3>2. i \in DOMAIN ws[u].slots /\ ws[u].slots[i] = {e}
      BY <1>2, <3>1
    <3> QED BY <1>2, <2>1, <3>1, <3>2
  <2>3. CASE e = new
    <3>1. u = c /\ i = s /\ t = target
      BY <1>5, <2>1, <2>3
    <3>2. ws[t].pair = Outcome /\ ws[u].pair = vertices[c].pair
      BY <1>2, <1>4, <3>1
    <3> QED BY <1>2, <1>4, <2>1, <2>3, <3>1, <3>2
  <2> QED BY <1>5, <2>2, <2>3
<1>7. RecordsInv'
  <2> SUFFICES ASSUME NEW u \in DOMAIN ws, NEW i \in DOMAIN ws[u].slots
               PROVE  \/ ws[u].slots[i] = {} /\ algebra.left[ws[u].pair][i] = {}
                      \/ \E e \in DOMAIN ms :
                           ws[u].slots[i] = {e} /\ ms[e].source = u /\ ms[e].slot = i
    <3>1. ASSUME NEW u \in DOMAIN vertices', NEW i \in DOMAIN vertices'[u].slots
          PROVE  Recorded(u, i)' <=>
                   \/ ws[u].slots[i] = {} /\ algebra.left[ws[u].pair][i] = {}
                   \/ \E e \in DOMAIN ms :
                        ws[u].slots[i] = {e} /\ ms[e].source = u /\ ms[e].slot = i
      BY <1>1 DEF Recorded
    <3> QED BY <1>1, <3>1, SMTT(30) DEF RecordsInv
  <2>1. CASE u = c /\ i = s
    BY <1>2, <1>5, <2>1
  <2>2. CASE u \in DOMAIN vertices /\ i \in DOMAIN vertices[u].slots
    <3>1. \/ vertices[u].slots[i] = {} /\ algebra.left[vertices[u].pair][i] = {}
          \/ \E e \in DOMAIN mutations :
               vertices[u].slots[i] = {e} /\ mutations[e].source = u /\ mutations[e].slot = i
      <4>1. Recorded(u, i)
        BY <1>3, <2>2, Zenon DEF RecordsInv
      <4> QED BY <4>1 DEF Recorded
    <3>2. ws[u].slots[i] = vertices[u].slots[i] /\ ws[u].pair = vertices[u].pair
      BY <1>2, <2>2
    <3> QED BY <1>5, <3>1, <3>2
  <2> QED BY <1>2, <2>1, <2>2
<1>8. PairsInv'
  <2>1. ws[1].pair = algebra.regular
    <3>1. DOMAIN vertices = 1 .. Len(vertices) /\ Len(vertices) \in Nat
      BY <1>3 DEF TypeOK
    <3>2. vertices # <<>> /\ 1 \in DOMAIN vertices
      BY <1>4, <3>1
    <3> QED BY <1>2, <1>3, <3>2 DEF PairsInv
  <2>2. \A u, w \in DOMAIN ws : ws[u].pair = ws[w].pair => u = w
    BY <1>2
  <2>3. \A u \in DOMAIN ws :
          u > 1 => \E e \in DOMAIN ms : ms[e].target = u /\ ms[e].source < u
    <3> SUFFICES ASSUME NEW u \in DOMAIN ws, u > 1
                 PROVE  \E e \in DOMAIN ms : ms[e].target = u /\ ms[e].source < u
      OBVIOUS
    <3>1. CASE u \in DOMAIN vertices
      <4>1. PICK e \in DOMAIN mutations : mutations[e].target = u /\ mutations[e].source < u
        BY <1>3, <3>1 DEF PairsInv
      <4> QED BY <1>5, <4>1
    <3>2. CASE u \notin DOMAIN vertices
      <4>1. u = target /\ c < u
        BY <1>1, <1>2, <3>2
      <4> QED BY <1>5, <4>1
    <3> QED BY <3>1, <3>2
  <2> QED BY <1>1, <2>1, <2>2, <2>3 DEF PairsInv
<1> QED BY <1>6, <1>7, <1>8 DEF GraphInv

\* What is left of the invariant when the graph and the counts are shown.
LEMMA DecidesInv ==
  ASSUME WalkInv, NEW vs, Widens(vs), NEW record \in SUBSET Nat, Decides(vs, record),
         mutations' \in Seq([source : Nat, slot : Nat, target : Nat]),
         count' \in [slots : Nat, verified : Nat, new : Nat, repeated : Nat],
         CountInv', GraphInv',
         \A u \in DOMAIN vs : Names(vs[u].indices, vs[u].pair.module, registry'.entries)
  PROVE  WalkInv'
<1>1. TypeOK /\ FrontierInv
  BY DEF WalkInv
<1>2. /\ FrontierInv' /\ OneMoreRecord(vs, V, record, vertices')
      /\ visiting' \in {<<>>} \cup (Nat \X Nat) /\ at' \in [vertex : Nat, slot : Nat]
      /\ units' \in Nat /\ pc' \in {"walk", "incomplete"}
  BY <1>1, DecidesFrontier
<1>3. algebra' = algebra /\ limits' = limits /\ Grown(registry')
  BY DEF Decides
<1>4. /\ vertices' \in Seq(VertexType) /\ DOMAIN vertices' = DOMAIN vs
      /\ \A u \in DOMAIN vs : vertices'[u].pair = vs[u].pair /\ vertices'[u].indices = vs[u].indices
  <2>1. PICK c, ws : c = V /\ ws = vertices'
    OBVIOUS
  <2>2. OneMoreRecord(vs, c, record, ws)
    BY <1>2, <2>1
  <2>3. /\ ws \in Seq(VertexType) /\ DOMAIN ws = DOMAIN vs
        /\ \A u \in DOMAIN vs : ws[u].pair = vs[u].pair /\ ws[u].indices = vs[u].indices
    BY <2>2, RecordAppended
  <2> QED BY <2>1, <2>3
<1>5. VertexType' = VertexType /\ EntryType' = EntryType
  BY <1>3 DEF VertexType, EntryType
<1>6. queue' \in Seq(Nat)
  BY DEF Widens
<1>7. registry' \in [entries : Seq(EntryType), next : Nat]
      /\ OneIndexEach(registry'.entries, registry'.next)
  BY <1>3 DEF Grown, RegistryType
<1>8. TypeOK'
  <2>1. algebra' \in Algebras /\ limits' \in Limits
    BY <1>1, <1>3 DEF TypeOK
  <2> QED BY <1>2, <1>4, <1>5, <1>6, <1>7, <2>1 DEF TypeOK
<1>9. RegistryInv'
  <2>1. \A u \in DOMAIN vertices' :
          Names(vertices'[u].indices, vertices'[u].pair.module, registry'.entries)
    BY <1>4
  <2> QED BY <1>7, <2>1, Zenon DEF RegistryInv, OneIndexEach, Names
<1> QED BY <1>2, <1>8, <1>9 DEF WalkInv

-----------------------------------------------------------------------------
(* The three decisions of a slot.                                          *)

\* the slots of vs that stay open, and the one decided
LEMMA OpenSlotsAfter ==
  ASSUME TypeOK, FrontierInv, NEW vs, Widens(vs), NEW record \in SUBSET Nat, Decides(vs, record)
  PROVE  /\ OpenSlots(vertices') + 1 = OpenSlots(vs) /\ Len(vertices') = Len(vs)
         /\ OpenSlots(vertices') \in Nat /\ OpenSlots(vs) \in Nat
<1>1. pc = "walk" /\ visiting # <<>> /\ algebra \in Algebras
  BY DEF Decides, TypeOK
<1>2. PICK c, ws : c = V /\ ws = vertices'
  OBVIOUS
<1>3. OneMoreRecord(vs, c, record, ws)
  BY <1>2, DecidesFrontier
<1>4. /\ vs \in Seq(VertexType) /\ (\A u \in DOMAIN vs : Open(vs, u) \in Nat)
      /\ Open(vs, c) > 0
  <2>1. /\ vs \in Seq(VertexType) /\ \A u \in DOMAIN vs : Open(vs, u) \in Nat
        /\ Open(vs, c) = N + 1 - S
    BY <1>1, <1>2, WidensFacts
  <2>2. N \in Nat /\ S \in 1 .. N
    BY <1>1, SlotFacts
  <2> QED BY <2>1, <2>2
<1>5. OpenSlots(ws) + 1 = OpenSlots(vs) /\ \A u \in DOMAIN ws : Open(ws, u) \in Nat
  BY <1>1, <1>3, <1>4, OpenSlotsDecided
<1>6. ws \in Seq(VertexType) /\ Len(ws) = Len(vs)
  BY <1>3, RecordAppended
<1>7. OpenSlots(ws) \in Nat /\ OpenSlots(vs) \in Nat
  BY <1>4, <1>5, <1>6, OpenSlotsSum
<1> QED BY <1>2, <1>5, <1>6, <1>7

\* without a new vertex the step widens nothing
LEMMA SameWidens ==
  ASSUME TypeOK, FrontierInv, queue' = queue
  PROVE  Widens(vertices)
<1>1. /\ vertices \in Seq(VertexType) /\ queue \in Seq(Nat)
      /\ Len(vertices) \in Nat /\ Len(queue) \in Nat
  BY DEF TypeOK
<1>2. \A i \in DOMAIN queue : queue[i] = Current + i
  BY DEF FrontierInv
<1> QED BY <1>1, <1>2 DEF Widens

\* The names of the vertices are kept by a registry that has grown.
LEMMA NamesDecided ==
  ASSUME WalkInv, Grown(registry')
  PROVE  \A u \in DOMAIN vertices :
           Names(vertices[u].indices, vertices[u].pair.module, registry'.entries)
BY NamesStay DEF WalkInv, RegistryInv, Grown

\* Recording that there is no left mutation keeps the invariant.
LEMMA NoLeftMutationInv ==
  ASSUME WalkInv, RecordNoLeftMutation
  PROVE  WalkInv'
<1>1. TypeOK /\ FrontierInv /\ RegistryInv /\ CountInv
  BY DEF WalkInv
<1>2. /\ Decides(vertices, {}) /\ algebra.left[Source][S] = {}
      /\ UNCHANGED <<mutations, queue>> /\ count' = [count EXCEPT !.verified = @ + 1]
  BY <1>1, NoLeftMutationDecides
<1>3. pc = "walk" /\ visiting # <<>> /\ algebra' = algebra /\ limits' = limits /\ Grown(registry')
  BY <1>2 DEF Decides
<1>4. Widens(vertices)
  BY <1>1, <1>2, SameWidens
<1>5. OneMoreRecord(vertices, V, {}, vertices')
  BY <1>1, <1>2, <1>4, DecidesFrontier
<1>6. GraphInv'
  <2>1. Decided(vertices, {}, vertices')
    BY <1>1, <1>3, <1>4, <1>5, SlotsDecided
  <2> QED BY <1>2, <1>3, <2>1, NoEdgeDecided
<1>7. count \in [slots : Nat, verified : Nat, new : Nat, repeated : Nat]
  BY <1>1 DEF TypeOK
<1>8. /\ count' \in [slots : Nat, verified : Nat, new : Nat, repeated : Nat]
      /\ count'.slots = count.slots /\ count'.verified = count.verified + 1
      /\ count'.new = count.new /\ count'.repeated = count.repeated
  BY <1>2, <1>7
<1>9. CountInv'
  <2>1. OpenSlots(vertices') + 1 = OpenSlots(vertices) /\ Len(vertices') = Len(vertices)
        /\ OpenSlots(vertices') \in Nat /\ OpenSlots(vertices) \in Nat
    BY <1>1, <1>2, <1>4, OpenSlotsAfter
  <2>2. count.slots \in Nat /\ count.verified \in Nat
    BY <1>7
  <2>3. count'.slots = count'.verified + OpenSlots(vertices')
    <3>1. count.slots = count.verified + OpenSlots(vertices)
      BY <1>1 DEF CountInv
    <3> QED BY <1>8, <2>1, <2>2, <3>1, SMTT(30)
  <2>4. vertices # <<>> /\ vertices' # <<>>
    <3>1. vertices # <<>>
      BY <1>1, <1>3 DEF FrontierInv
    <3>2. Len(vertices) \in Nat \ {0} /\ Len(<<>>) = 0
      BY <1>1, <3>1 DEF TypeOK
    <3> QED BY <2>1, <3>1, <3>2
  <2> QED BY <1>1, <1>2, <1>3, <1>8, <2>1, <2>3, <2>4 DEF CountInv, OpenSlots
<1>10. \A u \in DOMAIN vertices :
         Names(vertices[u].indices, vertices[u].pair.module, registry'.entries)
  BY <1>3, NamesDecided
<1>11. mutations' \in Seq([source : Nat, slot : Nat, target : Nat])
  BY <1>1, <1>2 DEF TypeOK
<1> QED BY <1>2, <1>4, <1>6, <1>8, <1>9, <1>10, <1>11, DecidesInv

\* Recording a known endpoint keeps it.
LEMMA RepeatedEndpointInv ==
  ASSUME WalkInv, RecordRepeatedEndpoint
  PROVE  WalkInv'
<1>1. TypeOK /\ FrontierInv /\ RegistryInv /\ CountInv /\ GraphInv
  BY DEF WalkInv
<1>2. PICK target \in DOMAIN vertices :
        /\ Decides(vertices, {Len(mutations) + 1}) /\ Leads(target)
        /\ vertices[target].pair = Outcome /\ UNCHANGED queue
        /\ count' = [count EXCEPT !.verified = @ + 1, !.repeated = @ + 1]
  BY <1>1, RepeatedEndpointDecides
<1>3. pc = "walk" /\ visiting # <<>> /\ algebra' = algebra /\ limits' = limits /\ Grown(registry')
  BY <1>2 DEF Decides
<1>4. Widens(vertices)
  BY <1>1, <1>2, SameWidens
<1>5. PICK record : record = {Len(mutations) + 1} /\ record \in SUBSET Nat
  <2>1. PICK n \in Nat : n = Len(mutations)
    BY <1>1 DEF TypeOK
  <2>2. {n + 1} \in SUBSET Nat
    OBVIOUS
  <2> QED BY <2>1, <2>2
<1>6. OneMoreRecord(vertices, V, record, vertices')
  BY <1>1, <1>2, <1>4, <1>5, DecidesFrontier
<1>7. GraphInv'
  <2>1. Decided(vertices, record, vertices')
    BY <1>1, <1>3, <1>4, <1>6, SlotsDecided
  <2>2. \A u, w \in DOMAIN vertices : vertices[u].pair = vertices[w].pair => u = w
    BY <1>1 DEF GraphInv, PairsInv
  <2> QED BY <1>2, <1>3, <1>5, <2>1, <2>2, EdgeDecided
<1>8. count \in [slots : Nat, verified : Nat, new : Nat, repeated : Nat]
  BY <1>1 DEF TypeOK
<1>9. /\ count' \in [slots : Nat, verified : Nat, new : Nat, repeated : Nat]
      /\ count'.slots = count.slots /\ count'.verified = count.verified + 1
      /\ count'.new = count.new /\ count'.repeated = count.repeated + 1
  <2>1. count' = [slots |-> count.slots, verified |-> count.verified + 1,
                  new |-> count.new, repeated |-> count.repeated + 1]
    BY <1>2, <1>8
  <2> QED BY <1>8, <2>1
<1>10. /\ mutations' \in Seq([source : Nat, slot : Nat, target : Nat])
       /\ Len(mutations') = Len(mutations) + 1 /\ Len(mutations) < limits.mutations
       /\ Len(mutations) \in Nat
  <2>1. PICK m : m = [source |-> V, slot |-> S, target |-> target]
    OBVIOUS
  <2>2. m \in [source : Nat, slot : Nat, target : Nat]
    <3>1. V \in Nat /\ N \in Nat /\ S \in 1 .. N
      BY <1>1, <1>3, SlotFacts
    <3>2. target \in Nat
      BY <1>1 DEF TypeOK
    <3> QED BY <2>1, <3>1, <3>2
  <2>3. mutations' = Append(mutations, m) /\ Len(mutations) < limits.mutations
    BY <1>2, <2>1 DEF Leads
  <2> QED BY <1>1, <2>2, <2>3 DEF TypeOK
<1>11. CountInv'
  <2>1. OpenSlots(vertices') + 1 = OpenSlots(vertices) /\ Len(vertices') = Len(vertices)
        /\ OpenSlots(vertices') \in Nat /\ OpenSlots(vertices) \in Nat
    BY <1>1, <1>2, <1>4, <1>5, OpenSlotsAfter
  <2>2. count.slots \in Nat /\ count.verified \in Nat /\ count.new \in Nat /\ count.repeated \in Nat
    BY <1>8
  <2>3. count'.slots = count'.verified + OpenSlots(vertices')
        /\ count'.new + count'.repeated = Len(mutations')
    <3>1. count.slots = count.verified + OpenSlots(vertices)
          /\ count.new + count.repeated = Len(mutations)
      BY <1>1 DEF CountInv
    <3>2. count'.slots = count'.verified + OpenSlots(vertices')
      <4>1. PICK a \in Nat, b \in Nat, n \in Nat :
              a = count.slots /\ b = count.verified /\ n = OpenSlots(vertices')
        BY <2>1, <2>2
      <4>2. count'.slots = a /\ count'.verified = b + 1 /\ a = b + (n + 1)
        BY <1>9, <2>1, <3>1, <4>1
      <4> QED BY <4>1, <4>2
    <3>3. count'.new + count'.repeated = Len(mutations')
      <4>1. PICK a \in Nat, b \in Nat, n \in Nat :
              a = count.new /\ b = count.repeated /\ n = Len(mutations)
        BY <1>10, <2>2
      <4>2. count'.new = a /\ count'.repeated = b + 1 /\ Len(mutations') = n + 1 /\ a + b = n
        BY <1>9, <1>10, <3>1, <4>1
      <4> QED BY <4>2
    <3> QED BY <3>2, <3>3
  <2>4. vertices # <<>> /\ vertices' # <<>>
    <3>1. vertices # <<>>
      BY <1>1, <1>3 DEF FrontierInv
    <3>2. Len(vertices) \in Nat \ {0} /\ Len(<<>>) = 0
      BY <1>1, <3>1 DEF TypeOK
    <3> QED BY <2>1, <3>1, <3>2
  <2>5. Len(mutations') <= limits'.mutations
    <3>1. limits.mutations \in Nat
      BY <1>1, LimitsAssumption DEF TypeOK
    <3> QED BY <1>3, <1>10, <3>1
  <2> QED BY <1>1, <1>3, <1>9, <2>1, <2>3, <2>4, <2>5 DEF CountInv, OpenSlots
<1>12. \A u \in DOMAIN vertices :
         Names(vertices[u].indices, vertices[u].pair.module, registry'.entries)
  BY <1>3, NamesDecided
<1> QED BY <1>2, <1>4, <1>5, <1>7, <1>9, <1>10, <1>11, <1>12, DecidesInv

\* the new vertex is queued behind the others
LEMMA NewWidens ==
  ASSUME TypeOK, FrontierInv, queue' = Append(queue, Len(vertices) + 1),
         NEW p, NEW indices, NEW vs, OneMoreVertex(vertices, p, indices, vs)
  PROVE  Widens(vs)
<1>1. Extends(vertices, p, indices, vs)
  BY VertexAppended
<1>2. PICK n \in Nat, m \in Nat : n = Len(vertices) /\ m = Len(queue)
  BY DEF TypeOK
<1>3. /\ vs \in Seq(VertexType) /\ Len(vs) = n + 1
      /\ DOMAIN vs = DOMAIN vertices \cup {n + 1} /\ vs[n + 1].slots = <<>>
      /\ \A u \in DOMAIN vertices : vs[u] = vertices[u]
  BY <1>1, <1>2 DEF Extends
<1>4. /\ queue' \in Seq(Nat) /\ Len(queue') = m + 1 /\ queue'[m + 1] = n + 1
      /\ DOMAIN queue' = DOMAIN queue \cup {m + 1}
      /\ \A i \in DOMAIN queue : queue'[i] = queue[i]
  <2>1. queue \in Seq(Nat) /\ queue' = Append(queue, n + 1) /\ n + 1 \in Nat
    BY <1>2 DEF TypeOK
  <2> QED BY <1>2, <2>1
<1>5. Current = n - m /\ \A i \in DOMAIN queue : queue[i] = Current + i
  BY <1>2 DEF Current, FrontierInv
<1>6. \A i \in DOMAIN queue' : queue'[i] = Current + i
  BY <1>4, <1>5
<1>7. \A u \in DOMAIN vs \ DOMAIN vertices : vs[u].slots = <<>>
  BY <1>3
<1> QED BY <1>2, <1>3, <1>4, <1>6, <1>7 DEF Widens

\* Recording a new vertex keeps it.
LEMMA NewVertexInv ==
  ASSUME WalkInv, RecordNewVertex
  PROVE  WalkInv'
<1>1. TypeOK /\ FrontierInv /\ RegistryInv /\ CountInv /\ GraphInv
  BY DEF WalkInv
<1>2. PICK p, indices, vs, l :
        p = Outcome /\ indices = Resolved.indices /\ vs = Pushed(Outcome, Resolved)
        /\ l = Len(p.module)
  OBVIOUS
<1>3. /\ Decides(vs, {Len(mutations) + 1}) /\ Leads(Len(vertices) + 1)
      /\ \A v \in DOMAIN vertices : vertices[v].pair # p
      /\ indices \in Seq(Nat)
      /\ Names(indices, p.module, registry'.entries)
      /\ Len(vertices) < limits.vertices /\ queue' = Append(queue, Len(vertices) + 1)
      /\ count' = [count EXCEPT !.slots = @ + l, !.new = @ + 1, !.verified = @ + 1]
  BY <1>1, <1>2, NewVertexDecides
<1>4. pc = "walk" /\ visiting # <<>> /\ algebra' = algebra /\ limits' = limits /\ Grown(registry')
  BY <1>3 DEF Decides
<1>5. OneMoreVertex(vertices, p, indices, vs) /\ p \in DOMAIN algebra.left /\ l \in Nat
  <2>1. vs = Append(vertices, [pair |-> p, slots |-> <<>>, indices |-> indices])
    BY <1>2 DEF Pushed
  <2>2. p \in DOMAIN algebra.left
    BY <1>2, <1>3 DEF Leads
  <2>3. l \in Nat
    BY <1>1, <1>2, <2>2, PairData DEF TypeOK
  <2> QED BY <1>1, <1>3, <2>1, <2>2, <2>3 DEF OneMoreVertex, TypeOK
<1>6. Widens(vs)
  BY <1>1, <1>3, <1>5, NewWidens
<1>7. PICK target : target = Len(vertices) + 1
  OBVIOUS
<1>8. /\ vs \in Seq(VertexType) /\ Len(vs) = target
      /\ DOMAIN vs = DOMAIN vertices \cup {target} /\ target \notin DOMAIN vertices
      /\ \A u \in DOMAIN vertices : vs[u] = vertices[u]
      /\ vs[target].pair = p /\ vs[target].indices = indices
  <2>1. Extends(vertices, p, indices, vs)
    BY <1>5, VertexAppended
  <2> QED BY <1>7, <2>1 DEF Extends
<1>9. PICK record : record = {Len(mutations) + 1} /\ record \in SUBSET Nat
  <2>1. PICK n \in Nat : n = Len(mutations)
    BY <1>1 DEF TypeOK
  <2>2. {n + 1} \in SUBSET Nat
    OBVIOUS
  <2> QED BY <2>1, <2>2
<1>10. V \in DOMAIN vertices /\ V \in Nat /\ V < target /\ N \in Nat /\ S \in 1 .. N /\ target \in Nat
  <2>1. V \in DOMAIN vertices /\ V \in Nat /\ N \in Nat /\ S \in 1 .. N
    BY <1>1, <1>4, SlotFacts
  <2>2. DOMAIN vertices = 1 .. Len(vertices) /\ Len(vertices) \in Nat
    BY <1>1 DEF TypeOK
  <2> QED BY <1>7, <2>1, <2>2
<1>11. OneMoreRecord(vs, V, record, vertices')
  BY <1>1, <1>3, <1>6, <1>9, DecidesFrontier
<1>12. GraphInv'
  <2>1. Decided(vs, record, vertices')
    BY <1>1, <1>4, <1>6, <1>11, SlotsDecided
  <2>2. \A u \in DOMAIN vs \ DOMAIN vertices : u = target /\ V < u
    BY <1>8, <1>10
  <2>3. \A u, w \in DOMAIN vs : vs[u].pair = vs[w].pair => u = w
    <3> SUFFICES ASSUME NEW u \in DOMAIN vs, NEW w \in DOMAIN vs, vs[u].pair = vs[w].pair
                 PROVE  u = w
      OBVIOUS
    <3>1. CASE u \in DOMAIN vertices /\ w \in DOMAIN vertices
      BY <1>1, <1>8, <3>1 DEF GraphInv, PairsInv
    <3>2. CASE u = target
      BY <1>3, <1>8, <3>2
    <3>3. CASE w = target
      BY <1>3, <1>8, <3>3
    <3> QED BY <1>8, <3>1, <3>2, <3>3
  <2>4. target \in DOMAIN vs /\ vs[target].pair = Outcome /\ Leads(target)
    BY <1>2, <1>3, <1>7, <1>8
  <2> QED BY <1>4, <1>9, <2>1, <2>2, <2>3, <2>4, EdgeDecided
<1>13. count \in [slots : Nat, verified : Nat, new : Nat, repeated : Nat]
  BY <1>1 DEF TypeOK
<1>14. /\ count' \in [slots : Nat, verified : Nat, new : Nat, repeated : Nat]
       /\ count'.slots = count.slots + l /\ count'.verified = count.verified + 1
       /\ count'.new = count.new + 1 /\ count'.repeated = count.repeated
  <2>1. count' = [slots |-> count.slots + l, verified |-> count.verified + 1,
                  new |-> count.new + 1, repeated |-> count.repeated]
    BY <1>3, <1>13
  <2> QED BY <1>5, <1>13, <2>1
<1>15. /\ mutations' \in Seq([source : Nat, slot : Nat, target : Nat])
       /\ Len(mutations') = Len(mutations) + 1 /\ Len(mutations) < limits.mutations
       /\ Len(mutations) \in Nat
  <2>1. PICK m : m = [source |-> V, slot |-> S, target |-> target]
    OBVIOUS
  <2>2. m \in [source : Nat, slot : Nat, target : Nat]
    BY <1>10, <2>1
  <2>3. mutations' = Append(mutations, m) /\ Len(mutations) < limits.mutations
    BY <1>3, <1>7, <2>1 DEF Leads
  <2> QED BY <1>1, <2>2, <2>3 DEF TypeOK
<1>16. CountInv'
  <2>1. /\ OpenSlots(vertices') + 1 = OpenSlots(vs) /\ Len(vertices') = Len(vs)
        /\ OpenSlots(vertices') \in Nat /\ OpenSlots(vs) \in Nat
    BY <1>1, <1>3, <1>6, <1>9, OpenSlotsAfter
  <2>2. OpenSlots(vs) = OpenSlots(vertices) + l /\ OpenSlots(vertices) \in Nat
    <3>1. \A u \in DOMAIN vertices : Open(vertices, u) \in Nat
      <4>1. \A u \in DOMAIN vs : Open(vs, u) \in Nat
        BY <1>1, <1>4, <1>6, WidensFacts
      <4> QED BY <1>8, <4>1 DEF Open
    <3>2. OpenSlots(vs) = OpenSlots(vertices) + l
      BY <1>1, <1>2, <1>5, <3>1, OpenSlotsPushed DEF TypeOK
    <3>3. OpenSlots(vertices) \in Nat
      BY <1>1, <3>1, OpenSlotsSum DEF TypeOK
    <3> QED BY <3>2, <3>3
  <2>3. /\ count.slots = count.verified + OpenSlots(vertices)
        /\ count.new + count.repeated = Len(mutations)
        /\ vertices # <<>> => count.new + 1 = Len(vertices)
    BY <1>1 DEF CountInv
  <2>4. vertices # <<>> /\ Len(vertices) \in Nat /\ limits.vertices \in Nat
    BY <1>1, <1>4, LimitsAssumption, SMTT(30) DEF FrontierInv, TypeOK
  <2>5. count'.slots = count'.verified + OpenSlots(vertices')
    <3>1. PICK a \in Nat, b \in Nat, n \in Nat, o \in Nat :
            a = count.slots /\ b = count.verified /\ n = OpenSlots(vertices') /\ o = OpenSlots(vertices)
      BY <1>13, <2>1, <2>2
    <3>2. count'.slots = a + l /\ count'.verified = b + 1 /\ n + 1 = o + l /\ a = b + o
      BY <1>14, <2>1, <2>2, <2>3, <3>1
    <3> QED BY <1>5, <3>1, <3>2
  <2>6. count'.new + count'.repeated = Len(mutations')
    <3>1. PICK a \in Nat, b \in Nat, n \in Nat :
            a = count.new /\ b = count.repeated /\ n = Len(mutations)
      BY <1>13, <1>15
    <3>2. count'.new = a + 1 /\ count'.repeated = b /\ Len(mutations') = n + 1 /\ a + b = n
      BY <1>14, <1>15, <2>3, <3>1
    <3> QED BY <3>2
  <2>7. count'.new + 1 = Len(vertices') /\ Len(vertices') <= limits.vertices /\ vertices' # <<>>
    <3>1. PICK a \in Nat, n \in Nat : a = count.new /\ n = Len(vertices)
      BY <1>13, <2>4
    <3>2. count'.new = a + 1 /\ Len(vertices') = n + 1 /\ a + 1 = n /\ n < limits.vertices
      BY <1>3, <1>7, <1>8, <1>14, <2>1, <2>3, <2>4, <3>1
    <3>3. Len(<<>>) = 0
      OBVIOUS
    <3> QED BY <2>4, <3>2, <3>3
  <2>8. Len(mutations') <= limits'.mutations
    <3>1. limits.mutations \in Nat
      BY <1>1, LimitsAssumption DEF TypeOK
    <3> QED BY <1>4, <1>15, <3>1
  <2> QED BY <1>4, <2>5, <2>6, <2>7, <2>8 DEF CountInv, OpenSlots
<1>17. \A u \in DOMAIN vs : Names(vs[u].indices, vs[u].pair.module, registry'.entries)
  <2>1. \A u \in DOMAIN vertices :
          Names(vertices[u].indices, vertices[u].pair.module, registry'.entries)
    BY <1>4, NamesDecided
  <2> QED BY <1>3, <1>8, <2>1
<1> QED BY <1>3, <1>6, <1>9, <1>12, <1>14, <1>15, <1>16, <1>17, DecidesInv

-----------------------------------------------------------------------------
(* The root, and every step.                                               *)

\* the root is resolved in the empty registry
LEMMA RootFacts ==
  ASSUME WalkInv, NEW root, root = algebra.regular,
         NEW res, res = ResolvePushed(registry, {}, 0, root)
  PROVE  /\ root \in DOMAIN algebra.left /\ Len(root.module) \in Nat
         /\ Grown(Registered(res)) /\ res.units \in Nat /\ res.indices \in Seq(Nat)
         /\ Names(res.indices, root.module, Registered(res).entries)
         /\ \A k \in Nat : res.units + k * TauUnits(ScaleOf(root.module)) \in Nat
         /\ PushUnits(root, res.units) \in Nat
<1>1. algebra \in Algebras /\ Grown(registry)
  BY RegistryStays DEF WalkInv, TypeOK
<1>2. root \in DOMAIN algebra.left /\ Len(root.module) \in Nat
  BY <1>1, AlgebraAssumption, PairData
<1>3. PICK none \in SUBSET Nat : none = {}
  OBVIOUS
<1>4. /\ \A i \in none : i < registry.next /\ \A k \in DOMAIN registry.entries : registry.entries[k].index # i
      /\ \A i, j \in none : i = j
  BY <1>3
<1>5. PICK spent \in Nat : spent = 0
  OBVIOUS
<1>6. res = ResolvePushed(registry, none, spent, root)
  BY <1>3, <1>5
<1> QED BY <1>1, <1>2, <1>4, <1>6, PushFacts

\* Pushing the root keeps it.
LEMMA PushRootInv ==
  ASSUME WalkInv, PushRoot
  PROVE  WalkInv'
<1>1. TypeOK /\ FrontierInv /\ RegistryInv /\ CountInv
  BY DEF WalkInv
<1>2. PICK root, res, l :
        root = algebra.regular /\ res = ResolvePushed(registry, {}, 0, root) /\ l = Len(root.module)
  OBVIOUS
<1>3. /\ root \in DOMAIN algebra.left /\ l \in Nat
      /\ Grown(Registered(res)) /\ res.units \in Nat /\ res.indices \in Seq(Nat)
      /\ Names(res.indices, root.module, Registered(res).entries)
      /\ \A k \in Nat : res.units + k * TauUnits(ScaleOf(root.module)) \in Nat
      /\ PushUnits(root, res.units) \in Nat
  BY <1>2, RootFacts
<1>4. pc = "root" /\ UNCHANGED <<algebra, limits, mutations, visiting, at>>
  BY DEF PushRoot
<1>5. vertices = <<>> /\ queue = <<>> /\ visiting = <<>> /\ mutations = <<>>
  BY <1>1, <1>4 DEF FrontierInv, CountInv
<1>6. Len(vertices) = 0 /\ Len(queue) = 0 /\ DOMAIN vertices = {} /\ DOMAIN queue = {}
      /\ Len(mutations) = 0 /\ DOMAIN mutations = {}
  BY <1>5
<1>7. VertexType' = VertexType /\ EntryType' = EntryType
  BY <1>4 DEF VertexType, EntryType
<1>8. /\ algebra' \in Algebras /\ limits' \in Limits
      /\ mutations' \in Seq([source : Nat, slot : Nat, target : Nat])
      /\ visiting' \in {<<>>} \cup (Nat \X Nat) /\ at' \in [vertex : Nat, slot : Nat]
  BY <1>1, <1>4 DEF TypeOK
<1>9. ASSUME UNCHANGED <<vertices, queue, count>>, pc' \in {"error", "incomplete"},
             Grown(registry'), units' \in Nat
      PROVE  WalkInv'
  <2>1. RegistryInv' /\ registry' \in [entries : Seq(EntryType'), next : Nat]
    BY <1>4, <1>9, RegistryFits
  <2>2. CountInv' /\ GraphInv' /\ vertices' \in Seq(VertexType')
    BY <1>4, <1>9, GraphStays
  <2>3. TypeOK'
    <3>1. queue' \in Seq(Nat) /\ count' \in [slots : Nat, verified : Nat, new : Nat, repeated : Nat]
      BY <1>1, <1>9 DEF TypeOK
    <3> QED BY <1>8, <1>9, <2>1, <2>2, <3>1 DEF TypeOK
  <2>4. FrontierInv'
    BY <1>5, <1>6, <1>9 DEF FrontierInv
  <2> QED BY <2>1, <2>2, <2>3, <2>4 DEF WalkInv
<1>10. CASE Blocked(<<"decompose", root>>)
  <2>1. pc' = "error" /\ UNCHANGED <<vertices, queue, count, registry, units>>
    BY <1>2, <1>10 DEF PushRoot
  <2>2. Grown(registry') /\ units' \in Nat
    BY <1>1, <2>1, RegistryStays DEF TypeOK
  <2> QED BY <1>9, <2>1, <2>2
<1>11. CASE ~Blocked(<<"decompose", root>>) /\ Blocked(<<"classify", root>>)
  <2>1. /\ pc' = "incomplete" /\ registry' = Registered(res)
        /\ units' \in {res.units + k * TauUnits(ScaleOf(root.module)) : k \in 0 .. Len(root.module)}
        /\ UNCHANGED <<vertices, queue, count>>
    BY <1>2, <1>11 DEF PushRoot, Stop
  <2>2. PICK k \in 0 .. l : units' = res.units + k * TauUnits(ScaleOf(root.module))
    BY <1>2, <2>1
  <2>3. k \in Nat
    BY <1>3
  <2>4. units' \in Nat
    BY <1>3, <2>2, <2>3
  <2> QED BY <1>3, <1>9, <2>1, <2>4
<1>12. CASE ~Blocked(<<"decompose", root>>) /\ ~Blocked(<<"classify", root>>)
  <2>1. /\ pc' = "walk" /\ registry' = Registered(res)
        /\ vertices' = Pushed(root, res) /\ queue' = <<1>>
        /\ count' = [count EXCEPT !.slots = @ + l]
        /\ units' = PushUnits(root, res.units)
    BY <1>2, <1>12 DEF PushRoot
  <2>2. PICK ws, indices : ws = vertices' /\ indices = res.indices
    OBVIOUS
  <2>3. OneMoreVertex(vertices, root, indices, ws)
    <3>1. ws = Append(vertices, [pair |-> root, slots |-> <<>>, indices |-> indices])
      BY <2>1, <2>2 DEF Pushed
    <3> QED BY <1>1, <1>3, <2>2, <3>1 DEF OneMoreVertex, TypeOK
  <2>4. /\ ws \in Seq(VertexType) /\ Len(ws) = 1 /\ DOMAIN ws = {1}
        /\ ws[1].pair = root /\ ws[1].slots = <<>> /\ ws[1].indices = indices
    <3>1. Extends(vertices, root, indices, ws)
      BY <2>3, VertexAppended
    <3> QED BY <1>6, <3>1 DEF Extends
  <2>5. OpenSlots(ws) = l /\ Open(ws, 1) \in Nat
    <3>1. \A u \in DOMAIN vertices : Open(vertices, u) \in Nat
      BY <1>6
    <3>2. OpenSlots(ws) = OpenSlots(vertices) + Len(root.module) /\ \A u \in DOMAIN ws : Open(ws, u) \in Nat
      BY <1>1, <2>3, <3>1, OpenSlotsPushed DEF TypeOK
    <3>3. OpenSlots(vertices) = 0
      BY <1>5, OpenSlotsOfNone
    <3> QED BY <1>2, <1>3, <2>4, <3>2, <3>3
  <2>6. ws # <<>> /\ Len(<<1>>) = 1 /\ DOMAIN <<1>> = {1}
    <3>1. DOMAIN <<>> = {} /\ Len(<<1>>) = 1 /\ DOMAIN <<1>> = {1}
      OBVIOUS
    <3>2. ws # <<>>
      BY <2>4, <3>1
    <3> QED BY <3>1, <3>2
  <2>7. /\ registry' \in [entries : Seq(EntryType), next : Nat]
        /\ OneIndexEach(registry'.entries, registry'.next)
    BY <1>3, <2>1 DEF Grown, RegistryType
  <2>8. /\ count' \in [slots : Nat, verified : Nat, new : Nat, repeated : Nat]
        /\ count'.slots = count.slots + l /\ count'.verified = count.verified
        /\ count'.new = count.new /\ count'.repeated = count.repeated
        /\ count.slots \in Nat /\ count.verified \in Nat /\ count.new \in Nat /\ count.repeated \in Nat
    <3>1. count \in [slots : Nat, verified : Nat, new : Nat, repeated : Nat]
      BY <1>1 DEF TypeOK
    <3>2. count' = [slots |-> count.slots + l, verified |-> count.verified,
                    new |-> count.new, repeated |-> count.repeated]
      BY <2>1, <3>1
    <3>3. PICK n \in Nat : n = count.slots + l
      BY <1>3, <3>1
    <3> QED BY <3>1, <3>2, <3>3
  <2>9. TypeOK'
    <3>1. queue' \in Seq(Nat)
      BY <2>1
    <3> QED BY <1>3, <1>7, <1>8, <2>1, <2>2, <2>4, <2>7, <2>8, <3>1 DEF TypeOK
  <2>10. Current' = 0
    BY <2>1, <2>2, <2>4, <2>6 DEF Current
  <2>11. FrontierInv'
    <3>1. Undecided(1)' = Open(ws, 1)
      BY <2>2 DEF Undecided, Open
    <3>2. \A u \in DOMAIN vertices' :
            /\ Undecided(u)' >= 0
            /\ u < Current' => Undecided(u)' = 0
            /\ u > Current' => vertices'[u].slots = <<>>
      BY <2>2, <2>4, <2>5, <2>10, <3>1
    <3>3. Len(queue') <= Len(vertices') /\ \A i \in DOMAIN queue' : queue'[i] = Current' + i
      BY <2>1, <2>2, <2>4, <2>6, <2>10
    <3>4. at'.vertex = 1
      BY <1>1, <1>4 DEF FrontierInv
    <3> QED BY <1>4, <1>5, <2>1, <2>2, <2>4, <2>6, <2>10, <3>2, <3>3, <3>4 DEF FrontierInv
  <2>12. CountInv'
    <3>1. count.slots = count.verified + 0 /\ count.new + count.repeated = 0
      BY <1>1, <1>5, <1>6, OpenSlotsOfNone DEF CountInv
    <3>2. /\ count'.slots = count'.verified + OpenSlots(ws)
          /\ count'.new + count'.repeated = 0 /\ count'.new + 1 = 1
      <4>1. PICK a \in Nat, b \in Nat, c \in Nat, d \in Nat :
              a = count.slots /\ b = count.verified /\ c = count.new /\ d = count.repeated
        BY <2>8
      <4>2. a = b /\ c = 0 /\ d = 0 /\ count'.slots = a + l /\ count'.verified = b
            /\ count'.new = c /\ count'.repeated = d
        BY <2>8, <3>1, <4>1
      <4> QED BY <1>3, <2>5, <4>2
    <3>3. mutations' = mutations /\ Len(mutations') = 0 /\ 0 <= limits'.mutations
      BY <1>1, <1>4, <1>6 DEF CountInv
    <3> QED BY <2>2, <2>4, <2>6, <3>2, <3>3 DEF CountInv, OpenSlots
  <2>13. GraphInv'
    BY <1>2, <1>4, <1>5, <2>2, <2>4 DEF GraphInv, EdgesInv, RecordsInv, PairsInv, Recorded
  <2>14. RegistryInv'
    <3>1. \A u \in DOMAIN vertices' :
            Names(vertices'[u].indices, vertices'[u].pair.module, registry'.entries)
      BY <1>3, <2>1, <2>2, <2>4
    <3> QED BY <2>7, <3>1, Zenon DEF RegistryInv, OneIndexEach, Names
  <2> QED BY <2>9, <2>11, <2>12, <2>13, <2>14 DEF WalkInv
<1> QED BY <1>10, <1>11, <1>12

\* Every step keeps it.
LEMMA StepInv ==
  ASSUME WalkInv, [Next]_vars
  PROVE  WalkInv'
<1>1. CASE Halting
  <2>1. Halted
    BY <1>1, HaltingHalts DEF WalkInv
  <2> QED BY <2>1, HaltInv
<1>2. CASE UNCHANGED vars
  <2>1. UNCHANGED <<algebra, limits, vertices, mutations, queue, visiting, at, count, registry, units, pc>>
    BY <1>2 DEF vars
  <2>2. /\ CountInv' /\ GraphInv'
        /\ \A v \in DOMAIN vertices : Undecided(v)' = Undecided(v)
        /\ vertices' \in Seq(VertexType') /\ mutations' \in Seq([source : Nat, slot : Nat, target : Nat])
    BY <2>1, GraphStays
  <2>3. RegistryInv' /\ registry' \in [entries : Seq(EntryType'), next : Nat]
    <3>1. Grown(registry')
      BY <2>1, RegistryStays DEF WalkInv
    <3> QED BY <2>1, <3>1, RegistryFits
  <2>4. TypeOK /\ FrontierInv
    BY DEF WalkInv
  <2>5. TypeOK'
    BY <2>1, <2>2, <2>3, <2>4 DEF TypeOK
  <2>6. FrontierInv'
    BY <2>1, <2>4, Zenon DEF FrontierInv, Current, Undecided, V, S
  <2> QED BY <2>2, <2>3, <2>5, <2>6 DEF WalkInv
<1> QED BY <1>1, <1>2, PushRootInv, TakeVertexInv, NoLeftMutationInv, RepeatedEndpointInv,
           NewVertexInv, CloseInv DEF Next, Halting

\* The walk is breadth first, its counts and its edges are those of the slots
\* it decided, and the registry gives each class of summands one index.
THEOREM WalkIsKept == Spec => []WalkInv
<1>1. Init => WalkInv
  BY InitInv
<1>2. WalkInv /\ [Next]_vars => WalkInv'
  BY StepInv
<1> QED BY <1>1, <1>2, PTL DEF Spec

\* What the diagnostics of a stopped walk say of its partial graph is true.
THEOREM StopsAreTold == Spec => []DiagnosticsAreTrue
<1>1. WalkInv => DiagnosticsAreTrue
  <2> SUFFICES ASSUME WalkInv, pc = "incomplete", vertices # <<>>
               PROVE  /\ count.slots - count.verified = Total([v \in DOMAIN vertices |-> Undecided(v)])
                      /\ \A v \in DOMAIN vertices :
                           /\ v < at.vertex => Undecided(v) = 0
                           /\ v > at.vertex => vertices[v].slots = <<>> /\ \E i \in DOMAIN queue : queue[i] = v
                      /\ Len(queue) = Len(vertices) - at.vertex
                      /\ count.new + count.repeated = Len(mutations)
                      /\ count.new + 1 = Len(vertices)
                      /\ \A e \in DOMAIN mutations :
                           vertices[mutations[e].source].slots[mutations[e].slot] = {e}
    BY DEF DiagnosticsAreTrue
  <2>1. TypeOK /\ FrontierInv /\ CountInv /\ EdgesInv
    BY DEF WalkInv, GraphInv
  <2>2. PICK n \in Nat, m \in Nat : n = Len(vertices) /\ m = Len(queue) /\ m <= n
    BY <2>1 DEF TypeOK, FrontierInv
  <2>3. at.vertex = n - m /\ Current = n - m
    BY <2>1, <2>2 DEF FrontierInv, Current
  <2>4. \A i \in DOMAIN queue : queue[i] = Current + i
    BY <2>1 DEF FrontierInv
  <2>5. \A v \in DOMAIN vertices :
          /\ v < at.vertex => Undecided(v) = 0
          /\ v > at.vertex => vertices[v].slots = <<>> /\ \E i \in DOMAIN queue : queue[i] = v
    <3> SUFFICES ASSUME NEW v \in DOMAIN vertices
                 PROVE  /\ v < at.vertex => Undecided(v) = 0
                        /\ v > at.vertex => vertices[v].slots = <<>> /\ \E i \in DOMAIN queue : queue[i] = v
      OBVIOUS
    <3>1. (v < Current => Undecided(v) = 0) /\ (v > Current => vertices[v].slots = <<>>)
      BY <2>1 DEF FrontierInv
    <3>2. ASSUME v > at.vertex PROVE \E i \in DOMAIN queue : queue[i] = v
      <4>1. v \in 1 .. n /\ DOMAIN queue = 1 .. m
        BY <2>1, <2>2 DEF TypeOK
      <4>2. v - (n - m) \in DOMAIN queue /\ queue[v - (n - m)] = v
        BY <2>2, <2>3, <2>4, <3>2, <4>1
      <4> QED BY <4>2
    <3> QED BY <2>3, <3>1, <3>2
  <2>6. count.slots - count.verified = Total([v \in DOMAIN vertices |-> Undecided(v)])
    <3>1. Total([v \in DOMAIN vertices |-> Undecided(v)]) = OpenSlots(vertices)
      BY Zenon DEF OpenSlots, Undecided
    <3>2. \A v \in DOMAIN vertices : Open(vertices, v) \in Nat
      <4> SUFFICES ASSUME NEW v \in DOMAIN vertices PROVE Open(vertices, v) \in Nat
        OBVIOUS
      <4>1. Open(vertices, v) = Undecided(v) /\ Undecided(v) \in Int
        BY <2>1, VertexFields DEF Open, Undecided
      <4>2. Undecided(v) >= 0
        BY <2>1 DEF FrontierInv
      <4> QED BY <4>1, <4>2
    <3>3. OpenSlots(vertices) \in Nat
      BY <2>1, <3>2, OpenSlotsSum DEF TypeOK
    <3>4. PICK a \in Nat, b \in Nat : a = count.slots /\ b = count.verified
      BY <2>1 DEF TypeOK
    <3>5. a = b + OpenSlots(vertices)
      BY <2>1, <3>4 DEF CountInv
    <3> QED BY <3>1, <3>3, <3>4, <3>5
  <2>7. count.new + count.repeated = Len(mutations) /\ count.new + 1 = Len(vertices)
    BY <2>1 DEF CountInv
  <2>8. \A e \in DOMAIN mutations : vertices[mutations[e].source].slots[mutations[e].slot] = {e}
    BY <2>1 DEF EdgesInv
  <2>9. Len(queue) = Len(vertices) - at.vertex
    BY <2>2, <2>3
  <2> QED BY <2>5, <2>6, <2>7, <2>8, <2>9
<1> QED BY <1>1, WalkIsKept, PTL

\* Two summands have one index exactly when they are of one class.
THEOREM SummandsAreNamed == Spec => []IndicesAreStable
<1>1. WalkInv => IndicesAreStable
  <2> SUFFICES ASSUME WalkInv, NEW v \in DOMAIN vertices, NEW w \in DOMAIN vertices,
                      NEW i \in DOMAIN vertices[v].indices, NEW j \in DOMAIN vertices[w].indices
               PROVE  vertices[v].indices[i] = vertices[w].indices[j] <=>
                        vertices[v].pair.module[i] = vertices[w].pair.module[j]
    BY DEF IndicesAreStable
  <2>1. \A u \in DOMAIN vertices : Names(vertices[u].indices, vertices[u].pair.module, registry.entries)
    BY DEF WalkInv, RegistryInv
  <2>2. PICK k \in DOMAIN registry.entries :
          registry.entries[k] = [index |-> vertices[v].indices[i], class |-> vertices[v].pair.module[i]]
    BY <2>1 DEF Names
  <2>3. PICK m \in DOMAIN registry.entries :
          registry.entries[m] = [index |-> vertices[w].indices[j], class |-> vertices[w].pair.module[j]]
    BY <2>1 DEF Names
  <2>4. registry.entries[k].index = registry.entries[m].index
          \/ registry.entries[k].class = registry.entries[m].class
          => k = m
    BY DEF WalkInv, RegistryInv, OneIndexEach
  <2> QED BY <2>2, <2>3, <2>4
<1> QED BY <1>1, WalkIsKept, PTL

-----------------------------------------------------------------------------
(* Completeness: a finite left closed set of pairs with (A, 0) has them    *)
(* all, by the order of the pairs (taugraph.rs).                           *)

\* A strict order has a minimal element in every finite set that is not empty.
LEMMA MinimalExists ==
  ASSUME NEW T, IsFiniteSet(T), T # {}, NEW R,
         \A x \in T : <<x, x>> \notin R,
         \A x, y, z \in T : <<x, y>> \in R /\ <<y, z>> \in R => <<x, z>> \in R
  PROVE  \E x \in T : \A y \in T : <<y, x>> \notin R
<1> DEFINE Good == {s \in SUBSET T : s # {} => \E x \in s : \A y \in s : <<y, x>> \notin R}
<1>1. {} \in Good
  OBVIOUS
<1>2. ASSUME NEW s \in SUBSET T, s # {}, \A x \in s : s \ {x} \in Good
      PROVE  s \in Good
  <2>1. PICK x \in s : TRUE
    BY <1>2
  <2>2. CASE s \ {x} = {}
    <3>1. \A y \in s : y = x /\ <<y, x>> \notin R
      BY <2>1, <2>2
    <3> QED BY <2>1, <3>1
  <2>3. CASE s \ {x} # {}
    <3>1. PICK m \in s \ {x} : \A y \in s \ {x} : <<y, m>> \notin R
      BY <1>2, <2>1, <2>3
    <3>2. CASE <<x, m>> \in R
      <4>1. \A y \in s : <<y, x>> \notin R
        BY <2>1, <3>1, <3>2
      <4> QED BY <2>1, <4>1
    <3>3. CASE <<x, m>> \notin R
      <4>1. \A y \in s : <<y, m>> \notin R
        BY <3>1, <3>3
      <4> QED BY <3>1, <4>1
    <3> QED BY <3>2, <3>3
  <2> QED BY <2>2, <2>3
<1>3. SUBSET T \subseteq Good
  <2> HIDE DEF Good
  <2> QED BY <1>1, <1>2, SubsetInduction
<1>4. T \in Good
  BY <1>3
<1> QED BY <1>4

\* the left mutations of the pairs in the set P are in P
ClosedUnder(a, P) == \A p \in P : \A s \in DOMAIN p.module : a.left[p][s] \subseteq P

\* The documentation's claim: finite, left closed and with (A, 0) is complete.
THEOREM FiniteLeftClosure ==
  ASSUME NEW a \in Algebras, NEW P \in SUBSET DOMAIN a.left, IsFiniteSet(P),
         a.regular \in P, ClosedUnder(a, P)
  PROVE  P = DOMAIN a.left
<1> DEFINE Below(x, y) == <<x, y>> \in a.order
<1>1. /\ \A u \in DOMAIN a.left : ~Below(u, u) /\ (u # a.regular => Below(u, a.regular))
      /\ \A u, v, w \in DOMAIN a.left : Below(u, v) /\ Below(v, w) => Below(u, w)
      /\ \A v \in DOMAIN a.left : \A s \in DOMAIN v.module : \A w \in a.left[v][s] : Below(w, v)
      /\ \A u, v \in DOMAIN a.left :
           Below(u, v) => \E s \in DOMAIN v.module : \E w \in a.left[v][s] : u = w \/ Below(u, w)
  BY OrderAssumption
<1>2. SUFFICES ASSUME NEW u \in DOMAIN a.left, u \notin P
               PROVE  FALSE
  OBVIOUS
<1>3. PICK T : T = {v \in P : Below(u, v)}
  OBVIOUS
<1>4. IsFiniteSet(T) /\ a.regular \in T /\ T \subseteq P
  <2>1. T \in SUBSET P
    BY <1>3
  <2>2. IsFiniteSet(T)
    BY <2>1, FS_Subset
  <2>3. Below(u, a.regular)
    BY <1>1, <1>2
  <2> QED BY <1>3, <2>1, <2>2, <2>3
<1>5. PICK v \in T : \A w \in T : ~Below(w, v)
  <2>1. PICK R : R = a.order
    OBVIOUS
  <2>2. \A x \in T : <<x, x>> \notin R
    BY <1>1, <1>4, <2>1
  <2>3. \A x, y, z \in T : <<x, y>> \in R /\ <<y, z>> \in R => <<x, z>> \in R
    BY <1>1, <1>4, <2>1
  <2>4. \E x \in T : \A y \in T : <<y, x>> \notin R
    BY <1>4, <2>2, <2>3, MinimalExists
  <2> QED BY <2>1, <2>4
<1>6. v \in P /\ v \in DOMAIN a.left /\ Below(u, v)
  BY <1>3, <1>5
<1>7. PICK s \in DOMAIN v.module : \E w \in a.left[v][s] : u = w \/ Below(u, w)
  BY <1>1, <1>6
<1>8. PICK w \in a.left[v][s] : u = w \/ Below(u, w)
  BY <1>7
<1>9. w \in P /\ Below(w, v)
  BY <1>1, <1>6, <1>7, <1>8 DEF ClosedUnder
<1>10. w \in T
  BY <1>2, <1>3, <1>8, <1>9
<1> QED BY <1>5, <1>9, <1>10

-----------------------------------------------------------------------------
(* The recheck of a drained walk (verify.rs, close).                       *)

\* every slot of every vertex is decided
Drained ==
  /\ vertices # <<>>
  /\ \A v \in DOMAIN vertices : DOMAIN vertices[v].slots = DOMAIN vertices[v].pair.module

\* A walk with nothing left to visit is drained.
LEMMA WalkDrains ==
  ASSUME WalkInv, pc \in {"walk", "closed", "defect"}, visiting = <<>>, queue = <<>>
  PROVE  Drained
<1>1. TypeOK /\ FrontierInv
  BY DEF WalkInv
<1>2. vertices # <<>>
  BY <1>1 DEF FrontierInv
<1>3. PICK n \in Nat : n = Len(vertices) /\ n > 0 /\ Current = n /\ DOMAIN vertices = 1 .. n
  <2>1. Len(vertices) \in Nat /\ Len(queue) = 0 /\ DOMAIN vertices = 1 .. Len(vertices)
    BY <1>1 DEF TypeOK
  <2>2. Len(vertices) # 0
    BY <1>1, <1>2, SMTT(30) DEF TypeOK
  <2>3. PICK n \in Nat : n = Len(vertices)
    BY <2>1
  <2>4. Current = n
    BY <2>1, <2>3 DEF Current
  <2>5. n > 0 /\ DOMAIN vertices = 1 .. n
    BY <2>1, <2>2, <2>3
  <2> QED BY <2>3, <2>4, <2>5
<1>4. ASSUME NEW v \in DOMAIN vertices
      PROVE  DOMAIN vertices[v].slots = DOMAIN vertices[v].pair.module
  <2>1. Undecided(v) = 0
    <3>1. v < Current => Undecided(v) = 0
      BY <1>1 DEF FrontierInv
    <3>2. Undecided(Current) = 0
      BY <1>1, <1>3 DEF FrontierInv
    <3> QED BY <1>3, <3>1, <3>2
  <2>2. /\ vertices[v].slots \in Seq(SUBSET Nat) /\ vertices[v].pair \in DOMAIN algebra.left
        /\ Len(vertices[v].slots) \in Nat /\ Len(vertices[v].pair.module) \in Nat
    BY <1>1, VertexFields
  <2>3. DOMAIN vertices[v].pair.module = 1 .. Len(vertices[v].pair.module)
    BY <1>1, <2>2, PairData DEF TypeOK
  <2>4. Len(vertices[v].slots) = Len(vertices[v].pair.module)
    BY <2>1, <2>2 DEF Undecided
  <2> QED BY <2>2, <2>3, <2>4
<1> QED BY <1>2, <1>4 DEF Drained

\* The vertices of a drained walk are finite, left closed, and have the root.
LEMMA DrainedIsComplete ==
  ASSUME WalkInv, Drained
  PROVE  Pairs = DOMAIN algebra.left /\ IsFiniteSet(Pairs) /\ Cardinality(Pairs) = Len(vertices)
<1>1. TypeOK /\ EdgesInv /\ RecordsInv /\ PairsInv
  BY DEF WalkInv, GraphInv
<1>2. PICK n \in Nat : n = Len(vertices) /\ n > 0 /\ DOMAIN vertices = 1 .. n
  BY <1>1 DEF TypeOK, Drained
<1>3. \A v \in DOMAIN vertices : vertices[v].pair \in DOMAIN algebra.left
  BY <1>1, VertexFields
<1>4. IsFiniteSet(Pairs) /\ Cardinality(Pairs) = n
  <2> DEFINE f == [v \in 1 .. n |-> vertices[v].pair]
  <2>1. f \in [1 .. n -> Pairs]
    BY <1>2 DEF Pairs
  <2>2. \A v, w \in 1 .. n : f[v] = f[w] => v = w
    BY <1>1, <1>2 DEF PairsInv
  <2>3. \A p \in Pairs : \E v \in 1 .. n : f[v] = p
    BY <1>2 DEF Pairs
  <2> HIDE DEF f
  <2>4. f \in Bijection(1 .. n, Pairs)
    BY <2>1, <2>2, <2>3 DEF Bijection, Injection, Surjection, IsInjective
  <2>5. ExistsBijection(1 .. n, Pairs)
    BY <2>4 DEF ExistsBijection
  <2>6. IsFiniteSet(1 .. n) /\ Cardinality(1 .. n) = n
    BY FS_Interval
  <2> QED BY <2>5, <2>6, FS_Bijection
<1>5. ClosedUnder(algebra, Pairs)
  <2> SUFFICES ASSUME NEW v \in DOMAIN vertices, NEW s \in DOMAIN vertices[v].pair.module,
                      NEW w \in algebra.left[vertices[v].pair][s]
               PROVE  w \in Pairs
    BY DEF ClosedUnder, Pairs
  <2>1. s \in DOMAIN vertices[v].slots
    BY DEF Drained
  <2>2. Recorded(v, s)
    BY <1>1, <2>1, Zenon DEF RecordsInv
  <2>3. PICK e \in DOMAIN mutations : mutations[e].source = v /\ mutations[e].slot = s
    BY <2>2 DEF Recorded
  <2>4. mutations[e].target \in DOMAIN vertices
        /\ algebra.left[vertices[v].pair][s] = {vertices[mutations[e].target].pair}
    BY <1>1, <2>3 DEF EdgesInv
  <2> QED BY <2>4 DEF Pairs
<1>6. algebra \in Algebras /\ algebra.regular \in Pairs /\ Pairs \subseteq DOMAIN algebra.left
  <2>1. vertices[1].pair = algebra.regular /\ 1 \in DOMAIN vertices
    BY <1>1, <1>2 DEF PairsInv, Drained
  <2> QED BY <1>1, <1>3, <2>1 DEF TypeOK, Pairs
<1>7. Pairs = DOMAIN algebra.left
  BY <1>4, <1>5, <1>6, FiniteLeftClosure
<1> QED BY <1>2, <1>4, <1>7

\* A drained walk has resolved every slot; its edges lead where the mutations do,
\* and its graph is connected.
LEMMA DrainedIsResolved ==
  ASSUME WalkInv, Drained
  PROVE  SlotsResolved /\ EndpointsBound /\ Connected
<1>1. TypeOK /\ EdgesInv /\ RecordsInv /\ PairsInv
  BY DEF WalkInv, GraphInv
<1>2. \A v \in DOMAIN vertices : Undecided(v) = 0
  <2> SUFFICES ASSUME NEW v \in DOMAIN vertices PROVE Undecided(v) = 0
    OBVIOUS
  <2>1. /\ vertices[v].slots \in Seq(SUBSET Nat) /\ vertices[v].pair \in DOMAIN algebra.left
        /\ Len(vertices[v].slots) \in Nat /\ Len(vertices[v].pair.module) \in Nat
    BY <1>1, VertexFields
  <2>2. DOMAIN vertices[v].pair.module = 1 .. Len(vertices[v].pair.module)
    BY <1>1, <2>1, PairData DEF TypeOK
  <2>3. PICK l \in Nat, m \in Nat : l = Len(vertices[v].slots) /\ m = Len(vertices[v].pair.module)
    BY <2>1
  <2>4. 1 .. l = 1 .. m
    BY <2>1, <2>2, <2>3 DEF Drained
  <2>5. l = m
    BY <2>4
  <2> QED BY <2>3, <2>5 DEF Undecided
<1>3. ASSUME NEW v \in DOMAIN vertices, NEW s \in OutSlots(v)
      PROVE  \E e \in DOMAIN mutations :
               vertices[v].slots[s] = {e} /\ mutations[e].source = v /\ mutations[e].slot = s
  <2>1. s \in DOMAIN vertices[v].slots /\ vertices[v].slots[s] # {}
    BY DEF OutSlots
  <2>2. Recorded(v, s)
    BY <1>1, <2>1, Zenon DEF RecordsInv
  <2> QED BY <2>1, <2>2 DEF Recorded
<1>4. ASSUME NEW v \in DOMAIN vertices, NEW s \in DOMAIN vertices[v].slots \ OutSlots(v)
      PROVE  algebra.left[vertices[v].pair][s] = {}
  <2>1. Recorded(v, s) /\ vertices[v].slots[s] = {}
    BY <1>1, Zenon DEF RecordsInv, OutSlots
  <2> QED BY <2>1 DEF Recorded
<1>5. SlotsResolved
  <2>1. \A v \in DOMAIN vertices :
          \A s \in OutSlots(v) :
            \A e \in vertices[v].slots[s] :
              mutations[e].source = v /\ mutations[e].slot = s /\ mutations[e].target \in DOMAIN vertices
    BY <1>1, <1>3 DEF EdgesInv
  <2>2. \A e \in DOMAIN mutations :
          \E v \in DOMAIN vertices : \E s \in OutSlots(v) : e \in vertices[v].slots[s]
    <3> SUFFICES ASSUME NEW e \in DOMAIN mutations
                 PROVE  \E v \in DOMAIN vertices : \E s \in OutSlots(v) : e \in vertices[v].slots[s]
      OBVIOUS
    <3>1. PICK v, s : v = mutations[e].source /\ s = mutations[e].slot
      OBVIOUS
    <3>2. v \in DOMAIN vertices /\ s \in DOMAIN vertices[v].slots /\ vertices[v].slots[s] = {e}
      BY <1>1, <3>1 DEF EdgesInv
    <3>3. s \in OutSlots(v)
      BY <3>2 DEF OutSlots
    <3> QED BY <3>2, <3>3
  <2> QED BY <1>2, <1>4, <2>1, <2>2 DEF SlotsResolved
<1>6. EndpointsBound
  BY <1>1 DEF EndpointsBound, EdgesInv
<1>7. Connected
  <2> SUFFICES ASSUME NEW R \in SUBSET DOMAIN vertices, 1 \in R,
                      \A e \in DOMAIN mutations : mutations[e].source \in R => mutations[e].target \in R,
                      R # DOMAIN vertices
               PROVE  FALSE
    BY DEF Connected
  <2>1. PICK n \in Nat : DOMAIN vertices = 1 .. n
    BY <1>1 DEF TypeOK
  <2>2. PICK T : T = (1 .. n) \ R
    OBVIOUS
  <2>3. PICK v \in T : \A w \in T : v <= w
    BY <2>1, <2>2, LeastExists
  <2>4. v \in DOMAIN vertices /\ v > 1
    BY <2>1, <2>2
  <2>5. PICK e \in DOMAIN mutations : mutations[e].target = v /\ mutations[e].source < v
    BY <1>1, <2>4 DEF PairsInv
  <2>6. mutations[e].source \in DOMAIN vertices
    BY <1>1 DEF EdgesInv
  <2>7. mutations[e].source \in R
    BY <2>1, <2>2, <2>3, <2>5, <2>6
  <2> QED BY <2>2, <2>5, <2>7
<1> QED BY <1>5, <1>6, <1>7

\* The edges into a vertex of a drained walk are the arrows into its pair.
LEMMA IncomingAreArrows ==
  ASSUME WalkInv, Drained, NEW v \in DOMAIN vertices
  PROVE  /\ IsFiniteSet(Incoming(v)) /\ Cardinality(Incoming(v)) \in Nat
         /\ Cardinality(Incoming(v)) = Cardinality(Arrows(algebra, vertices[v].pair))
<1>1. TypeOK /\ EdgesInv /\ RecordsInv /\ PairsInv
  BY DEF WalkInv, GraphInv
<1>2. IsFiniteSet(Incoming(v)) /\ Cardinality(Incoming(v)) \in Nat
  <2>1. PICK n \in Nat : DOMAIN mutations = 1 .. n
    BY <1>1 DEF TypeOK
  <2>2. IsFiniteSet(1 .. n)
    BY FS_Interval
  <2>3. Incoming(v) \in SUBSET (1 .. n)
    BY <2>1 DEF Incoming
  <2> QED BY <2>2, <2>3, FS_Subset, FS_CardinalityType
<1>3. PICK p : p = vertices[v].pair
  OBVIOUS
<1>4. PICK A : A = Arrows(algebra, p)
  OBVIOUS
<1>5. \A q, s : <<q, s>> \in A <=>
        q \in DOMAIN algebra.left /\ s \in DOMAIN q.module /\ algebra.left[q][s] = {p}
  BY <1>4 DEF Arrows
<1>6. \A x \in A : \E q, s : x = <<q, s>>
  BY <1>4 DEF Arrows
<1> DEFINE f == [e \in Incoming(v) |-> <<vertices[mutations[e].source].pair, mutations[e].slot>>]
<1>7. ASSUME NEW e \in Incoming(v)
      PROVE  /\ f[e] \in A
             /\ mutations[e].source \in DOMAIN vertices
             /\ vertices[mutations[e].source].slots[mutations[e].slot] = {e}
  <2>1. e \in DOMAIN mutations /\ mutations[e].target = v
    BY DEF Incoming
  <2>2. PICK u, s : u = mutations[e].source /\ s = mutations[e].slot
    OBVIOUS
  <2>3. /\ u \in DOMAIN vertices /\ s \in DOMAIN vertices[u].slots /\ vertices[u].slots[s] = {e}
        /\ algebra.left[vertices[u].pair][s] = {p}
    BY <1>1, <1>3, <2>1, <2>2 DEF EdgesInv
  <2>4. vertices[u].pair \in DOMAIN algebra.left /\ s \in DOMAIN vertices[u].pair.module
    BY <1>1, <2>3, VertexFields DEF Drained
  <2>5. <<vertices[u].pair, s>> \in A
    BY <1>5, <2>3, <2>4
  <2>6. f[e] = <<vertices[u].pair, s>>
    BY <2>2
  <2> QED BY <2>2, <2>3, <2>5, <2>6
<1>8. ASSUME NEW e \in Incoming(v), NEW d \in Incoming(v), f[e] = f[d]
      PROVE  e = d
  <2>1. vertices[mutations[e].source].pair = vertices[mutations[d].source].pair
        /\ mutations[e].slot = mutations[d].slot
    BY <1>8
  <2>2. mutations[e].source = mutations[d].source
    BY <1>1, <1>7, <2>1 DEF PairsInv
  <2>3. {e} = {d}
    BY <1>7, <2>1, <2>2
  <2> QED BY <2>3
<1>9. ASSUME NEW x \in A
      PROVE  \E e \in Incoming(v) : f[e] = x
  <2>1. PICK q, s : x = <<q, s>>
    BY <1>6
  <2>2. q \in DOMAIN algebra.left /\ s \in DOMAIN q.module /\ algebra.left[q][s] = {p}
    BY <1>5, <2>1
  <2>3. PICK u \in DOMAIN vertices : vertices[u].pair = q
    BY <2>2, DrainedIsComplete DEF Pairs
  <2>4. s \in DOMAIN vertices[u].slots
    BY <2>2, <2>3 DEF Drained
  <2>5. Recorded(u, s)
    BY <1>1, <2>4, Zenon DEF RecordsInv
  <2>6. PICK e \in DOMAIN mutations : mutations[e].source = u /\ mutations[e].slot = s
    BY <2>2, <2>3, <2>5 DEF Recorded
  <2>7. mutations[e].target \in DOMAIN vertices
        /\ algebra.left[vertices[u].pair][s] = {vertices[mutations[e].target].pair}
    BY <1>1, <2>6 DEF EdgesInv
  <2>8. vertices[mutations[e].target].pair = vertices[v].pair
    BY <1>3, <2>2, <2>3, <2>7
  <2>9. mutations[e].target = v
    BY <1>1, <2>7, <2>8 DEF PairsInv
  <2>10. e \in Incoming(v) /\ f[e] = x
    BY <2>1, <2>3, <2>6, <2>9 DEF Incoming
  <2> QED BY <2>10
<1>10. f \in [Incoming(v) -> A]
  <2>1. \A e \in Incoming(v) : <<vertices[mutations[e].source].pair, mutations[e].slot>> \in A
    BY <1>7
  <2> QED BY <2>1
<1> HIDE DEF f
<1>11. f \in Bijection(Incoming(v), A)
  BY <1>8, <1>9, <1>10 DEF Bijection, Injection, Surjection, IsInjective
<1>12. ExistsBijection(Incoming(v), A)
  BY <1>11 DEF ExistsBijection
<1>13. Cardinality(A) = Cardinality(Incoming(v))
  BY <1>2, <1>12, FS_Bijection
<1> QED BY <1>2, <1>3, <1>4, <1>13

\* At every vertex of a drained graph, the edges out and in add up to the rank.
LEMMA DrainedIsRegular ==
  ASSUME WalkInv, Drained
  PROVE  NRegular
<1>1. TypeOK /\ RecordsInv
  BY DEF WalkInv, GraphInv
<1>2. algebra \in Algebras
  BY <1>1 DEF TypeOK
<1> SUFFICES ASSUME NEW v \in DOMAIN vertices
             PROVE  /\ Cardinality(Incoming(v)) =
                         Len(vertices[v].slots) - Cardinality(OutSlots(v)) + Cardinality(vertices[v].pair.support)
                    /\ Cardinality(OutSlots(v)) + Cardinality(Incoming(v)) = algebra.rank
  BY DEF NRegular
<1>3. PICK p, l : p = vertices[v].pair /\ l = Len(vertices[v].slots)
  OBVIOUS
<1>4. p \in DOMAIN algebra.left /\ l \in Nat /\ DOMAIN vertices[v].slots = 1 .. l
      /\ Len(p.module) \in Nat /\ DOMAIN p.module = 1 .. Len(p.module)
  BY <1>1, <1>2, <1>3, VertexFields, PairData
<1>5. Len(p.module) = l /\ DOMAIN p.module = 1 .. l
  <2>1. 1 .. Len(p.module) = 1 .. l
    BY <1>3, <1>4 DEF Drained
  <2> QED BY <1>4, <2>1
<1>6. IsFiniteSet(p.support) /\ l + Cardinality(p.support) = algebra.rank
  BY <1>2, <1>4, <1>5, AlgebraAssumption
<1>7. PICK out : out = OutSlots(v)
  OBVIOUS
<1>8. {s \in DOMAIN p.module : algebra.left[p][s] = {}} = (1 .. l) \ out
  <2>1. ASSUME NEW s \in 1 .. l
        PROVE  algebra.left[p][s] = {} <=> s \notin out
    <3>1. Recorded(v, s)
      BY <1>1, <1>4, Zenon DEF RecordsInv
    <3>2. CASE vertices[v].slots[s] = {} /\ algebra.left[p][s] = {}
      BY <1>7, <3>2 DEF OutSlots
    <3>3. CASE \E e \in DOMAIN mutations :
                 vertices[v].slots[s] = {e} /\ mutations[e].source = v /\ mutations[e].slot = s
      <4>1. PICK e \in DOMAIN mutations :
              vertices[v].slots[s] = {e} /\ mutations[e].source = v /\ mutations[e].slot = s
        BY <3>3
      <4>2. s \in out
        BY <1>4, <1>7, <4>1 DEF OutSlots
      <4>3. algebra.left[p][s] # {}
        BY <1>3, <4>1 DEF WalkInv, GraphInv, EdgesInv
      <4> QED BY <4>2, <4>3
    <3> QED BY <1>3, <3>1, <3>2, <3>3 DEF Recorded
  <2> QED BY <1>5, <2>1
<1>9. /\ out \in SUBSET (1 .. l) /\ IsFiniteSet(1 .. l) /\ Cardinality(1 .. l) = l
      /\ Cardinality(out) \in Nat
  <2>1. out \in SUBSET (1 .. l)
    BY <1>4, <1>7 DEF OutSlots
  <2>2. IsFiniteSet(1 .. l) /\ Cardinality(1 .. l) = l
    BY <1>4, FS_Interval
  <2> QED BY <2>1, <2>2, FS_Subset, FS_CardinalityType
<1>10. Cardinality((1 .. l) \ out) = l - Cardinality(out)
  <2>1. (1 .. l) \cap out = out
    BY <1>9
  <2> QED BY <1>9, <2>1, FS_Difference, ZenonT(40)
<1>11. Cardinality(Arrows(algebra, p)) = (l - Cardinality(out)) + Cardinality(p.support)
  <2>1. Cardinality(Arrows(algebra, p)) =
          Cardinality({s \in DOMAIN p.module : algebra.left[p][s] = {}}) + Cardinality(p.support)
    BY <1>2, <1>4, RegularityAssumption
  <2> QED BY <1>8, <1>10, <2>1, Zenon
<1>12. Cardinality(Incoming(v)) = Cardinality(Arrows(algebra, p))
  BY <1>3, IncomingAreArrows
<1>13. PICK i \in Nat, o \in Nat, t \in Nat :
         i = Cardinality(Incoming(v)) /\ o = Cardinality(out) /\ t = Cardinality(p.support)
  <2>1. Cardinality(p.support) \in Nat
    BY <1>6, FS_CardinalityType
  <2>2. Cardinality(Incoming(v)) \in Nat
    BY IncomingAreArrows
  <2> QED BY <1>9, <2>1, <2>2
<1>14. i = (l - o) + t /\ l + t = algebra.rank
  BY <1>6, <1>11, <1>12, <1>13
<1> QED BY <1>3, <1>4, <1>7, <1>13, <1>14

\* A drained graph passes the engine's own verification.
LEMMA DrainedVerifies ==
  ASSUME WalkInv, Drained
  PROVE  Verify
<1>1. \A v, w \in DOMAIN vertices : v # w => vertices[v].pair # vertices[w].pair
  BY DEF WalkInv, GraphInv, PairsInv
<1>2. vertices # <<>> /\ vertices[1].pair = algebra.regular
  BY DEF WalkInv, GraphInv, PairsInv, Drained
<1> QED BY <1>1, <1>2, DrainedIsResolved, DrainedIsRegular DEF Verify

\* The recheck of a drained walk never fails.
THEOREM RecheckHolds == Spec => []NoDefect
<1>1. Init => NoDefect
  BY DEF Init, NoDefect
<1>2. WalkInv /\ NoDefect /\ [Next]_vars => NoDefect'
  <2> SUFFICES ASSUME WalkInv, pc # "defect", [Next]_vars
               PROVE  pc' # "defect"
    BY DEF NoDefect
  <2>1. CASE Halting
    <3>1. Halted
      BY <2>1, HaltingHalts DEF WalkInv
    <3> QED BY <3>1 DEF Halted
  <2>2. CASE PushRoot
    BY <2>2 DEF PushRoot, Stop
  <2>3. CASE TakeVertex
    BY <2>3 DEF TakeVertex
  <2>4. CASE RecordNoLeftMutation
    BY <2>4 DEF RecordNoLeftMutation, NextSlot, Stop
  <2>5. CASE RecordRepeatedEndpoint
    BY <2>5 DEF RecordRepeatedEndpoint, NextSlot, Stop
  <2>6. CASE RecordNewVertex
    <3>1. \E spent : NextSlot(V, S, N, spent)
      BY <2>6, Zenon DEF RecordNewVertex
    <3> QED BY <3>1 DEF NextSlot, Stop
  <2>7. CASE Close
    <3>1. pc = "walk" /\ visiting = <<>> /\ queue = <<>>
      BY <2>7 DEF Close
    <3>2. Verify
      BY <3>1, WalkDrains, DrainedVerifies
    <3> QED BY <2>7, <3>2 DEF Close, Stop
  <2>8. CASE UNCHANGED vars
    BY <2>8 DEF vars
  <2> QED BY <2>1, <2>2, <2>3, <2>4, <2>5, <2>6, <2>7, <2>8 DEF Next, Halting
<1> QED BY <1>1, <1>2, WalkIsKept, PTL DEF Spec

\* With a vertex there is a second pair: (A, 0) alone would be the target of
\* an arrow from itself.
LEMMA RootIsNotAlone ==
  ASSUME WalkInv, Drained, algebra.rank > 0
  PROVE  Len(vertices) # 1
<1>1. TypeOK /\ algebra \in Algebras
  BY DEF WalkInv, TypeOK
<1> SUFFICES ASSUME Len(vertices) = 1
             PROVE  FALSE
  OBVIOUS
<1>2. PICK p : p = algebra.regular
  OBVIOUS
<1>3. DOMAIN algebra.left = {p}
  <2>1. DOMAIN vertices = {1} /\ vertices[1].pair = p
    BY <1>1, <1>2 DEF TypeOK, WalkInv, GraphInv, PairsInv, Drained
  <2>2. Pairs = {p}
    BY <2>1 DEF Pairs
  <2> QED BY <2>2, DrainedIsComplete
<1>4. \A s \in DOMAIN p.module : algebra.left[p][s] = {}
  <2> SUFFICES ASSUME NEW s \in DOMAIN p.module, NEW w \in algebra.left[p][s]
               PROVE  FALSE
    OBVIOUS
  <2>1. w = p
    BY <1>1, <1>3, PairData
  <2>2. <<w, p>> \in algebra.order /\ <<p, p>> \notin algebra.order
    BY <1>1, <1>3, OrderAssumption
  <2> QED BY <2>1, <2>2
<1>5. Arrows(algebra, p) = {}
  BY <1>3, <1>4 DEF Arrows
<1>6. IsFiniteSet(DOMAIN p.module) /\ Cardinality(DOMAIN p.module) = algebra.rank
      /\ Cardinality(p.support) = 0 /\ algebra.rank \in Nat
  <2>1. p.support = {} /\ Len(p.module) + Cardinality(p.support) = algebra.rank /\ algebra.rank \in Nat
    BY <1>1, <1>2, <1>3, AlgebraAssumption
  <2>2. Cardinality(p.support) = 0
    BY <2>1, FS_EmptySet
  <2>3. PICK n \in Nat : n = Len(p.module) /\ DOMAIN p.module = 1 .. n
    BY <1>1, <1>3, PairData
  <2>4. IsFiniteSet(1 .. n) /\ Cardinality(1 .. n) = n
    BY FS_Interval
  <2> QED BY <2>1, <2>2, <2>3, <2>4
<1>7. {s \in DOMAIN p.module : algebra.left[p][s] = {}} = DOMAIN p.module
  BY <1>4
<1>8. Cardinality(Arrows(algebra, p)) =
        Cardinality({s \in DOMAIN p.module : algebra.left[p][s] = {}}) + Cardinality(p.support)
  BY <1>1, <1>3, RegularityAssumption
<1>9. Cardinality({}) = Cardinality(DOMAIN p.module) + Cardinality(p.support)
  BY <1>5, <1>7, <1>8, Zenon
<1> QED BY <1>6, <1>9, FS_EmptySet

\* A closed outcome is complete and inside the budgets.
THEOREM ClosureIsComplete == Spec => []ClosedIsComplete
<1>1. WalkInv => ClosedIsComplete
  <2> SUFFICES ASSUME WalkInv, pc = "closed"
               PROVE  /\ Pairs = DOMAIN algebra.left /\ Len(vertices) = Cardinality(Pairs)
                      /\ algebra.rank > 0 => Len(vertices) <= limits.vertices
                      /\ Len(mutations) <= limits.mutations /\ units <= limits.work
    BY DEF ClosedIsComplete
  <2>1. TypeOK /\ FrontierInv /\ CountInv
    BY DEF WalkInv
  <2>2. visiting = <<>> /\ queue = <<>> /\ units <= limits.work
    BY <2>1 DEF FrontierInv
  <2>3. Drained
    BY <2>2, WalkDrains
  <2>4. Pairs = DOMAIN algebra.left /\ Len(vertices) = Cardinality(Pairs)
    BY <2>3, DrainedIsComplete
  <2>5. algebra.rank > 0 => Len(vertices) <= limits.vertices
    <3>1. Len(vertices) \in Nat /\ Len(vertices) # 0
      BY <2>1, <2>3 DEF TypeOK, Drained
    <3>2. Len(vertices) <= 1 \/ Len(vertices) <= limits.vertices
      BY <2>1 DEF CountInv
    <3> QED BY <2>3, <3>1, <3>2, RootIsNotAlone
  <2>6. Len(mutations) <= limits.mutations
    BY <2>1 DEF CountInv
  <2> QED BY <2>2, <2>4, <2>5, <2>6
<1> QED BY <1>1, WalkIsKept, PTL

=============================================================================
