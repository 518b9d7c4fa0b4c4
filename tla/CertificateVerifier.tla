------------------------ MODULE CertificateVerifier ------------------------
(***************************************************************************)
(* The verifier of a completion certificate (verify/). It shares words,    *)
(* paths and field arithmetic with the engine and nothing else: the        *)
(* ambiguities, the replay of the traces, the automaton and the order of   *)
(* the normal words are its own.                                           *)
(*                                                                         *)
(* A polynomial is a function from words to coefficients, so that its      *)
(* descending order is not stored; the states and the transitions of the   *)
(* automaton are sets of states, so that neither is their numbering.       *)
(***************************************************************************)
EXTENDS PathAlgebra, SequencesExt

Leading(poly) == Largest(DOMAIN poly)

EndPoints(quiver, word) == <<quiver.arrows[word[1]][1], quiver.arrows[word[Len(word)]][2]>>

\* validate_relation_data
IsRelation(cert, poly) ==
  /\ ~IsZero(poly)
  /\ \A w \in DOMAIN poly :
       /\ poly[w] \in 1 .. cert.field - 1
       /\ Len(w) >= 2
       /\ IsPath(cert.quiver, w)
  /\ \A w, u \in DOMAIN poly : EndPoints(cert.quiver, w) = EndPoints(cert.quiver, u)

RelationsHold(cert) == \A n \in DOMAIN cert.input_relations : IsRelation(cert, cert.input_relations[n])

\* check_basis: relations, monic, and no leading word inside another word
BasisHolds(cert) ==
  /\ \A k \in DOMAIN cert.basis :
       /\ IsRelation(cert, cert.basis[k])
       /\ cert.basis[k][Leading(cert.basis[k])] = 1
  /\ \A k, j \in DOMAIN cert.basis : \A w \in DOMAIN cert.basis[j] :
       \/ j = k /\ w = Leading(cert.basis[k])
       \/ Occurrences(w, Leading(cert.basis[k])) = {}

\* check_origin: each element is what its origin expands to
OriginHolds(cert) ==
  LET Term(k, t) ==
        AddPoly(cert.field, <<>>, cert.origin[k][t], t[2], cert.input_relations[t[1]], t[3])
      Sum(k) ==
        FoldSet(LAMBDA t, sum : AddPoly(cert.field, sum, 1, <<>>, Term(k, t), <<>>),
                <<>>, DOMAIN cert.origin[k])
  IN  /\ Len(cert.origin) = Len(cert.basis)
      /\ \A k \in DOMAIN cert.origin :
           /\ \A t \in DOMAIN cert.origin[k] :
                /\ cert.origin[k][t] \in 1 .. cert.field - 1
                /\ t[1] \in DOMAIN cert.input_relations
                /\ \A w \in DOMAIN cert.input_relations[t[1]] :
                     IsPath(cert.quiver, t[2] \o w \o t[3])
           /\ Sum(k) = cert.basis[k]

-----------------------------------------------------------------------------
(* The traces (trace.rs).                                                  *)

\* one step of replay: it takes the whole of a word that is there
StepHolds(cert, step, poly) ==
  /\ step.basis_index \in DOMAIN cert.basis
  /\ LET element == cert.basis[step.basis_index] IN
       /\ step.word = step.left \o Leading(element) \o step.right
       /\ step.word \in DOMAIN poly
       /\ step.coeff = poly[step.word]
       /\ \A w \in DOMAIN element :
            /\ IsPath(cert.quiver, step.left \o w \o step.right)
            /\ w # Leading(element) => WordLess(step.left \o w \o step.right, step.word)

Replays(cert, trace) ==
  LET left[n \in 0 .. Len(trace.steps)] ==   \* what is left after n steps
        IF n = 0 THEN trace.start
        ELSE LET step == trace.steps[n]
                 poly == left[n - 1]
             IN  AddPoly(cert.field, poly, cert.field - poly[step.word],
                         step.left, cert.basis[step.basis_index], step.right)
  IN  /\ \A n \in DOMAIN trace.steps : StepHolds(cert, trace.steps[n], left[n - 1])
      /\ IsZero(left[Len(trace.steps)])

MembershipHolds(cert) ==
  /\ Len(cert.membership) = Len(cert.input_relations)
  /\ \A n \in DOMAIN cert.membership :
       /\ cert.membership[n].start = cert.input_relations[n]
       /\ Replays(cert, cert.membership[n])

\* is_ambiguity, pair_ambiguity_keys: the keys by the offset of the second word
AmbiguityKeys(cert) ==
  LET Word(k) == Leading(cert.basis[k])
      Shared(i, offset) == SubSeq(Word(i), offset + 1, Len(Word(i)))
      Overlaps(i, j) ==
        {<<i, j, Overlap, offset>> :
           offset \in {o \in 1 .. Len(Word(i)) - 1 :
                         /\ Len(Word(i)) - o < Len(Word(j))
                         /\ Shared(i, o) = SubSeq(Word(j), 1, Len(Word(i)) - o)}}
      Inclusions(i, j) ==
        {<<i, j, Inclusion, offset>> :
           offset \in {o \in 0 .. Len(Word(i)) - Len(Word(j)) :
                         /\ i # j /\ Len(Word(j)) < Len(Word(i))
                         /\ SubSeq(Word(i), o + 1, o + Len(Word(j))) = Word(j)}}
  IN  UNION {UNION {Overlaps(i, j) \cup Inclusions(i, j) : j \in DOMAIN cert.basis} :
               i \in DOMAIN cert.basis}

\* check_ambiguity_keys: every key once, in ascending order
KeysHold(cert) ==
  /\ {cert.ambiguities[n].key : n \in DOMAIN cert.ambiguities} = AmbiguityKeys(cert)
  /\ \A n \in 1 .. Len(cert.ambiguities) - 1 :
       LexLess(cert.ambiguities[n].key, cert.ambiguities[n + 1].key)

\* composition: the two ways to rewrite the superposition of two leading words
Composed(cert, key) ==
  LET li == Leading(cert.basis[key[1]])
      lj == Leading(cert.basis[key[2]])
      left == SubSeq(li, 1, key[4])
      after == IF key[3] = Overlap THEN SubSeq(lj, Len(li) - key[4] + 1, Len(lj)) ELSE <<>>
      beyond == IF key[3] = Overlap THEN <<>> ELSE SubSeq(li, key[4] + Len(lj) + 1, Len(li))
      first == AddPoly(cert.field, <<>>, 1, <<>>, cert.basis[key[1]], after)
  IN  AddPoly(cert.field, first, cert.field - 1, left, cert.basis[key[2]], beyond)

\* check_ambiguities: a start is the composition or its negation
AmbiguitiesHold(cert) ==
  /\ KeysHold(cert)
  /\ \A n \in DOMAIN cert.ambiguities :
       LET entry == cert.ambiguities[n]
           composed == Composed(cert, entry.key)
       IN  /\ IsZero(entry.start) \/ IsRelation(cert, entry.start)
           /\ entry.start \in {composed, AddPoly(cert.field, <<>>, cert.field - 1, <<>>, composed, <<>>)}
           /\ Replays(cert, entry)

-----------------------------------------------------------------------------
(* The automaton (automaton.rs). A state is a vertex and a word.           *)

LeadingWords(cert) == {Leading(cert.basis[k]) : k \in DOMAIN cert.basis}

Starts(cert) == {[vertex |-> v, word |-> <<>>] : v \in 1 .. cert.quiver.vertices}

Tracked(cert) == UNION {{SubSeq(w, 1, n) : n \in 1 .. Len(w) - 1} : w \in LeadingWords(cert)}

AutomatonStates(cert) ==
  Starts(cert) \cup {[vertex |-> cert.quiver.arrows[w[Len(w)]][2], word |-> w] : w \in Tracked(cert)}

\* the edges <<arrow, state>> of a state
Edges(cert, state) ==
  LET Follow(arrow) ==
        LET candidate == Append(state.word, arrow)
            cuts == {n \in DOMAIN candidate : SubSeq(candidate, n, Len(candidate)) \in Tracked(cert)}
        IN  [vertex |-> cert.quiver.arrows[arrow][2],
             word |-> IF cuts = {} THEN <<>> ELSE SubSeq(candidate, Min(cuts), Len(candidate))]
  IN  {<<a, Follow(a)>> : a \in {b \in DOMAIN cert.quiver.arrows :
         /\ cert.quiver.arrows[b][1] = state.vertex
         /\ \A w \in LeadingWords(cert) : ~IsSuffix(w, Append(state.word, b))}}

AutomatonHolds(cert) ==
  /\ cert.automaton.states = AutomatonStates(cert)
  /\ cert.automaton.transitions =
       UNION {{<<s, e[1], e[2]>> : e \in Edges(cert, s)} : s \in AutomatonStates(cert)}

Successors(cert, state) == {e[2] : e \in Edges(cert, state)}

ReachableStates(cert) ==
  LET size == Cardinality(AutomatonStates(cert))
      met[n \in 0 .. size] ==
        IF n = 0 THEN Starts(cert)
        ELSE LET states == met[n - 1] IN states \cup UNION {Successors(cert, s) : s \in states}
  IN  met[size]

\* automaton_has_cycle: something is left when states without an edge are removed
HasCycle(cert) ==
  LET size == Cardinality(AutomatonStates(cert))
      left[n \in 0 .. size] ==
        IF n = 0 THEN ReachableStates(cert)
        ELSE LET states == left[n - 1] IN {s \in states : Successors(cert, s) \cap states # {}}
  IN  left[size] # {}

\* longest_walks of an automaton without a cycle
LongestWalks(cert) ==
  LET longest[s \in AutomatonStates(cert)] ==
        Max({0} \cup {longest[t] + 1 : t \in Successors(cert, s)})
  IN  longest

\* NormalWordGen: the words of each length from each vertex, by a depth-first
\* walk that takes the arrows in order and leaves out what cannot get that long
NormalWordOrder(cert) ==
  LET longest == LongestWalks(cert)
      Enough(s, n) == {e \in Edges(cert, s) : longest[e[2]] + 1 >= n}
      InOrder(edges) == Sorted(edges, LAMBDA d, e : d[1] < e[1])
      max_length == Max({0} \cup {longest[t] : t \in Starts(cert)})
      walks[n \in 0 .. max_length] ==
        IF n = 0 THEN [s \in AutomatonStates(cert) |-> <<<<>>>>]
        ELSE LET shorter == walks[n - 1] IN
             [s \in AutomatonStates(cert) |->
                LET edges == InOrder(Enough(s, n)) IN
                FlattenSeq([k \in DOMAIN edges |->
                  LET rest == shorter[edges[k][2]] IN
                  [m \in DOMAIN rest |-> <<edges[k][1]>> \o rest[m]]])]
      vertices == cert.quiver.vertices
      From(v, n) == LET s == [vertex |-> v, word |-> <<>>] IN
                    IF longest[s] >= n THEN walks[n][s] ELSE <<>>
  IN  FlattenSeq([k \in 1 .. vertices * (max_length + 1) |->
                   From(((k - 1) % vertices) + 1, (k - 1) \div vertices)])

\* replay_word: the state a word leads to, none when an arrow has no edge
ReadFrom(cert, state, word) ==
  LET at[n \in 0 .. Len(word)] ==
        IF n = 0 THEN {state}
        ELSE UNION {{e[2] : e \in {d \in Edges(cert, s) : d[1] = word[n]}} : s \in at[n - 1]}
  IN  at[Len(word)]

\* check_witness: prefix, cycle and cycle again is a normal word, and the cycle
\* ends in the state it starts from
WitnessHolds(cert) ==
  LET prefix == cert.finiteness.prefix
      cycle == cert.finiteness.cycle
      word == prefix \o cycle \o cycle
      start == [vertex |-> cert.quiver.arrows[word[1]][1], word |-> <<>>]
      reached == ReadFrom(cert, start, prefix)
  IN  /\ cycle # <<>>
      /\ IsPath(cert.quiver, word)
      /\ \A w \in LeadingWords(cert) : Occurrences(word, w) = {}
      /\ reached # {}
      /\ \A s \in reached : ReadFrom(cert, s, cycle) = {s}

-----------------------------------------------------------------------------
\* a finite claim needs the normal words in their order, an infinite one a
\* witness and no words
FinitenessHolds(cert) ==
  CASE cert.finiteness.kind = "finite" ->
         ~HasCycle(cert) /\ cert.normal_words = NormalWordOrder(cert)
    [] OTHER -> HasCycle(cert) /\ WitnessHolds(cert) /\ cert.normal_words = <<>>

\* verify_certificate: the checks in their order; that of a certificate with
\* infinitely many words is an answer of its own. Which check a rejection names
\* is left out.
Verdict(cert) ==
  IF /\ RelationsHold(cert)
     /\ BasisHolds(cert)
     /\ OriginHolds(cert)
     /\ MembershipHolds(cert)
     /\ AmbiguitiesHold(cert)
     /\ AutomatonHolds(cert)
     /\ FinitenessHolds(cert)
  THEN IF cert.finiteness.kind = "finite" THEN "verified" ELSE "infinite_dimensional"
  ELSE "rejected"

=============================================================================
