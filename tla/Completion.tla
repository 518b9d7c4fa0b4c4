----------------------------- MODULE Completion -----------------------------
(***************************************************************************)
(* Completion of a presentation into the reduced Groebner basis of its     *)
(* ideal under five budgets, and the emission of its certificate           *)
(* (completion/engine.rs). One thread works through the phases; a step is  *)
(* one reduction, or the choice or the end of one thing to reduce.         *)
(***************************************************************************)
EXTENDS NormalWords, CertificateVerifier

CONSTANT Jobs   \* the presentations and the limits that are tried with each

IsSeq(s) == s \in Seq({s[k] : k \in DOMAIN s})

\* a presentation before its completion starts: the modulus is prime, so that
\* every coefficient has an inverse, arrows are between vertices (Quiver::new),
\* and the relations have been validated
IsPresentation(pr) ==
  /\ pr.p \in Nat /\ pr.p >= 2
  /\ \A a \in 1 .. pr.p - 1 : \E b \in 1 .. pr.p - 1 : (b * a) % pr.p = 1
  /\ pr.vertices \in Nat /\ pr.arrows \in Seq((1 .. pr.vertices) \X (1 .. pr.vertices))
  /\ IsSeq(pr.relations)
  /\ \A n \in DOMAIN pr.relations :
       LET relation == pr.relations[n] IN
       /\ DOMAIN relation \in SUBSET Seq(Nat) /\ IsFiniteSet(DOMAIN relation)
       /\ relation = [w \in DOMAIN relation |-> relation[w]]
       /\ IsRelation([field |-> pr.p, quiver |-> [vertices |-> pr.vertices, arrows |-> pr.arrows]],
                     relation)

ASSUME JobsAssumption == \A job \in Jobs : IsPresentation(job[1])

VARIABLES
  presentation, limits,
  basis,        \* the working basis: polynomials with their origins
  queue,        \* the ambiguities that are left
  work,         \* the element under reduction, or none
  phase, index, \* what is being done, and to which relation or element
  dropped,      \* the last interreduction dropped an element
  steps,        \* work units
  traces,       \* the reductions of the relations, then of the ambiguities
  certificate,  \* what a run that is not truncated emits
  stop          \* the diagnostics of a truncated run

loop == <<queue, work, phase, index>>
vars == <<presentation, limits, basis, loop, dropped, steps, traces, certificate, stop>>

p == presentation.p
relations == presentation.relations
NoWork == [idle |-> TRUE]
Work(poly, origin) ==
  [idle |-> FALSE, poly |-> poly, origin |-> origin, start |-> poly, steps |-> <<>>, key |-> <<>>]
Element(poly, origin) == [poly |-> poly, origin |-> origin]
NoCertificate == [finiteness |-> [kind |-> "none"]]
NoStop == [reason |-> "none"]
Leads == {LeadWord(basis[k]) : k \in DOMAIN basis}

Init ==
  /\ \E job \in Jobs : presentation = job[1] /\ limits = job[2]
  /\ basis = <<>> /\ queue = {} /\ work = NoWork
  /\ phase = "relations" /\ index = 1
  /\ dropped = FALSE /\ steps = 0 /\ traces = <<>>
  /\ certificate = NoCertificate /\ stop = NoStop

\* a budget ran out
Truncate(reason, pending) ==
  /\ phase' = "truncated"
  /\ stop' = [reason |-> reason, basis_len |-> Len(basis'),
              pending_ambiguities |-> pending, steps_used |-> steps']
  /\ work' = NoWork
  /\ UNCHANGED <<presentation, limits, queue, index, dropped, traces, certificate>>

Pending ==
  CASE phase \in {"drain", "ambiguities"} -> Cardinality(queue) + 1
    [] phase = "membership" -> Cardinality(queue)
    [] OTHER -> 0

-----------------------------------------------------------------------------
(* Reduction (reduce_full).                                                *)

\* mutant of Usable: the element is not skipped, and takes itself away
UsableAll == DOMAIN basis

\* the tail of an element is reduced by the others
Usable == DOMAIN basis \ (IF phase = "tail" THEN {index} ELSE {})
Reducers(word) == {k \in Usable : Occurrences(word, LeadWord(basis[k])) # {}}
Reducible == {w \in DOMAIN work.poly : Reducers(w) # {}}
IsReduced == ~work.idle /\ Reducible = {}

\* the largest reducible word, the lowest basis index, the leftmost occurrence
Target ==
  LET word == Largest(Reducible)
      k == Min(Reducers(word))
      lead == LeadWord(basis[k])
      offset == Min(Occurrences(word, lead))
  IN  [word |-> word, basis_index |-> k, element |-> basis[k], factor |-> p - work.poly[word],
       left |-> SubSeq(word, 1, offset),
       right |-> SubSeq(word, offset + Len(lead) + 1, Len(word))]

KeepsOrigin == phase \in {"relations", "drain", "tail"}

\* a step of a certificate's trace, which records the coefficient it takes away
KeepsTrace == phase \in {"membership", "ambiguities"}

TraceStep(t) == [word |-> t.word, basis_index |-> t.basis_index, left |-> t.left,
                 right |-> t.right, coeff |-> work.poly[t.word]]

OriginFits ==
  KeepsOrigin => ~OriginOverflows(p, limits.max_origin_terms, work.origin, Target.factor,
                                  Target.left, Target.element.origin, Target.right)

Reduce ==
  /\ ~work.idle /\ Reducible # {} /\ steps < limits.max_steps /\ OriginFits
  /\ steps' = steps + 1
  /\ LET t == Target IN
     work' = [work EXCEPT
       !.poly = AddPoly(p, @, t.factor, t.left, t.element.poly, t.right),
       !.origin = IF KeepsOrigin
                  THEN AddOrigin(p, @, t.factor, t.left, t.element.origin, t.right) ELSE @,
       !.steps = IF KeepsTrace THEN Append(@, TraceStep(t)) ELSE @]
  /\ UNCHANGED <<presentation, limits, basis, queue, phase, index, dropped, traces, certificate,
                 stop>>

ExhaustSteps ==
  /\ ~work.idle /\ Reducible # {} /\ steps >= limits.max_steps
  /\ UNCHANGED <<basis, steps>>
  /\ Truncate("steps", Pending)

\* the step counts before its origin is found too long
ExhaustOrigin ==
  /\ ~work.idle /\ Reducible # {} /\ steps < limits.max_steps /\ ~OriginFits
  /\ steps' = steps + 1 /\ UNCHANGED basis
  /\ Truncate("origin", Pending)

-----------------------------------------------------------------------------
(* The relations (initial_basis).                                          *)

InputOrigin(n) == [k \in {<<n, <<>>, <<>>>>} |-> 1]

TakeRelation ==
  /\ phase = "relations" /\ work.idle /\ index \in DOMAIN relations
  /\ Len(Largest(DOMAIN relations[index])) <= limits.max_word_len
  /\ limits.max_origin_terms >= 1
  /\ work' = Work(relations[index], InputOrigin(index))
  /\ UNCHANGED <<presentation, limits, basis, queue, phase, index, dropped, steps, traces,
                 certificate, stop>>

RefuseRelation ==
  /\ phase = "relations" /\ work.idle /\ index \in DOMAIN relations
  /\ UNCHANGED <<basis, steps>>
  /\ LET tooLong == Len(Largest(DOMAIN relations[index])) > limits.max_word_len
     IN  /\ tooLong \/ limits.max_origin_terms < 1
         /\ Truncate(IF tooLong THEN "word_len" ELSE "origin", 0)

\* a relation or a composition that reduces to zero adds nothing
DropZero ==
  /\ phase \in {"relations", "drain"} /\ IsReduced /\ IsZero(work.poly)
  /\ work' = NoWork
  /\ index' = IF phase = "relations" THEN index + 1 ELSE index
  /\ UNCHANGED <<presentation, limits, basis, queue, phase, dropped, steps, traces, certificate,
                 stop>>

RefuseElement ==
  /\ phase \in {"relations", "drain"} /\ IsReduced /\ ~IsZero(work.poly)
  /\ Len(basis) >= limits.max_basis
  /\ UNCHANGED <<basis, steps>>
  /\ Truncate("basis", Pending)

Grow ==
  /\ IsReduced /\ ~IsZero(work.poly) /\ Len(basis) < limits.max_basis
  /\ basis' = Append(basis, MakeMonic(p, Element(work.poly, work.origin)))

KeepRelation ==
  /\ phase = "relations" /\ Grow
  /\ work' = NoWork /\ index' = index + 1
  /\ UNCHANGED <<presentation, limits, queue, phase, dropped, steps, traces, certificate, stop>>

-----------------------------------------------------------------------------
(* The ambiguities (complete_round).                                       *)

Ambiguities(elems, pair) ==
  PairAmbiguities(pair[1], pair[2], LeadWord(elems[pair[1]]), LeadWord(elems[pair[2]]))

AllPairs(n) == [k \in 1 .. n * n |-> <<((k - 1) \div n) + 1, ((k - 1) % n) + 1>>]

\* mutant of NewPairs: the new element is taken as the left factor only
NewPairsOneWay(n) == [k \in 1 .. n |-> <<n, k>>]

\* the new element against every element, itself included, in both directions
NewPairs(n) ==
  [k \in 1 .. 2 * n |-> IF k % 2 = 1 THEN <<n, (k + 1) \div 2>> ELSE <<k \div 2, n>>]

\* mutant of Filled: the ambiguities that still wait in the queue are lost
FilledAnew(elems, pairs, n) == UNION {Ambiguities(elems, pairs[k]) : k \in 1 .. n}

Filled(elems, pairs, n) == queue \cup UNION {Ambiguities(elems, pairs[k]) : k \in 1 .. n}

\* the sizes past the budget that the queue takes while it is filled
Overfull(elems, pairs) ==
  {s \in {Cardinality(Filled(elems, pairs, n)) : n \in DOMAIN pairs} : s > limits.max_ambiguities}

BasisIsReady ==
  \/ phase = "relations" /\ work.idle /\ index > Len(relations)
  \/ phase = "tail" /\ work.idle /\ index > Len(basis) /\ dropped

TailIsDone == phase = "tail" /\ work.idle /\ index > Len(basis) /\ ~dropped

\* every ambiguity of the basis, for a round of completion or for the certificate
StartRound ==
  /\ BasisIsReady \/ TailIsDone
  /\ Overfull(basis, AllPairs(Len(basis))) = {}
  /\ queue' = Filled(basis, AllPairs(Len(basis)), Len(basis) * Len(basis))
  /\ phase' = IF BasisIsReady THEN "drain" ELSE "membership"
  /\ index' = 1
  /\ UNCHANGED <<presentation, limits, basis, work, dropped, steps, traces, certificate, stop>>

RefuseRound ==
  /\ BasisIsReady \/ TailIsDone
  /\ UNCHANGED <<basis, steps>>
  /\ LET sizes == Overfull(basis, AllPairs(Len(basis)))
     IN  sizes # {} /\ Truncate("ambiguities", Min(sizes))

FirstKey == CHOOSE key \in queue : \A other \in queue \ {key} : LexLess(key, other)

Lead(k) == LeadWord(basis[k])
ContextsOf(key) == Contexts(key, Lead(key[1]), Lead(key[2]))

CompositionPoly(key) ==
  LET c == ContextsOf(key)
      first == AddPoly(p, <<>>, 1, <<>>, basis[key[1]].poly, c.vi)
  IN  AddPoly(p, first, p - 1, c.u, basis[key[2]].poly, c.vj)

\* the origin of g_i * v_i, to which that of - u * g_j * v_j is added
FirstOrigin(key) == AddOrigin(p, <<>>, 1, <<>>, basis[key[1]].origin, ContextsOf(key).vi)

CompositionOrigin(key) ==
  AddOrigin(p, FirstOrigin(key), p - 1, ContextsOf(key).u, basis[key[2]].origin, ContextsOf(key).vj)

CompositionOverflows(key) ==
  OriginOverflows(p, limits.max_origin_terms, FirstOrigin(key), p - 1, ContextsOf(key).u,
                  basis[key[2]].origin, ContextsOf(key).vj)

SuperpositionFits(key) == SuperpositionLen(key, Lead(key[1]), Lead(key[2])) <= limits.max_word_len

TakeAmbiguity ==
  /\ phase = "drain" /\ work.idle /\ queue # {}
  /\ SuperpositionFits(FirstKey) /\ ~CompositionOverflows(FirstKey)
  /\ work' = Work(CompositionPoly(FirstKey), CompositionOrigin(FirstKey))
  /\ queue' = queue \ {FirstKey}
  /\ UNCHANGED <<presentation, limits, basis, phase, index, dropped, steps, traces, certificate,
                 stop>>

RefuseAmbiguity ==
  /\ phase = "drain" /\ work.idle /\ queue # {}
  /\ UNCHANGED <<basis, steps>>
  /\ \/ ~SuperpositionFits(FirstKey) /\ Truncate("word_len", Cardinality(queue))
     \/ /\ SuperpositionFits(FirstKey) /\ CompositionOverflows(FirstKey)
        /\ Truncate("origin", Cardinality(queue))

KeepComposition ==
  /\ phase = "drain" /\ Grow
  /\ Overfull(basis', NewPairs(Len(basis'))) = {}
  /\ queue' = Filled(basis', NewPairs(Len(basis')), Len(NewPairs(Len(basis'))))
  /\ work' = NoWork
  /\ UNCHANGED <<presentation, limits, phase, index, dropped, steps, traces, certificate, stop>>

RefusePairs ==
  /\ phase = "drain" /\ Grow
  /\ UNCHANGED steps
  /\ LET sizes == Overfull(basis', NewPairs(Len(basis')))
     IN  sizes # {} /\ Truncate("ambiguities", Min(sizes))

-----------------------------------------------------------------------------
(* Interreduction (interreduce, complete_basis).                           *)

IsRedundant(k) ==
  \E j \in DOMAIN basis \ {k} : Occurrences(LeadWord(basis[k]), LeadWord(basis[j])) # {}

Interreduce ==
  LET kept == {k \in DOMAIN basis : ~IsRedundant(k)}
      order == Sorted(kept, LAMBDA j, k : WordLess(Lead(j), Lead(k))) IN
  /\ phase = "drain" /\ work.idle /\ queue = {}
  /\ basis' = [n \in DOMAIN order |-> basis[order[n]]]
  /\ dropped' = (Len(basis') # Len(basis))
  /\ phase' = "tail" /\ index' = 1
  /\ UNCHANGED <<presentation, limits, queue, work, steps, traces, certificate, stop>>

TakeTail ==
  /\ phase = "tail" /\ work.idle /\ index \in DOMAIN basis
  /\ work' = Work(basis[index].poly, basis[index].origin)
  /\ UNCHANGED <<presentation, limits, basis, queue, phase, index, dropped, steps, traces,
                 certificate, stop>>

KeepTail ==
  /\ phase = "tail" /\ IsReduced
  /\ basis' = [basis EXCEPT ![index] = Element(work.poly, work.origin)]
  /\ work' = NoWork /\ index' = index + 1
  /\ UNCHANGED <<presentation, limits, queue, phase, dropped, steps, traces, certificate, stop>>

-----------------------------------------------------------------------------
(* The certificate (emit).                                                 *)

TakeMember ==
  /\ phase = "membership" /\ work.idle /\ index \in DOMAIN relations
  /\ work' = Work(relations[index], <<>>)
  /\ UNCHANGED <<presentation, limits, basis, queue, phase, index, dropped, steps, traces,
                 certificate, stop>>

EndMembership ==
  /\ phase = "membership" /\ work.idle /\ index > Len(relations)
  /\ phase' = "ambiguities"
  /\ UNCHANGED <<presentation, limits, basis, queue, work, index, dropped, steps, traces,
                 certificate, stop>>

TakeEntry ==
  /\ phase = "ambiguities" /\ work.idle /\ queue # {}
  /\ work' = [Work(CompositionPoly(FirstKey), <<>>) EXCEPT !.key = FirstKey]
  /\ queue' = queue \ {FirstKey}
  /\ UNCHANGED <<presentation, limits, basis, phase, index, dropped, steps, traces, certificate,
                 stop>>

\* the end of a trace
RecordTrace ==
  /\ phase \in {"membership", "ambiguities"} /\ IsReduced
  /\ traces' = Append(traces, [key |-> work.key, start |-> work.start, steps |-> work.steps])
  /\ work' = NoWork /\ index' = index + 1
  /\ UNCHANGED <<presentation, limits, basis, queue, phase, dropped, steps, certificate, stop>>

TracesAreDone == phase = "ambiguities" /\ work.idle /\ queue = {}
IsFinite == IsFiniteLanguage(presentation, Leads)
NormalWords == Language(presentation, Leads)

\* by length, source and arrows; a word is written down without its source
NormalWordList ==
  LET Before(d, e) ==
        \/ Len(d.word) < Len(e.word)
        \/ Len(d.word) = Len(e.word) /\ d.source < e.source
        \/ Len(d.word) = Len(e.word) /\ d.source = e.source /\ LexLess(d.word, e.word)
      sorted == Sorted(NormalWords, Before)
  IN  [n \in DOMAIN sorted |-> sorted[n].word]

Emitted(normal_words, finiteness) ==
  [field           |-> p,
   quiver          |-> [vertices |-> presentation.vertices, arrows |-> presentation.arrows],
   input_relations |-> relations,
   basis           |-> [k \in DOMAIN basis |-> basis[k].poly],
   origin          |-> [k \in DOMAIN basis |-> basis[k].origin],
   membership      |-> SubSeq(traces, 1, Len(relations)),
   ambiguities     |-> SubSeq(traces, Len(relations) + 1, Len(traces)),
   normal_words    |-> normal_words,
   automaton       |-> [states      |-> States(presentation, Leads),
                        transitions |-> Transitions(presentation, Leads)],
   finiteness      |-> finiteness]

EmitWitness ==
  /\ TracesAreDone /\ ~IsFinite
  /\ LET witness == CycleWitness(presentation, Leads) IN
     certificate' = Emitted(<<>>, [kind   |-> "infinite",
                                   prefix |-> witness.prefix, cycle |-> witness.cycle])
  /\ phase' = "complete"
  /\ UNCHANGED <<presentation, limits, basis, queue, work, index, dropped, steps, traces, stop>>

\* every normal word costs a unit
EmitWords ==
  /\ TracesAreDone /\ IsFinite /\ steps + Cardinality(NormalWords) <= limits.max_steps
  /\ certificate' = Emitted(NormalWordList, [kind |-> "finite"])
  /\ steps' = steps + Cardinality(NormalWords)
  /\ phase' = "complete"
  /\ UNCHANGED <<presentation, limits, basis, queue, work, index, dropped, traces, stop>>

RefuseWords ==
  /\ TracesAreDone /\ IsFinite /\ steps + Cardinality(NormalWords) > limits.max_steps
  /\ steps' = limits.max_steps /\ UNCHANGED basis
  /\ Truncate("steps", 0)

Next ==
  \/ Reduce \/ ExhaustSteps \/ ExhaustOrigin
  \/ TakeRelation \/ RefuseRelation \/ DropZero \/ RefuseElement \/ KeepRelation
  \/ StartRound \/ RefuseRound
  \/ TakeAmbiguity \/ RefuseAmbiguity \/ KeepComposition \/ RefusePairs
  \/ Interreduce \/ TakeTail \/ KeepTail
  \/ TakeMember \/ EndMembership \/ TakeEntry \/ RecordTrace
  \/ EmitWitness \/ EmitWords \/ RefuseWords

Spec == Init /\ [][Next]_vars

-----------------------------------------------------------------------------
(* Properties.                                                             *)

Repeated(word, n) == [k \in 1 .. n * Len(word) |-> word[((k - 1) % Len(word)) + 1]]

\* every normal word is listed once, the trivial path of each vertex as the
\* empty word; or all the repetitions of the cycle are normal
WordsAreRight ==
  LET listed == certificate.normal_words
      finiteness == certificate.finiteness IN
  IF finiteness.kind = "finite"
  THEN /\ Cardinality({n \in DOMAIN listed : listed[n] = <<>>}) = presentation.vertices
       /\ \A m, n \in DOMAIN listed : listed[m] = listed[n] => m = n \/ listed[n] = <<>>
       /\ \A n \in DOMAIN listed :
            /\ IsNormal(presentation, Leads, listed[n])
            /\ \A a \in DOMAIN presentation.arrows :
                 IsNormal(presentation, Leads, Append(listed[n], a))
                 => \E m \in DOMAIN listed : listed[m] = Append(listed[n], a)
  ELSE /\ finiteness.cycle # <<>>
       /\ \A n \in 0 .. 1 + Max({Len(w) : w \in Leads} \cup {0}) :
            IsNormal(presentation, Leads, finiteness.prefix \o Repeated(finiteness.cycle, n))

\* the certificate with one thing missing: the last step of a trace, the entry
\* of an ambiguity, a term of an origin, a transition, a normal word; or with
\* one thing wrong: the coefficient of a last step, the claim of finiteness
Defective ==
  LET cert == certificate
      Without(f, x) == [y \in DOMAIN f \ {x} |-> f[y]]
      Shortened(ts, n) == [ts EXCEPT ![n].steps = SubSeq(@, 1, Len(@) - 1)]
      Miscounted(ts, n) == [ts EXCEPT ![n].steps[Len(ts[n].steps)].coeff = (@ + 1) % p]
      Cut(ts) == {n \in DOMAIN ts : ts[n].steps # <<>>}
  IN  {[cert EXCEPT !.membership = Shortened(@, n)] : n \in Cut(cert.membership)}
      \cup {[cert EXCEPT !.membership = Miscounted(@, n)] : n \in Cut(cert.membership)}
      \cup {[cert EXCEPT !.ambiguities = Shortened(@, n)] : n \in Cut(cert.ambiguities)}
      \cup {[cert EXCEPT !.ambiguities = RemoveAt(@, n)] : n \in DOMAIN cert.ambiguities}
      \cup (UNION {{[cert EXCEPT !.origin[k] = Without(@, t)] : t \in DOMAIN cert.origin[k]} :
                     k \in DOMAIN cert.origin})
      \cup {[cert EXCEPT !.automaton.transitions = @ \ {t}] : t \in cert.automaton.transitions}
      \cup {[cert EXCEPT !.normal_words = RemoveAt(@, n)] : n \in DOMAIN cert.normal_words}
      \cup ({[cert EXCEPT !.finiteness = [kind |-> "finite"]]} \ {cert})

\* No two elements of the basis ever have the same leading word, in any phase:
\* two that had would each make the other redundant, and interreduction would
\* lose both (completion/engine.rs, the assertion at the head of interreduce).
LeadsAreDistinct == \A j, k \in DOMAIN basis : j # k => Lead(j) # Lead(k)

\* A reduction that a certificate records never stops short of zero: by the time
\* the certificate is emitted the basis generates the ideal of the relations and
\* every composition of two of its elements resolves (completion/engine.rs, the
\* assertions of membership_traces and of ambiguity_entry).
TracesEndInZero == KeepsTrace /\ IsReduced => IsZero(work.poly)

\* While the tails are reduced no leading word contains another one, so that the
\* element under reduction keeps its leading word, and is not zero, whatever the
\* others have become by then (completion/engine.rs, the comment on interreduce).
ReductionTouchesTails ==
  phase = "tail" =>
    /\ \A k \in DOMAIN basis : ~IsRedundant(k)
    /\ ~work.idle => work.poly # <<>> /\ Leading(work.poly) = Lead(index)

\* Whatever the presentation and the order of its relations, a certificate that
\* comes out is accepted by the verifier, which shares nothing with the engine:
\* the basis is reduced, each element is what its origin expands to, every
\* relation and every composition of two elements is replayed to zero. Its normal
\* words are all that there are, or its cycle makes them infinitely many; the
\* automaton has only states that a word leads to, on which longest_walks relies;
\* and with any one thing missing or wrong the certificate is rejected
\* (completion/engine.rs, emit; verify/entry.rs; tests/completion_verify.rs).
CertificateHolds ==
  phase = "complete" =>
    /\ Verdict(certificate) = IF IsFinite THEN "verified" ELSE "infinite_dimensional"
    /\ WordsAreRight
    /\ ReachableStates(certificate) = AutomatonStates(certificate)
    /\ \A defective \in Defective : Verdict(defective) = "rejected"

=============================================================================
