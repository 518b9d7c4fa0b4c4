---------------------------- MODULE NormalWords ----------------------------
(***************************************************************************)
(* The automaton of the words that contain no forbidden word as a factor   *)
(* (completion/automaton.rs), its language when that is finite, and the    *)
(* witness of a cycle when it is not.                                      *)
(*                                                                         *)
(* A quiver is a number of vertices and a sequence of arrows               *)
(* <<source, target>>. A state is a vertex with the longest proper prefix  *)
(* of a forbidden word that has just been read.                            *)
(***************************************************************************)
EXTENDS PathAlgebra

ProperPrefixes(forbidden) == UNION {{SubSeq(w, 1, k) : k \in 1 .. Len(w) - 1} : w \in forbidden}

StartState(v) == [vertex |-> v, word |-> <<>>]

States(quiver, forbidden) ==
  {StartState(v) : v \in 1 .. quiver.vertices}
  \cup {[vertex |-> quiver.arrows[w[Len(w)]][2], word |-> w] : w \in ProperPrefixes(forbidden)}

ArrowsFrom(quiver, v) == {a \in DOMAIN quiver.arrows : quiver.arrows[a][1] = v}

\* the state after an arrow, if it completes no forbidden word
After(quiver, forbidden, state, arrow) ==
  LET extended == Append(state.word, arrow)
      tracked == {k \in DOMAIN extended :
                    SubSeq(extended, k, Len(extended)) \in forbidden \cup ProperPrefixes(forbidden)}
      suffix == SubSeq(extended, Min(tracked), Len(extended))
      target == quiver.arrows[arrow][2]
  IN  IF tracked = {} THEN {StartState(target)}
      ELSE IF suffix \in forbidden THEN {}
      ELSE {[vertex |-> target, word |-> suffix]}

\* PrefixAutomaton::data
Transitions(quiver, forbidden) ==
  UNION {UNION {{<<s, a, t>> : t \in After(quiver, forbidden, s, a)} :
                  a \in ArrowsFrom(quiver, s.vertex)} : s \in States(quiver, forbidden)}

\* what the automaton reads in n arrows: the source, the word, and the state it ends in
Readings(quiver, forbidden, n) ==
  LET read[m \in 0 .. n] ==
        IF m = 0
        THEN {[source |-> v, word |-> <<>>, state |-> StartState(v)] : v \in 1 .. quiver.vertices}
        ELSE UNION {UNION {{[source |-> r.source, word |-> Append(r.word, a), state |-> t] :
                              t \in After(quiver, forbidden, r.state, a)} :
                             a \in ArrowsFrom(quiver, r.state.vertex)} : r \in read[m - 1]}
  IN  read[n]

\* the states n arrows lead to
Reached(quiver, forbidden, n) ==
  LET layer[m \in 0 .. n] ==
        IF m = 0
        THEN {StartState(v) : v \in 1 .. quiver.vertices}
        ELSE UNION {UNION {After(quiver, forbidden, s, a) : a \in ArrowsFrom(quiver, s.vertex)} :
                      s \in layer[m - 1]}
  IN  layer[n]

\* the states on or before a cycle: those that are left when dead ends are removed
LiveStates(quiver, forbidden) ==
  LET size == Cardinality(States(quiver, forbidden))
      reachable == UNION {Reached(quiver, forbidden, n) : n \in 0 .. size - 1}
      live[n \in 0 .. size] ==
        IF n = 0 THEN reachable
        ELSE LET left == live[n - 1] IN
             {s \in left : \E a \in ArrowsFrom(quiver, s.vertex) :
                After(quiver, forbidden, s, a) \cap left # {}}
  IN  live[size]

StateLess(s, t) ==
  \/ s.word = t.word /\ s.vertex < t.vertex
  \/ LexLess(s.word, t.word)

\* cycle_witness: from the first live state by the smallest live arrow to a
\* state met before; the prefix is a shortest word that reaches that state
CycleWitness(quiver, forbidden) ==
  LET live == LiveStates(quiver, forbidden)
      first == CHOOSE s \in live : \A t \in live \ {s} : StateLess(s, t)
      Arrow(s) == Min({a \in ArrowsFrom(quiver, s.vertex) :
                         After(quiver, forbidden, s, a) \cap live # {}})
      walk[n \in 0 .. Cardinality(live)] ==
        IF n = 0 THEN first
        ELSE LET s == walk[n - 1] IN
             CHOOSE t \in live : t \in After(quiver, forbidden, s, Arrow(s))
      end == Min({n \in 1 .. Cardinality(live) : \E m \in 0 .. n - 1 : walk[m] = walk[n]})
      entry == CHOOSE m \in 0 .. end - 1 : walk[m] = walk[end]
      depth == Min({n \in 0 .. Cardinality(States(quiver, forbidden)) :
                      walk[end] \in Reached(quiver, forbidden, n)})
  IN  [prefix |-> (CHOOSE r \in Readings(quiver, forbidden, depth) : r.state = walk[end]).word,
       cycle  |-> [k \in 1 .. end - entry |-> Arrow(walk[entry + k - 1])]]

IsFiniteLanguage(quiver, forbidden) == LiveStates(quiver, forbidden) = {}

\* every normal word with its source, when there are finitely many
Language(quiver, forbidden) ==
  UNION {{[source |-> r.source, word |-> r.word] : r \in Readings(quiver, forbidden, n)} :
           n \in 0 .. Cardinality(States(quiver, forbidden))}

-----------------------------------------------------------------------------
(* What the words are meant to be.                                         *)

IsNormal(quiver, forbidden, word) ==
  IsPath(quiver, word) /\ \A w \in forbidden : Occurrences(word, w) = {}

=============================================================================
