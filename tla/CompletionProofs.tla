-------------------------- MODULE CompletionProofs --------------------------
(***************************************************************************)
(* What a completion promises for every presentation over a prime field,   *)
(* every limit and every length of the run: the leading words stay         *)
(* distinct, tails are reduced below their leading words, what the         *)
(* certificate records ends in zero, and the verifier accepts the          *)
(* certificate, which says of the normal words what is true, and rejects   *)
(* it with anything missing or wrong.                                      *)
(*                                                                         *)
(* The zeros need Buchberger's theorem for path algebras: a monic basis    *)
(* of which every overlap and every inclusion of leading words is a sum of *)
(* products with smaller tops divides every element of its ideal. That is  *)
(* Bergman's diamond lemma, in ProofLibrary with the facts about words,    *)
(* polynomials and automata. Here the first part is about the operators of *)
(* the engine, the second about its steps, the third about the checks of   *)
(* the verifier, the fourth about the certificate of a complete run.       *)
(*                                                                         *)
(* The invariant IInv says phase by phase what the basis is: it generates  *)
(* the relations before the index; every ambiguity that is not in the      *)
(* queue meets; it divides the ideal of the relations, so that what is     *)
(* reduced afterwards, being in the ideal, is zero. The invariant AInv     *)
(* adds what the verifier looks at: words are parallel paths, tails are    *)
(* reduced, each trace replays, and the queue holds the keys that have no  *)
(* trace yet. DInv adds what the certificate has been made of.             *)
(***************************************************************************)
EXTENDS Completion, ProofLibrary, SequenceTheorems, TLAPS

-----------------------------------------------------------------------------
(* Sequences.                                                              *)

\* The indices of a sequence.
LEMMA SeqIs ==
  ASSUME NEW s, IsSeq(s)
  PROVE  Len(s) \in Nat /\ DOMAIN s = 1 .. Len(s)
BY DEF IsSeq

\* A function on an initial interval is a sequence.
LEMMA FunctionIsSeq ==
  ASSUME NEW s, NEW n \in Nat, s = [k \in 1 .. n |-> s[k]]
  PROVE  IsSeq(s) /\ Len(s) = n
<1> DEFINE S == {s[k] : k \in DOMAIN s}
<1>1. s \in [1 .. n -> S]
  <2>1. DOMAIN s = 1 .. n
    OBVIOUS
  <2>2. \A k \in 1 .. n : s[k] \in S
    BY <2>1
  <2> HIDE DEF S
  <2> QED BY <2>2
<1>2. s \in Seq(S)
  <2> HIDE DEF S
  <2> QED BY <1>1, IsASeq
<1>3. Len(s) = n
  <2> HIDE DEF S
  <2> QED BY <1>1, <1>2
<1> QED BY <1>2, <1>3 DEF IsSeq

\* What a longer sequence is made of.
LEMMA AppendIs ==
  ASSUME NEW s, NEW e, IsSeq(s)
  PROVE  /\ IsSeq(Append(s, e)) /\ Len(Append(s, e)) = Len(s) + 1
         /\ DOMAIN Append(s, e) = DOMAIN s \cup {Len(s) + 1} /\ Len(s) + 1 \notin DOMAIN s
         /\ Append(s, e)[Len(s) + 1] = e
         /\ \A k \in DOMAIN s : Append(s, e)[k] = s[k]
<1> DEFINE S == {s[k] : k \in DOMAIN s} \cup {e}
           n == Len(s)
<1>1. s \in Seq(S) /\ e \in S /\ n \in Nat /\ DOMAIN s = 1 .. n
  <2>1. s \in Seq({s[k] : k \in DOMAIN s})
    BY DEF IsSeq
  <2>2. n \in Nat /\ DOMAIN s = 1 .. n
    BY SeqIs
  <2>3. s \in [1 .. n -> S]
    <3>1. s = [k \in 1 .. n |-> s[k]]
      BY <2>1, <2>2
    <3>2. \A k \in 1 .. n : s[k] \in S
      BY <2>2
    <3> HIDE DEF S
    <3> QED BY <3>1, <3>2
  <2>4. s \in Seq(S)
    <3> HIDE DEF S
    <3> QED BY <2>2, <2>3, IsASeq
  <2> QED BY <2>2, <2>4
<1> HIDE DEF S
<1> DEFINE t == Append(s, e)
<1>2. /\ t \in Seq(S) /\ Len(t) = n + 1 /\ t[n + 1] = e
      /\ \A k \in 1 .. n : t[k] = s[k]
  BY <1>1, AppendProperties
<1>3. DOMAIN t = 1 .. n + 1 /\ t = [k \in 1 .. n + 1 |-> t[k]]
  BY <1>1, <1>2, LenProperties
<1> HIDE DEF t
<1>4. IsSeq(t)
  <2>1. n + 1 \in Nat
    BY <1>1
  <2> QED BY <1>3, <2>1, FunctionIsSeq
<1>5. DOMAIN t = DOMAIN s \cup {n + 1} /\ n + 1 \notin DOMAIN s
  BY <1>1, <1>3
<1> QED BY <1>1, <1>2, <1>4, <1>5 DEF t

-----------------------------------------------------------------------------
(* A basis and its leading words.                                          *)

Polynomials(b) == {b[k].poly : k \in DOMAIN b}

LeadAt(b, k) == LeadOf(b[k].poly)

\* monic elements of the ideal, whose leading words are distinct
BasisIs(q, J, b) ==
  /\ IsSeq(b)
  /\ \A k \in DOMAIN b : /\ b[k].poly \in J /\ b[k].poly \in Polys(q) /\ b[k].poly # ZeroPoly
                         /\ Coef(b[k].poly, LeadAt(b, k)) = 1
  /\ \A j, k \in DOMAIN b : j # k => LeadAt(b, j) # LeadAt(b, k)

\* What a basis says of one of its elements.
LEMMA ElementIs ==
  ASSUME NEW q, IsModulus(q), NEW J, NEW b, BasisIs(q, J, b), NEW k \in DOMAIN b
  PROVE  /\ b[k].poly \in J /\ b[k].poly \in Polys(q) /\ b[k].poly # ZeroPoly
         /\ Coef(b[k].poly, LeadOf(b[k].poly)) = 1 /\ LeadAt(b, k) = LeadOf(b[k].poly)
         /\ LeadAt(b, k) \in Words /\ k \in Nat /\ b[k].poly \in Polynomials(b)
<1>1. /\ b[k].poly \in J /\ b[k].poly \in Polys(q) /\ b[k].poly # ZeroPoly
      /\ Coef(b[k].poly, LeadOf(b[k].poly)) = 1
  BY DEF BasisIs, LeadAt
<1>2. LeadAt(b, k) \in Words
  BY <1>1, LeadIs DEF LeadAt
<1>3. k \in Nat
  <2>1. DOMAIN b = 1 .. Len(b)
    BY SeqIs DEF BasisIs
  <2> QED BY <2>1
<1> QED BY <1>1, <1>2, <1>3 DEF LeadAt, Polynomials

\* The polynomials of a basis are monic, with distinct leading words.
LEMMA BasisIsMonic ==
  ASSUME NEW q, IsModulus(q), NEW J, NEW b, BasisIs(q, J, b)
  PROVE  IsMonic(q, Polynomials(b)) /\ Polynomials(b) \subseteq J /\ Polynomials(b) \in SUBSET Polys(q)
         /\ IsDistinct(Polynomials(b))
<1>1. \A g \in Polynomials(b) : \E k \in DOMAIN b : g = b[k].poly
  BY DEF Polynomials
<1>2. \A k \in DOMAIN b : b[k].poly \in J /\ b[k].poly \in Polys(q) /\ b[k].poly # ZeroPoly
                          /\ Coef(b[k].poly, LeadOf(b[k].poly)) = 1
  BY ElementIs
<1>3. IsMonic(q, Polynomials(b))
  BY <1>1, <1>2 DEF IsMonic
<1>4. IsDistinct(Polynomials(b))
  BY <1>1 DEF IsDistinct, BasisIs, LeadAt
<1> QED BY <1>1, <1>2, <1>3, <1>4

-----------------------------------------------------------------------------
(* A basis that grows.                                                     *)

\* A new element with a new leading word keeps the basis one, and generates what it came
\* from.
LEMMA BasisGrows ==
  ASSUME NEW q, IsModulus(q), Invertible(q), NEW J, IsSpace(q, J), NEW b, BasisIs(q, J, b),
         NEW e, e.poly \in J, e.poly # ZeroPoly, \A k \in DOMAIN b : LeadAt(b, k) # LeadOf(e.poly)
  PROVE  LET c == Append(b, MakeMonic(q, e)) IN
         /\ BasisIs(q, J, c)
         /\ DOMAIN c = DOMAIN b \cup {Len(b) + 1} /\ Len(c) = Len(b) + 1
         /\ \A k \in DOMAIN b : c[k] = b[k]
         /\ Polynomials(b) \subseteq Polynomials(c)
         /\ \A V : IsSpace(q, V) /\ MakeMonic(q, e).poly \in V => e.poly \in V
         /\ MakeMonic(q, e).poly \in Polynomials(c) /\ LeadOf(MakeMonic(q, e).poly) = LeadOf(e.poly)
         /\ MakeMonic(q, e).poly \in Polys(q) /\ LeadOf(e.poly) \in Words
<1> DEFINE m == MakeMonic(q, e)
           c == Append(b, m)
           n == Len(b) + 1
<1>1. e.poly \in Polys(q)
  BY DEF IsSpace
<1>2. /\ m.poly \in Polys(q) /\ m.poly # ZeroPoly
      /\ LeadOf(m.poly) = LeadOf(e.poly) /\ Coef(m.poly, LeadOf(m.poly)) = 1
      /\ \A V : IsSpace(q, V) => (m.poly \in V <=> e.poly \in V)
  BY <1>1, MonicIs
<1> HIDE DEF m
<1>3. m.poly \in J
  BY <1>2
<1>4. IsSeq(b)
  BY DEF BasisIs
<1>5. /\ IsSeq(c) /\ Len(c) = n /\ DOMAIN c = DOMAIN b \cup {n} /\ n \notin DOMAIN b
      /\ c[n] = m /\ \A k \in DOMAIN b : c[k] = b[k]
  BY <1>4, AppendIs
<1> HIDE DEF c, n
<1>6. \A k \in DOMAIN b : LeadAt(c, k) = LeadAt(b, k)
  BY <1>5 DEF LeadAt
<1>7. LeadAt(c, n) = LeadOf(e.poly)
  BY <1>2, <1>5 DEF LeadAt
<1>8. \A k \in DOMAIN c : /\ c[k].poly \in J /\ c[k].poly \in Polys(q) /\ c[k].poly # ZeroPoly
                          /\ Coef(c[k].poly, LeadAt(c, k)) = 1
  <2>1. ASSUME NEW k \in DOMAIN b
        PROVE  /\ c[k].poly \in J /\ c[k].poly \in Polys(q) /\ c[k].poly # ZeroPoly
               /\ Coef(c[k].poly, LeadAt(c, k)) = 1
    BY <1>5, <1>6, <2>1 DEF BasisIs
  <2>2. /\ c[n].poly \in J /\ c[n].poly \in Polys(q) /\ c[n].poly # ZeroPoly
        /\ Coef(c[n].poly, LeadAt(c, n)) = 1
    BY <1>2, <1>3, <1>5, <1>7
  <2> QED BY <1>5, <2>1, <2>2
<1>9. \A j, k \in DOMAIN c : j # k => LeadAt(c, j) # LeadAt(c, k)
  BY <1>5, <1>6, <1>7 DEF BasisIs
<1>10. BasisIs(q, J, c)
  BY <1>5, <1>8, <1>9 DEF BasisIs
<1>11. Polynomials(b) \subseteq Polynomials(c)
  BY <1>5 DEF Polynomials
<1>12. m.poly \in Polynomials(c)
  BY <1>5 DEF Polynomials
<1>13. LeadOf(e.poly) \in Words
  BY <1>1, LeadIs
<1> QED BY <1>2, <1>5, <1>10, <1>11, <1>12, <1>13 DEF c, m, n

KeysOf(b, i, j) == PairAmbiguities(i, j, LeadAt(b, i), LeadAt(b, j))

AllKeys(b) == UNION {UNION {KeysOf(b, i, j) : j \in DOMAIN b} : i \in DOMAIN b}

ContextsAt(b, key) == Contexts(key, LeadAt(b, key[1]), LeadAt(b, key[2]))

TopAt(b, key) == Put(EmptyWord, LeadAt(b, key[1]), ContextsAt(b, key).vi)

CompositionAt(q, b, key) ==
  Composition(q, b[key[1]].poly, ContextsAt(b, key).vi, ContextsAt(b, key).u, b[key[2]].poly,
              ContextsAt(b, key).vj)

\* the composition is a sum of multiples with smaller leading words
Meets(q, b, key) == CompositionAt(q, b, key) \in BelowTop(q, Polynomials(b), TopAt(b, key))

\* The keys of a basis.
LEMMA KeyIn ==
  ASSUME NEW b, NEW key
  PROVE  key \in AllKeys(b) <=> \E i, j \in DOMAIN b : key \in KeysOf(b, i, j)
BY DEF AllKeys

\* The parts of a key: the two elements, and the words around them.
LEMMA KeyAt ==
  ASSUME NEW q, IsModulus(q), NEW J, NEW b, BasisIs(q, J, b), NEW key \in AllKeys(b)
  PROVE  /\ key \in Words /\ Len(key) = 4 /\ key[1] \in DOMAIN b /\ key[2] \in DOMAIN b
         /\ key \in KeysOf(b, key[1], key[2])
         /\ ContextsAt(b, key).vi \in Words /\ ContextsAt(b, key).u \in Words
         /\ ContextsAt(b, key).vj \in Words /\ TopAt(b, key) \in Words
         /\ TopAt(b, key) = Put(ContextsAt(b, key).u, LeadAt(b, key[2]), ContextsAt(b, key).vj)
         /\ Shares(LeadAt(b, key[1]), LeadAt(b, key[2]), ContextsAt(b, key).u, ContextsAt(b, key).vi)
<1>1. PICK i \in DOMAIN b, j \in DOMAIN b : key \in KeysOf(b, i, j)
  BY KeyIn
<1>2. i \in Nat /\ j \in Nat /\ LeadAt(b, i) \in Words /\ LeadAt(b, j) \in Words
  BY ElementIs
<1>3. /\ key \in Words /\ Len(key) = 4 /\ key[1] = i /\ key[2] = j
      /\ Contexts(key, LeadAt(b, i), LeadAt(b, j)).vi \in Words
      /\ Contexts(key, LeadAt(b, i), LeadAt(b, j)).u \in Words
      /\ Contexts(key, LeadAt(b, i), LeadAt(b, j)).vj \in Words
      /\ Put(EmptyWord, LeadAt(b, i), Contexts(key, LeadAt(b, i), LeadAt(b, j)).vi)
           = Put(Contexts(key, LeadAt(b, i), LeadAt(b, j)).u, LeadAt(b, j),
                 Contexts(key, LeadAt(b, i), LeadAt(b, j)).vj)
      /\ Shares(LeadAt(b, i), LeadAt(b, j), Contexts(key, LeadAt(b, i), LeadAt(b, j)).u,
                Contexts(key, LeadAt(b, i), LeadAt(b, j)).vi)
  BY <1>1, <1>2, KeyIs DEF KeysOf
<1>4. ContextsAt(b, key) = Contexts(key, LeadAt(b, i), LeadAt(b, j))
  BY <1>3 DEF ContextsAt
<1>5. TopAt(b, key) = Put(EmptyWord, LeadAt(b, i), ContextsAt(b, key).vi)
  BY <1>3 DEF TopAt
<1>6. TopAt(b, key) \in Words
  BY <1>2, <1>3, <1>4, <1>5, PutType, CatWithEmpty
<1> QED BY <1>1, <1>3, <1>4, <1>5, <1>6

\* What is known of the composition of a key.
LEMMA CompositionAtIs ==
  ASSUME NEW q, IsModulus(q), NEW J, NEW b, BasisIs(q, J, b), NEW key \in AllKeys(b)
  PROVE  /\ CompositionAt(q, b, key) \in Polys(q)
         /\ \A w \in DOMAIN CompositionAt(q, b, key) : WordLess(w, TopAt(b, key))
         /\ \A V : IsSpace(q, V) =>
              (CompositionAt(q, b, key) \in V
               <=> SameModulo(q, V, Between(EmptyWord, b[key[1]].poly, ContextsAt(b, key).vi),
                              Between(ContextsAt(b, key).u, b[key[2]].poly, ContextsAt(b, key).vj)))
<1> DEFINE g == b[key[1]].poly
           h == b[key[2]].poly
           vi == ContextsAt(b, key).vi
           u == ContextsAt(b, key).u
           vj == ContextsAt(b, key).vj
<1>1. key[1] \in DOMAIN b /\ key[2] \in DOMAIN b /\ vi \in Words /\ u \in Words /\ vj \in Words
  BY KeyAt
<1>2. TopAt(b, key) = Put(u, LeadAt(b, key[2]), vj)
  BY KeyAt
<1>3. TopAt(b, key) = Put(EmptyWord, LeadAt(b, key[1]), vi)
  BY DEF TopAt
<1>4. g \in Polys(q) /\ g # ZeroPoly /\ Coef(g, LeadOf(g)) = 1 /\ LeadAt(b, key[1]) = LeadOf(g)
  BY <1>1, ElementIs
<1>5. h \in Polys(q) /\ h # ZeroPoly /\ Coef(h, LeadOf(h)) = 1 /\ LeadAt(b, key[2]) = LeadOf(h)
  BY <1>1, ElementIs
<1>6. CompositionAt(q, b, key) = Composition(q, g, vi, u, h, vj)
  BY DEF CompositionAt
<1> HIDE DEF g, h, vi, u, vj
<1>7. Put(EmptyWord, LeadOf(g), vi) = Put(u, LeadOf(h), vj) /\ TopAt(b, key) = Put(EmptyWord, LeadOf(g), vi)
  BY <1>2, <1>3, <1>4, <1>5
<1>8. /\ Composition(q, g, vi, u, h, vj) \in Polys(q)
      /\ \A w \in DOMAIN Composition(q, g, vi, u, h, vj) : WordLess(w, Put(EmptyWord, LeadOf(g), vi))
      /\ \A V : IsSpace(q, V) =>
           (Composition(q, g, vi, u, h, vj) \in V
            <=> SameModulo(q, V, Between(EmptyWord, g, vi), Between(u, h, vj)))
  BY <1>1, <1>4, <1>5, <1>7, CompositionBelow
<1> QED BY <1>6, <1>7, <1>8 DEF g, h, vi, u, vj

\* A composition is in the ideal.
LEMMA CompositionInIdeal ==
  ASSUME NEW q, IsModulus(q), NEW R \in SUBSET Polys(q), NEW b, BasisIs(q, Ideal(q, R), b),
         NEW key \in AllKeys(b)
  PROVE  CompositionAt(q, b, key) \in Ideal(q, R)
<1>1. IsSpace(q, Ideal(q, R))
  BY IdealIs
<1>2. /\ key[1] \in DOMAIN b /\ key[2] \in DOMAIN b
      /\ ContextsAt(b, key).vi \in Words /\ ContextsAt(b, key).u \in Words
      /\ ContextsAt(b, key).vj \in Words
  BY KeyAt
<1>3. b[key[1]].poly \in Ideal(q, R) /\ b[key[2]].poly \in Ideal(q, R)
  BY <1>2, ElementIs
<1>4. /\ Between(EmptyWord, b[key[1]].poly, ContextsAt(b, key).vi) \in Ideal(q, R)
      /\ Between(ContextsAt(b, key).u, b[key[2]].poly, ContextsAt(b, key).vj) \in Ideal(q, R)
  BY <1>2, <1>3, CatWithEmpty, IdealBetween
<1>5. SameModulo(q, Ideal(q, R), Between(EmptyWord, b[key[1]].poly, ContextsAt(b, key).vi),
                Between(ContextsAt(b, key).u, b[key[2]].poly, ContextsAt(b, key).vj))
  <2>1. -1 \in Int
    OBVIOUS
  <2> QED BY <1>1, <1>4, <2>1, SpaceSum DEF SameModulo
<1> QED BY <1>1, <1>5, CompositionAtIs

\* When every composition is a sum of smaller multiples, the basis is confluent.
LEMMA MeetsMakesConfluent ==
  ASSUME NEW q, IsModulus(q), NEW J, NEW b, BasisIs(q, J, b), \A key \in AllKeys(b) : Meets(q, b, key)
  PROVE  IsConfluent(q, Polynomials(b))
<1> DEFINE G == Polynomials(b)
<1>1. IsMonic(q, G) /\ IsDistinct(G)
  BY BasisIsMonic
<1>2. ASSUME NEW key \in AllKeys(b)
      PROVE  SameModulo(q, BelowTop(q, G, TopAt(b, key)),
                  Between(EmptyWord, b[key[1]].poly, ContextsAt(b, key).vi),
                  Between(ContextsAt(b, key).u, b[key[2]].poly, ContextsAt(b, key).vj))
  <2>1. IsSpace(q, BelowTop(q, G, TopAt(b, key)))
    BY <1>1, BelowIs
  <2>2. CompositionAt(q, b, key) \in BelowTop(q, G, TopAt(b, key))
    BY DEF Meets
  <2> HIDE DEF G
  <2> QED BY <2>1, <2>2, CompositionAtIs
<1>3. OverlapsMeet(q, G)
  <2> SUFFICES ASSUME NEW g \in G, NEW h \in G, NEW a \in Words, NEW x \in Words, NEW d \in Words,
                      LeadOf(g) = Cat(a, x), LeadOf(h) = Cat(x, d), a # EmptyWord, x # EmptyWord, d # EmptyWord
               PROVE  SameModulo(q, BelowTop(q, G, Cat(a, LeadOf(h))), Between(EmptyWord, g, d),
                        Between(a, h, EmptyWord))
    BY DEF OverlapsMeet
  <2>1. PICK i \in DOMAIN b, j \in DOMAIN b : g = b[i].poly /\ h = b[j].poly
    BY DEF Polynomials
  <2>2. i \in Nat /\ j \in Nat /\ LeadAt(b, i) = Cat(a, x) /\ LeadAt(b, j) = Cat(x, d)
    BY <2>1, ElementIs
  <2>3. PICK key \in PairAmbiguities(i, j, Cat(a, x), Cat(x, d)) :
          /\ Contexts(key, Cat(a, x), Cat(x, d)).vi = d
          /\ Contexts(key, Cat(a, x), Cat(x, d)).u = a
          /\ Contexts(key, Cat(a, x), Cat(x, d)).vj = EmptyWord
    BY <2>2, OverlapHasKey
  <2>4. key[1] = i /\ key[2] = j
    BY <2>2, <2>3, KeyIs, CatType
  <2>5. key \in AllKeys(b)
    BY <2>1, <2>2, <2>3, KeyIn DEF KeysOf
  <2>6. ContextsAt(b, key).vi = d /\ ContextsAt(b, key).u = a /\ ContextsAt(b, key).vj = EmptyWord
    BY <2>2, <2>3, <2>4 DEF ContextsAt
  <2>7. TopAt(b, key) = Cat(a, LeadOf(h))
    <3>1. TopAt(b, key) = Put(a, Cat(x, d), EmptyWord)
      BY <2>2, <2>4, <2>5, <2>6, KeyAt
    <3>2. Put(a, Cat(x, d), EmptyWord) = Cat(Cat(a, Cat(x, d)), EmptyWord) /\ Cat(a, Cat(x, d)) \in Words
      BY PutIsCat, CatType, CatWithEmpty
    <3> QED BY <2>1, <2>2, <3>1, <3>2, CatWithEmpty
  <2> QED BY <1>2, <2>1, <2>4, <2>5, <2>6, <2>7
<1>4. InclusionsMeet(q, G)
  <2> SUFFICES ASSUME NEW g \in G, NEW h \in G, NEW a \in Words, NEW d \in Words,
                      LeadOf(g) = Put(a, LeadOf(h), d), a # EmptyWord \/ d # EmptyWord
               PROVE  SameModulo(q, BelowTop(q, G, LeadOf(g)), g, Between(a, h, d))
    BY DEF InclusionsMeet
  <2>1. PICK i \in DOMAIN b, j \in DOMAIN b : g = b[i].poly /\ h = b[j].poly
    BY DEF Polynomials
  <2> DEFINE v == LeadAt(b, j)
  <2>2. i \in Nat /\ j \in Nat /\ LeadAt(b, i) = Put(a, v, d) /\ v \in Words
    BY <2>1, ElementIs
  <2>3. PICK key \in PairAmbiguities(i, j, Put(a, v, d), v) :
          /\ Contexts(key, Put(a, v, d), v).vi = EmptyWord
          /\ Contexts(key, Put(a, v, d), v).u = a
          /\ Contexts(key, Put(a, v, d), v).vj = d
    BY <2>2, InclusionHasKey, SMTT(30)
  <2>4. key[1] = i /\ key[2] = j
    BY <2>2, <2>3, KeyIs, PutType
  <2>5. key \in AllKeys(b)
    BY <2>1, <2>2, <2>3, KeyIn DEF KeysOf
  <2>6. ContextsAt(b, key).vi = EmptyWord /\ ContextsAt(b, key).u = a /\ ContextsAt(b, key).vj = d
    BY <2>2, <2>3, <2>4 DEF ContextsAt
  <2>7. TopAt(b, key) = LeadOf(g)
    <3>1. TopAt(b, key) = Put(EmptyWord, LeadAt(b, i), EmptyWord)
      BY <2>4, <2>6 DEF TopAt
    <3>2. LeadAt(b, i) \in Words /\ LeadAt(b, i) = LeadOf(g)
      BY <2>1, ElementIs
    <3> QED BY <3>1, <3>2, PutEmpty
  <2>8. Between(EmptyWord, g, EmptyWord) = g
    BY <2>1, ElementIs, BetweenNothing
  <2> QED BY <1>2, <2>1, <2>4, <2>5, <2>6, <2>7, <2>8
<1> QED BY <1>1, <1>3, <1>4 DEF IsConfluent

\* A basis that grows keeps its keys and what is known of them.
LEMMA KeysGrow ==
  ASSUME NEW q, IsModulus(q), NEW J, NEW b, NEW c, BasisIs(q, J, b), BasisIs(q, J, c),
         NEW n, DOMAIN c = DOMAIN b \cup {n}, \A k \in DOMAIN b : c[k] = b[k]
  PROVE  /\ \A key \in AllKeys(b) :
              /\ key \in AllKeys(c) /\ TopAt(c, key) = TopAt(b, key)
              /\ CompositionAt(q, c, key) = CompositionAt(q, b, key)
              /\ Meets(q, b, key) => Meets(q, c, key)
         /\ \A key \in AllKeys(c) :
              key \in AllKeys(b) \/ \E k \in DOMAIN c : key \in KeysOf(c, n, k) \/ key \in KeysOf(c, k, n)
<1>1. \A k \in DOMAIN b : LeadAt(c, k) = LeadAt(b, k) /\ k \in DOMAIN c
  BY DEF LeadAt
<1>2. \A i, j \in DOMAIN b : KeysOf(c, i, j) = KeysOf(b, i, j)
  BY <1>1 DEF KeysOf
<1>3. ASSUME NEW key \in AllKeys(b)
      PROVE  /\ key \in AllKeys(c) /\ TopAt(c, key) = TopAt(b, key)
             /\ CompositionAt(q, c, key) = CompositionAt(q, b, key)
             /\ Meets(q, b, key) => Meets(q, c, key)
  <2>1. key[1] \in DOMAIN b /\ key[2] \in DOMAIN b /\ key \in KeysOf(b, key[1], key[2])
        /\ TopAt(b, key) \in Words
    BY KeyAt
  <2>2. key \in AllKeys(c)
    BY <1>1, <1>2, <2>1, KeyIn
  <2>3. ContextsAt(c, key) = ContextsAt(b, key)
    BY <1>1, <2>1 DEF ContextsAt
  <2>4. TopAt(c, key) = TopAt(b, key)
    BY <1>1, <2>1, <2>3 DEF TopAt
  <2>5. CompositionAt(q, c, key) = CompositionAt(q, b, key)
    BY <2>1, <2>3 DEF CompositionAt
  <2>6. Polynomials(b) \subseteq Polynomials(c)
    BY DEF Polynomials
  <2>7. BelowTop(q, Polynomials(b), TopAt(b, key)) \subseteq BelowTop(q, Polynomials(c), TopAt(b, key))
    BY <2>1, <2>6, BasisIsMonic, BelowTopGrows
  <2> QED BY <2>2, <2>4, <2>5, <2>7 DEF Meets
<1>4. ASSUME NEW key \in AllKeys(c)
      PROVE  key \in AllKeys(b) \/ \E k \in DOMAIN c : key \in KeysOf(c, n, k) \/ key \in KeysOf(c, k, n)
  <2>1. PICK i \in DOMAIN c, j \in DOMAIN c : key \in KeysOf(c, i, j)
    BY KeyIn
  <2>2. CASE i \in DOMAIN b /\ j \in DOMAIN b
    BY <1>2, <2>1, <2>2, KeyIn
  <2>3. CASE i = n
    BY <2>1, <2>3
  <2>4. CASE j = n
    BY <2>1, <2>4
  <2> QED BY <2>2, <2>3, <2>4
<1> QED BY <1>3, <1>4

-----------------------------------------------------------------------------
(* Interreduction.                                                         *)

IsRedundantIn(b, k) == \E j \in DOMAIN b \ {k} : Occurrences(LeadAt(b, k), LeadAt(b, j)) # {}

KeptIn(b) == {k \in DOMAIN b : ~IsRedundantIn(b, k)}

IsDividedAt(b, w) == \E k \in DOMAIN b : Occurrences(w, LeadAt(b, k)) # {}

LeadsAreApart(b) == \A k \in DOMAIN b : ~IsRedundantIn(b, k)

\* The two ways to say that a leading word is a factor.
LEMMA DividedAt ==
  ASSUME NEW q, IsModulus(q), NEW J, NEW b, BasisIs(q, J, b), NEW w \in Words
  PROVE  IsDividedAt(b, w) <=> IsDivided(Polynomials(b), w)
<1>1. \A k \in DOMAIN b : LeadAt(b, k) \in Words /\ LeadAt(b, k) = LeadOf(b[k].poly)
  BY ElementIs
<1>2. \A k \in DOMAIN b :
        Occurrences(w, LeadAt(b, k)) # {} <=> \E l, r \in Words : w = Put(l, LeadAt(b, k), r)
  BY <1>1, FactorIs
<1> QED BY <1>1, <1>2 DEF IsDivided, IsDividedAt, Polynomials

\* A factor of a factor is a factor.
LEMMA FactorOfFactor ==
  ASSUME NEW w \in Words, NEW u \in Words, NEW v \in Words, Occurrences(w, u) # {}, Occurrences(u, v) # {}
  PROVE  Occurrences(w, v) # {}
<1>1. PICK l \in Words, r \in Words : w = Put(l, u, r)
  BY FactorIs
<1>2. PICK m \in Words, s \in Words : u = Put(m, v, s)
  BY FactorIs
<1>3. w = Put(Cat(l, m), v, Cat(s, r))
  BY <1>1, <1>2, PutNest
<1> QED BY <1>3, CatType, FactorIs

\* A proper factor is a smaller word.
LEMMA FactorIsLess ==
  ASSUME NEW w \in Words, NEW u \in Words, Occurrences(w, u) # {}, w # u
  PROVE  WordLess(u, w)
<1>1. PICK l \in Words, r \in Words : w = Put(l, u, r)
  BY FactorIs
<1>2. Cat(l, u) \in Words /\ w = Cat(Cat(l, u), r)
  BY <1>1, CatType, PutIsCat
<1>3. Len(w) = Len(l) + Len(u) + Len(r) /\ Len(l) \in Nat /\ Len(u) \in Nat /\ Len(r) \in Nat
  BY <1>2, CatLen DEF Cat
<1>4. CASE Len(l) = 0 /\ Len(r) = 0
  <2>1. l = EmptyWord /\ r = EmptyWord
    BY <1>4 DEF EmptyWord, Words
  <2> QED BY <1>1, <2>1, PutEmpty
<1>5. CASE Len(l) # 0 \/ Len(r) # 0
  BY <1>3, <1>5 DEF WordLess
<1> QED BY <1>4, <1>5

\* Every leading word has a leading word that is kept as a factor.
LEMMA KeptDivides ==
  ASSUME NEW q, IsModulus(q), NEW J, NEW b, BasisIs(q, J, b), NEW k \in DOMAIN b
  PROVE  \E j \in KeptIn(b) : Occurrences(LeadAt(b, k), LeadAt(b, j)) # {}
<1> DEFINE P == {w \in Words : \A i \in DOMAIN b : LeadAt(b, i) = w =>
                    \E j \in KeptIn(b) : Occurrences(w, LeadAt(b, j)) # {}}
<1>1. \A i \in DOMAIN b : LeadAt(b, i) \in Words
  BY ElementIs
<1>2. ASSUME NEW w \in Words, \A u \in Words : WordLess(u, w) => u \in P PROVE w \in P
  <2> SUFFICES ASSUME NEW i \in DOMAIN b, LeadAt(b, i) = w
               PROVE  \E j \in KeptIn(b) : Occurrences(w, LeadAt(b, j)) # {}
    OBVIOUS
  <2>1. CASE i \in KeptIn(b)
    <3>1. w = Put(EmptyWord, w, EmptyWord)
      BY PutEmpty
    <3>2. Occurrences(w, w) # {}
      BY <3>1, FactorIs, CatWithEmpty
    <3> QED BY <2>1, <3>2
  <2>2. CASE i \notin KeptIn(b)
    <3>1. PICK m \in DOMAIN b \ {i} : Occurrences(w, LeadAt(b, m)) # {}
      BY <2>2 DEF KeptIn, IsRedundantIn
    <3>2. LeadAt(b, m) # w
      BY <3>1 DEF BasisIs
    <3>3. WordLess(LeadAt(b, m), w)
      BY <1>1, <3>1, <3>2, FactorIsLess
    <3>4. PICK j \in KeptIn(b) : Occurrences(LeadAt(b, m), LeadAt(b, j)) # {}
      BY <1>1, <1>2, <3>1, <3>3
    <3>5. Occurrences(w, LeadAt(b, j)) # {}
      BY <1>1, <3>1, <3>4, FactorOfFactor DEF KeptIn
    <3> QED BY <3>5
  <2> QED BY <2>1, <2>2
<1>3. Words \subseteq P
  <2> HIDE DEF P
  <2> QED BY <1>2, WordInduction
<1> QED BY <1>1, <1>3

\* The elements that are kept, in any order, divide what the basis divides, and
\* no leading word of theirs is in another.
LEMMA InterreducedIs ==
  ASSUME NEW q, IsModulus(q), NEW J, NEW b, BasisIs(q, J, b), NEW order, NEW n \in Nat,
         Lists(order, n, KeptIn(b)),
         NEW c, c = [m \in DOMAIN order |-> b[order[m]]]
  PROVE  /\ BasisIs(q, J, c) /\ LeadsAreApart(c)
         /\ \A w \in Words : IsDivided(Polynomials(b), w) => IsDivided(Polynomials(c), w)
<1>0. /\ DOMAIN order = 1 .. n
      /\ \A m \in DOMAIN order : order[m] \in KeptIn(b)
      /\ \A m, s \in DOMAIN order : m # s => order[m] # order[s]
      /\ \A k \in KeptIn(b) : \E m \in DOMAIN order : order[m] = k
  BY DEF Lists
<1>1. \A m \in DOMAIN order : /\ order[m] \in DOMAIN b /\ c[m] = b[order[m]]
                              /\ LeadAt(c, m) = LeadAt(b, order[m])
  BY <1>0 DEF KeptIn, LeadAt
<1>2. DOMAIN c = DOMAIN order
  OBVIOUS
<1>3. IsSeq(c)
  BY <1>0, <1>2, FunctionIsSeq
<1>4. BasisIs(q, J, c)
  <2>1. \A k \in DOMAIN c : /\ c[k].poly \in J /\ c[k].poly \in Polys(q) /\ c[k].poly # ZeroPoly
                            /\ Coef(c[k].poly, LeadAt(c, k)) = 1
    BY <1>0, <1>1, <1>2 DEF BasisIs
  <2>2. \A j, k \in DOMAIN c : j # k => LeadAt(c, j) # LeadAt(c, k)
    BY <1>0, <1>1, <1>2 DEF BasisIs
  <2> QED BY <1>3, <2>1, <2>2 DEF BasisIs
<1>5. LeadsAreApart(c)
  <2> SUFFICES ASSUME NEW k \in DOMAIN c, NEW j \in DOMAIN c \ {k}
               PROVE  Occurrences(LeadAt(c, k), LeadAt(c, j)) = {}
    BY DEF LeadsAreApart, IsRedundantIn
  <2>1. order[k] \in KeptIn(b) /\ order[j] \in DOMAIN b \ {order[k]}
    BY <1>0, <1>1, <1>2
  <2>2. Occurrences(LeadAt(b, order[k]), LeadAt(b, order[j])) = {}
    BY <2>1 DEF KeptIn, IsRedundantIn
  <2> QED BY <1>1, <1>2, <2>2
<1>6. ASSUME NEW w \in Words, IsDivided(Polynomials(b), w) PROVE IsDivided(Polynomials(c), w)
  <2>1. PICK k \in DOMAIN b : Occurrences(w, LeadAt(b, k)) # {}
    BY <1>6, DividedAt DEF IsDividedAt
  <2>2. PICK j \in KeptIn(b) : Occurrences(LeadAt(b, k), LeadAt(b, j)) # {}
    BY KeptDivides
  <2>3. j \in DOMAIN b /\ LeadAt(b, k) \in Words /\ LeadAt(b, j) \in Words
    BY ElementIs DEF KeptIn
  <2>4. Occurrences(w, LeadAt(b, j)) # {}
    BY <2>1, <2>2, <2>3, FactorOfFactor
  <2>5. PICK m \in DOMAIN c : LeadAt(c, m) = LeadAt(b, j)
    BY <1>0, <1>1, <1>2
  <2>6. IsDividedAt(c, w)
    BY <2>4, <2>5 DEF IsDividedAt
  <2> QED BY <1>4, <2>6, DividedAt
<1> QED BY <1>4, <1>5, <1>6

-----------------------------------------------------------------------------
(* One step of a reduction.                                                *)

\* the polynomial f becomes h by a multiple of one of the elements U of a basis
ReducesTo(q, b, U, f, h) ==
  \E k \in U : \E l, r \in Words : \E c \in Int :
    /\ Put(l, LeadAt(b, k), r) \in DOMAIN f
    /\ h = AddScaled(q, f, c, Between(l, b[k].poly, r))

AllBelow(f, w) == \A u \in DOMAIN f : WordLess(u, w)

\* Adding an element of a space gives the same modulo it.
LEMMA SameAfter ==
  ASSUME NEW q, IsModulus(q), NEW V, IsSpace(q, V), NEW f \in Polys(q), NEW b \in V, NEW c \in Int
  PROVE  SameModulo(q, V, f, AddScaled(q, f, c, b))
<1>1. b \in Polys(q) /\ AddScaled(q, f, c, b) \in Polys(q)
  BY PolySumType DEF IsSpace
<1>2. SameModulo(q, V, AddScaled(q, f, c, b), f)
  BY SameInSpace
<1> QED BY <1>1, <1>2, SameIsEquivalence

\* A reduction stays in the ideal, and changes the polynomial by what is below any word
\* above it.
LEMMA ReducesToIs ==
  ASSUME NEW q, IsModulus(q), NEW R \in SUBSET Polys(q), NEW b, BasisIs(q, Ideal(q, R), b),
         NEW f \in Ideal(q, R), NEW U \in SUBSET DOMAIN b, NEW h, ReducesTo(q, b, U, f, h)
  PROVE  /\ h \in Ideal(q, R) /\ f \in Polys(q) /\ h \in Polys(q)
         /\ SameModulo(q, Ideal(q, Polynomials(b)), f, h)
         /\ \A w \in Words : AllBelow(f, w) => AllBelow(h, w)
              /\ SameModulo(q, BelowTop(q, Polynomials(b), w), f, h)
<1>1. PICK k \in U, l \in Words, r \in Words, c \in Int :
        /\ Put(l, LeadAt(b, k), r) \in DOMAIN f
        /\ h = AddScaled(q, f, c, Between(l, b[k].poly, r))
  BY DEF ReducesTo
<1> DEFINE g == b[k].poly
           m == Between(l, g, r)
           t == Put(l, LeadOf(g), r)
           G == Polynomials(b)
           J == Ideal(q, R)
<1>2. /\ g \in J /\ g \in Polys(q) /\ g # ZeroPoly /\ LeadAt(b, k) = LeadOf(g)
      /\ LeadOf(g) \in Words /\ g \in G
  BY ElementIs
<1>3. IsSpace(q, J)
  BY IdealIs
<1>4. m \in J /\ m \in Polys(q) /\ f \in Polys(q)
  BY <1>2, <1>3, IdealBetween, BetweenType DEF IsSpace
<1>5. h = AddScaled(q, f, c, m) /\ t \in DOMAIN f /\ t \in Words
  BY <1>1, <1>2, PutType
<1>6. h \in J /\ h \in Polys(q)
  <2> HIDE DEF m
  <2> QED BY <1>3, <1>4, <1>5, SpaceSum, PolySumType
<1>7. IsMonic(q, G) /\ G \in SUBSET Polys(q)
  BY BasisIsMonic
<1>8. SameModulo(q, Ideal(q, G), f, h)
  <2>1. IsSpace(q, Ideal(q, G)) /\ m \in Ideal(q, G)
    BY <1>2, <1>7, IdealIs
  <2> HIDE DEF m, G
  <2> QED BY <1>4, <1>5, <2>1, SameAfter
<1>9. \A w \in DOMAIN m : w # t => WordLess(w, t)
  BY <1>2, LeadOfBetween
<1>10. DOMAIN h \subseteq DOMAIN f \cup DOMAIN m
  <2> HIDE DEF m
  <2> QED BY <1>4, <1>5, SumDomain
<1>11. \A u \in DOMAIN m : u \in Words
  <2> HIDE DEF m
  <2> QED BY <1>4, CoefIs
<1>12. ASSUME NEW w \in Words, AllBelow(f, w)
       PROVE  AllBelow(h, w) /\ SameModulo(q, BelowTop(q, G, w), f, h)
  <2>1. WordLess(t, w)
    BY <1>5, <1>12 DEF AllBelow
  <2>2. \A u \in DOMAIN m : WordLess(u, w)
    <3> HIDE DEF m, t
    <3> QED BY <1>5, <1>9, <1>11, <2>1, WordOrder
  <2>3. AllBelow(h, w)
    <3> HIDE DEF m, t
    <3> QED BY <1>10, <1>12, <2>2 DEF AllBelow
  <2>4. IsSpace(q, BelowTop(q, G, w)) /\ m \in BelowTop(q, G, w)
    BY <1>2, <1>7, <2>1, BelowIs
  <2> HIDE DEF m, G
  <2> QED BY <1>4, <1>5, <2>3, <2>4, SameAfter
<1> QED BY <1>4, <1>6, <1>8, <1>12

\* A reduction that cannot reach the leading word keeps it and its coefficient.
LEMMA ReducesBelowLead ==
  ASSUME NEW q, IsModulus(q), NEW R \in SUBSET Polys(q), NEW b, BasisIs(q, Ideal(q, R), b),
         NEW f \in Ideal(q, R), NEW U \in SUBSET DOMAIN b, NEW h, ReducesTo(q, b, U, f, h),
         f # ZeroPoly, \A k \in U : Occurrences(LeadOf(f), LeadAt(b, k)) = {}
  PROVE  h # ZeroPoly /\ LeadOf(h) = LeadOf(f) /\ Coef(h, LeadOf(f)) = Coef(f, LeadOf(f))
<1>1. PICK k \in U, l \in Words, r \in Words, c \in Int :
        /\ Put(l, LeadAt(b, k), r) \in DOMAIN f
        /\ h = AddScaled(q, f, c, Between(l, b[k].poly, r))
  BY DEF ReducesTo
<1> DEFINE g == b[k].poly
           m == Between(l, g, r)
           t == Put(l, LeadOf(g), r)
           J == Ideal(q, R)
<1>2. /\ g \in J /\ g \in Polys(q) /\ g # ZeroPoly /\ LeadAt(b, k) = LeadOf(g)
      /\ LeadOf(g) \in Words
  BY ElementIs
<1>3. IsSpace(q, J)
  BY IdealIs
<1>4. m \in J /\ m \in Polys(q) /\ f \in Polys(q)
  BY <1>2, <1>3, IdealBetween, BetweenType DEF IsSpace
<1>5. h = AddScaled(q, f, c, m) /\ t \in DOMAIN f /\ t \in Words
  BY <1>1, <1>2, PutType
<1>6. h \in J /\ h \in Polys(q)
  <2> HIDE DEF m
  <2> QED BY <1>3, <1>4, <1>5, SpaceSum, PolySumType
<1>9. \A w \in DOMAIN m : w # t => WordLess(w, t)
  BY <1>2, LeadOfBetween
<1>10. DOMAIN h \subseteq DOMAIN f \cup DOMAIN m
  <2> HIDE DEF m
  <2> QED BY <1>4, <1>5, SumDomain
<1>11. \A u \in DOMAIN m : u \in Words
  <2> HIDE DEF m
  <2> QED BY <1>4, CoefIs
<1>13. h # ZeroPoly /\ LeadOf(h) = LeadOf(f) /\ Coef(h, LeadOf(f)) = Coef(f, LeadOf(f))
  <2> DEFINE w == LeadOf(f)
  <2>1. w \in Words /\ w \in DOMAIN f /\ \A u \in DOMAIN f : u # w => WordLess(u, w)
    BY <1>4, LeadIs
  <2>2. t # w
    <3>1. Occurrences(w, LeadAt(b, k)) = {}
      OBVIOUS
    <3> QED BY <1>2, <2>1, <3>1, FactorIs
  <2>3. WordLess(t, w)
    BY <1>5, <2>1, <2>2
  <2>4. \A u \in DOMAIN m : WordLess(u, w)
    <3> HIDE DEF m, t
    <3> QED BY <1>5, <1>9, <1>11, <2>1, <2>3, WordOrder
  <2>5. w \notin DOMAIN m
    <3> HIDE DEF m
    <3> QED BY <2>1, <2>4, WordOrder
  <2>6. Coef(m, w) = 0
    BY <2>5 DEF Coef
  <2>7. Coef(h, w) = Coef(f, w) /\ Coef(f, w) # 0
    <3> HIDE DEF m
    <3>1. Coef(h, w) = (Coef(f, w) + c * Coef(m, w)) % q
      BY <1>4, <1>5, <2>1, SumOfPolys
    <3>2. Coef(f, w) \in 0 .. q - 1 /\ Coef(f, w) # 0 /\ Coef(f, w) \in Int
      BY <1>4, <2>1, CoefIs
    <3>3. Coef(f, w) + c * Coef(m, w) = Coef(f, w)
      BY <2>6, <3>2
    <3>4. Coef(f, w) % q = Coef(f, w)
      BY <3>2, Remainder
    <3> QED BY <3>1, <3>2, <3>3, <3>4
  <2>8. w \in DOMAIN h
    BY <1>6, <2>7, CoefIs
  <2>9. \A u \in DOMAIN h : u # w => WordLess(u, w)
    <3> HIDE DEF m
    <3> QED BY <1>10, <2>1, <2>4
  <2>10. LeadOf(h) = w
    BY <1>6, <2>8, <2>9, LeadIsUnique
  <2>11. h # ZeroPoly
    BY <2>8, ZeroIs
  <2> QED BY <2>7, <2>10, <2>11
<1> QED BY <1>13

\* The words that reduce_full can reduce.
LEMMA ReducibleIs ==
  ASSUME IsModulus(p), NEW J, BasisIs(p, J, basis), work.poly \in Polys(p)
  PROVE  /\ Reducible \in SUBSET DOMAIN work.poly /\ Reducible \in SUBSET Words /\ IsFiniteSet(Reducible)
         /\ \A w \in DOMAIN work.poly :
              w \in Reducible <=> \E k \in Usable : Occurrences(w, LeadAt(basis, k)) # {}
         /\ Usable \in SUBSET DOMAIN basis
<1>1. DOMAIN work.poly \in SUBSET Words /\ IsFiniteSet(DOMAIN work.poly)
  BY PolyIs
<1>2. Reducible \in SUBSET DOMAIN work.poly
  BY DEF Reducible
<1>3. IsFiniteSet(Reducible)
  BY <1>1, <1>2, FS_Subset
<1>4. \A w : Reducers(w) # {} <=> \E k \in Usable : Occurrences(w, LeadAt(basis, k)) # {}
  BY DEF Reducers, LeadAt, LeadOf, LeadWord
<1> QED BY <1>1, <1>2, <1>3, <1>4 DEF Reducible, Usable

\* What reduce_full finds: the element, and the words around its leading word.
LEMMA TargetIs ==
  ASSUME IsModulus(p), NEW J, BasisIs(p, J, basis), work.poly \in Polys(p), Reducible # {}
  PROVE  /\ Target.word \in Reducible /\ Target.word = Largest(Reducible)
         /\ Target.basis_index \in Usable /\ Target.basis_index \in DOMAIN basis
         /\ Target.left \in Words /\ Target.right \in Words
         /\ Target.word = Put(Target.left, LeadAt(basis, Target.basis_index), Target.right)
         /\ Target.element = basis[Target.basis_index]
         /\ Target.factor = p - work.poly[Target.word] /\ Target.factor \in Int
<1> DEFINE word == Largest(Reducible)
           k == Min(Reducers(word))
           lead == LeadWord(basis[k])
           offset == Min(Occurrences(word, lead))
<1>1. Target = [word |-> word, basis_index |-> k, element |-> basis[k], factor |-> p - work.poly[word],
                left |-> SubSeq(word, 1, offset),
                right |-> SubSeq(word, offset + Len(lead) + 1, Len(word))]
  BY DEF Target
<1>2. word \in Reducible /\ word \in Words /\ word \in DOMAIN work.poly
  BY ReducibleIs, LargestIs
<1>3. Reducers(word) # {} /\ Reducers(word) \in SUBSET Usable /\ Usable \in SUBSET DOMAIN basis
  BY <1>2 DEF Reducible, Reducers, Usable
<1>4. DOMAIN basis \in SUBSET Nat
  BY ElementIs
<1>5. k \in Reducers(word)
  BY <1>3, <1>4, MinIs
<1>6. k \in Usable /\ k \in DOMAIN basis
  BY <1>3, <1>5
<1>7. lead = LeadAt(basis, k)
  BY DEF LeadWord, LeadAt, LeadOf
<1>8. lead \in Words
  BY <1>6, <1>7, ElementIs
<1>9. Occurrences(word, lead) # {}
  BY <1>5 DEF Reducers
<1>10. offset \in Occurrences(word, lead)
  <2>1. Occurrences(word, lead) \in SUBSET Nat
    BY <1>2, <1>8, FactorIs
  <2> QED BY <1>9, <2>1, MinIs
<1>11. /\ SubSeq(word, 1, offset) \in Words /\ SubSeq(word, offset + Len(lead) + 1, Len(word)) \in Words
       /\ word = Put(SubSeq(word, 1, offset), lead, SubSeq(word, offset + Len(lead) + 1, Len(word)))
  BY <1>2, <1>8, <1>10, FactorIs
<1>12. p - work.poly[word] \in Int
  <2>1. work.poly[word] \in Int /\ p \in Int
    BY <1>2, CoefIs DEF IsModulus
  <2> QED BY <2>1
<1> HIDE DEF word, k, lead, offset
<1> QED BY <1>1, <1>2, <1>6, <1>7, <1>11, <1>12 DEF word

IsWork(w) ==
  \E f, o, t, s, k : w = [idle |-> FALSE, poly |-> f, origin |-> o, start |-> t, steps |-> s, key |-> k]

\* The fields of a record of work.
LEMMA WorkHas ==
  ASSUME NEW w, IsWork(w)
  PROVE  w.idle = FALSE /\ "poly" \in DOMAIN w /\ "steps" \in DOMAIN w /\ "origin" \in DOMAIN w
BY DEF IsWork

Changed(w, f, o, s) == [w EXCEPT !.poly = f, !.origin = o, !.steps = s]

\* A record of work with some fields changed.
LEMMA WorkChanges ==
  ASSUME NEW w, IsWork(w), NEW f, NEW o, NEW s, NEW v, v = Changed(w, f, o, s)
  PROVE  IsWork(v) /\ v.poly = f /\ v.steps = s /\ v.start = w.start /\ v.key = w.key
<1>1. PICK a, b, c, d, e : w = [idle |-> FALSE, poly |-> a, origin |-> b, start |-> c, steps |-> d, key |-> e]
  BY DEF IsWork
<1>2. v = [idle |-> FALSE, poly |-> f, origin |-> o, start |-> c, steps |-> s, key |-> e]
  BY <1>1 DEF Changed
<1>3. v.poly = f /\ v.steps = s /\ v.start = c /\ v.key = e /\ w.start = c /\ w.key = e
  BY <1>1, <1>2
<1>4. IsWork(v)
  BY ONLY <1>2 DEF IsWork
<1> QED BY <1>3, <1>4

\* The action Reduce is a reduction by a usable element.
LEMMA ReduceIs ==
  ASSUME IsModulus(p), NEW J, BasisIs(p, J, basis), work.poly \in Polys(p), Reduce, IsWork(work)
  PROVE  /\ ReducesTo(p, basis, Usable, work.poly, work'.poly)
         /\ IsWork(work') /\ work'.start = work.start /\ work'.key = work.key
         /\ work'.steps = IF KeepsTrace THEN Append(work.steps, TraceStep(Target)) ELSE work.steps
<1>1. Reducible # {}
  BY DEF Reduce
<1>2. PICK f, o, s :
        /\ f = AddPoly(p, work.poly, Target.factor, Target.left, Target.element.poly, Target.right)
        /\ s = IF KeepsTrace THEN Append(work.steps, TraceStep(Target)) ELSE work.steps
        /\ work' = Changed(work, f, o, s)
  BY DEF Reduce, Changed
<1>3. IsWork(work') /\ work'.poly = f /\ work'.steps = s /\ work'.start = work.start /\ work'.key = work.key
  BY <1>2, WorkChanges
<1>4. f = AddScaled(p, work.poly, Target.factor, Between(Target.left, Target.element.poly, Target.right))
  BY <1>2, AddPolyIs
<1>5. /\ Target.word \in DOMAIN work.poly /\ Target.basis_index \in Usable
      /\ Target.left \in Words /\ Target.right \in Words
      /\ Target.word = Put(Target.left, LeadAt(basis, Target.basis_index), Target.right)
      /\ Target.element = basis[Target.basis_index] /\ Target.factor \in Int
  BY <1>1, TargetIs, ReducibleIs
<1>6. ReducesTo(p, basis, Usable, work.poly, work'.poly)
  BY <1>3, <1>4, <1>5 DEF ReducesTo
<1> QED BY <1>2, <1>3, <1>6

-----------------------------------------------------------------------------
(* The queue of the ambiguities.                                           *)

\* The quotient and the remainder of a number with known digits.
LEMMA Quotient ==
  ASSUME NEW n \in Nat, n > 0, NEW d \in Nat, NEW r \in 0 .. n - 1
  PROVE  (d * n + r) \div n = d /\ (d * n + r) % n = r
<1>1. d * n \in Nat
  OBVIOUS
<1>2. PICK m \in Nat : m = d * n
  BY <1>1
<1> QED BY <1>2

\* The digits of a number below a square.
LEMMA QuotientIs ==
  ASSUME NEW n \in Nat, n > 0, NEW a \in Nat, a < n * n
  PROVE  a \div n \in 0 .. n - 1 /\ a % n \in 0 .. n - 1
<1>1. a % n \in 0 .. n - 1 /\ a \div n \in Nat /\ a = n * (a \div n) + (a % n)
  OBVIOUS
<1>2. PICK d \in Nat : d = a \div n
  BY <1>1
<1>3. d < n
  <2> SUFFICES ASSUME d >= n PROVE FALSE
    BY <1>2
  <2>1. n * d >= n * n
    OBVIOUS
  <2>2. n * d \in Nat /\ n * n \in Nat /\ (a % n) \in Nat /\ a = n * d + (a % n)
    BY <1>1, <1>2
  <2> QED BY <2>1, <2>2
<1> QED BY <1>1, <1>2, <1>3

\* The pairs of a full round are all pairs of elements.
LEMMA AllPairsAre ==
  ASSUME NEW n \in Nat
  PROVE  /\ n * n \in Nat /\ DOMAIN AllPairs(n) = 1 .. n * n
         /\ \A k \in 1 .. n * n : AllPairs(n)[k][1] \in 1 .. n /\ AllPairs(n)[k][2] \in 1 .. n
         /\ \A i, j \in 1 .. n : \E k \in 1 .. n * n : AllPairs(n)[k][1] = i /\ AllPairs(n)[k][2] = j
<1>1. n * n \in Nat
  OBVIOUS
<1>2. \A k \in 1 .. n * n : AllPairs(n)[k][1] = ((k - 1) \div n) + 1 /\ AllPairs(n)[k][2] = ((k - 1) % n) + 1
  BY DEF AllPairs
<1>3. ASSUME NEW k \in 1 .. n * n PROVE AllPairs(n)[k][1] \in 1 .. n /\ AllPairs(n)[k][2] \in 1 .. n
  <2>1. n > 0 /\ k - 1 \in Nat /\ k - 1 < n * n
    <3>1. n = 0 => n * n = 0
      OBVIOUS
    <3> QED BY <1>1, <3>1
  <2>2. (k - 1) \div n \in 0 .. n - 1 /\ (k - 1) % n \in 0 .. n - 1
    BY <2>1, QuotientIs
  <2>3. PICK d \in 0 .. n - 1, r \in 0 .. n - 1 : d = (k - 1) \div n /\ r = (k - 1) % n
    BY <2>2
  <2>4. AllPairs(n)[k][1] = d + 1 /\ AllPairs(n)[k][2] = r + 1
    BY <1>2, <2>3
  <2> QED BY <2>4
<1>4. ASSUME NEW i \in 1 .. n, NEW j \in 1 .. n
      PROVE  \E k \in 1 .. n * n : AllPairs(n)[k][1] = i /\ AllPairs(n)[k][2] = j
  <2>1. PICK d \in Nat, r \in 0 .. n - 1 : i = d + 1 /\ j = r + 1
    <3>1. i - 1 \in Nat /\ j - 1 \in 0 .. n - 1 /\ i = (i - 1) + 1 /\ j = (j - 1) + 1
      OBVIOUS
    <3> QED BY <3>1
  <2>2. n > 0 /\ d <= n - 1
    BY <2>1
  <2>3. d * n \in Nat /\ d * n <= (n - 1) * n /\ (n - 1) * n = n * n - n
    BY <2>2
  <2>4. PICK m \in Nat : m = d * n
    BY <2>3
  <2>5. m + r + 1 \in 1 .. n * n /\ (m + r + 1) - 1 = m + r
    BY <1>1, <2>2, <2>3, <2>4
  <2>6. (m + r) \div n = d /\ (m + r) % n = r
    BY <2>2, <2>4, Quotient
  <2>7. AllPairs(n)[m + r + 1][1] = d + 1 /\ AllPairs(n)[m + r + 1][2] = r + 1
    BY <1>2, <2>5, <2>6
  <2> QED BY <2>1, <2>5, <2>7
<1>5. DOMAIN AllPairs(n) = 1 .. n * n
  BY DEF AllPairs
<1> QED BY <1>1, <1>3, <1>4, <1>5

\* The pairs of a new element are all pairs that have it.
LEMMA NewPairsAre ==
  ASSUME NEW n \in Nat
  PROVE  /\ Len(NewPairs(n)) = 2 * n /\ DOMAIN NewPairs(n) = 1 .. 2 * n
         /\ \A k \in 1 .. 2 * n : /\ NewPairs(n)[k][1] \in 1 .. n /\ NewPairs(n)[k][2] \in 1 .. n
                                  /\ NewPairs(n)[k][1] = n \/ NewPairs(n)[k][2] = n
         /\ \A j \in 1 .. n :
              /\ \E k \in 1 .. 2 * n : NewPairs(n)[k][1] = n /\ NewPairs(n)[k][2] = j
              /\ \E k \in 1 .. 2 * n : NewPairs(n)[k][1] = j /\ NewPairs(n)[k][2] = n
<1>1. 2 * n \in Nat /\ NewPairs(n) = [k \in 1 .. 2 * n |-> NewPairs(n)[k]] /\ DOMAIN NewPairs(n) = 1 .. 2 * n
  BY DEF NewPairs
<1>2. Len(NewPairs(n)) = 2 * n
  BY <1>1, FunctionIsSeq
<1>3. \A k \in 1 .. 2 * n :
        /\ k % 2 = 1 => NewPairs(n)[k][1] = n /\ NewPairs(n)[k][2] = (k + 1) \div 2
        /\ k % 2 # 1 => NewPairs(n)[k][1] = k \div 2 /\ NewPairs(n)[k][2] = n
  BY DEF NewPairs
<1>4. ASSUME NEW k \in 1 .. 2 * n
      PROVE  /\ NewPairs(n)[k][1] \in 1 .. n /\ NewPairs(n)[k][2] \in 1 .. n
             /\ NewPairs(n)[k][1] = n \/ NewPairs(n)[k][2] = n
  <2>1. CASE k % 2 = 1
    <3>1. (k + 1) \div 2 \in 1 .. n /\ n \in 1 .. n
      OBVIOUS
    <3> QED BY <1>3, <2>1, <3>1
  <2>2. CASE k % 2 # 1
    <3>1. k \div 2 \in 1 .. n /\ n \in 1 .. n
      BY <2>2
    <3> QED BY <1>3, <2>2, <3>1
  <2> QED BY <2>1, <2>2
<1>5. ASSUME NEW j \in 1 .. n
      PROVE  /\ \E k \in 1 .. 2 * n : NewPairs(n)[k][1] = n /\ NewPairs(n)[k][2] = j
             /\ \E k \in 1 .. 2 * n : NewPairs(n)[k][1] = j /\ NewPairs(n)[k][2] = n
  <2>1. 2 * j - 1 \in 1 .. 2 * n /\ (2 * j - 1) % 2 = 1 /\ ((2 * j - 1) + 1) \div 2 = j
    OBVIOUS
  <2>2. 2 * j \in 1 .. 2 * n /\ (2 * j) % 2 # 1 /\ (2 * j) \div 2 = j
    OBVIOUS
  <2> QED BY <1>3, <2>1, <2>2
<1> QED BY <1>1, <1>2, <1>4, <1>5

\* The ambiguities of a pair are its keys.
LEMMA AmbiguitiesAre ==
  ASSUME NEW b, NEW pair
  PROVE  Ambiguities(b, pair) = KeysOf(b, pair[1], pair[2])
BY DEF Ambiguities, KeysOf, LeadWord, LeadAt, LeadOf

\* The keys of a queue that is filled.
LEMMA FilledIs ==
  ASSUME NEW b, NEW pairs, NEW n
  PROVE  \A key : key \in Filled(b, pairs, n) <=>
           key \in queue \/ \E k \in 1 .. n : key \in KeysOf(b, pairs[k][1], pairs[k][2])
<1>1. \A k : Ambiguities(b, pairs[k]) = KeysOf(b, pairs[k][1], pairs[k][2])
  BY AmbiguitiesAre
<1>2. Filled(b, pairs, n) = queue \cup UNION {Ambiguities(b, pairs[k]) : k \in 1 .. n}
  BY DEF Filled
<1> QED BY <1>1, <1>2

\* A round takes every key of the basis.
LEMMA RoundFills ==
  ASSUME IsSeq(basis), queue \subseteq AllKeys(basis)
  PROVE  Filled(basis, AllPairs(Len(basis)), Len(basis) * Len(basis)) = AllKeys(basis)
<1> DEFINE n == Len(basis)
           pairs == AllPairs(n)
           filled == Filled(basis, pairs, n * n)
<1>1. n \in Nat /\ DOMAIN basis = 1 .. n
  BY SeqIs
<1>2. /\ \A k \in 1 .. n * n : pairs[k][1] \in DOMAIN basis /\ pairs[k][2] \in DOMAIN basis
      /\ \A i, j \in DOMAIN basis : \E k \in 1 .. n * n : pairs[k][1] = i /\ pairs[k][2] = j
  <2>1. /\ \A k \in 1 .. n * n : pairs[k][1] \in 1 .. n /\ pairs[k][2] \in 1 .. n
        /\ \A i, j \in 1 .. n : \E k \in 1 .. n * n : pairs[k][1] = i /\ pairs[k][2] = j
    BY <1>1, AllPairsAre
  <2> HIDE DEF pairs, n
  <2> QED BY <1>1, <2>1
<1>3. \A key : key \in filled <=>
        key \in queue \/ \E k \in 1 .. n * n : key \in KeysOf(basis, pairs[k][1], pairs[k][2])
  BY FilledIs
<1> HIDE DEF n, pairs, filled
<1>4. filled \subseteq AllKeys(basis)
  BY <1>2, <1>3, KeyIn
<1>5. AllKeys(basis) \subseteq filled
  <2> SUFFICES ASSUME NEW key \in AllKeys(basis) PROVE key \in filled
    OBVIOUS
  <2>1. PICK i \in DOMAIN basis, j \in DOMAIN basis : key \in KeysOf(basis, i, j)
    BY KeyIn
  <2>2. PICK k \in 1 .. n * n : pairs[k][1] = i /\ pairs[k][2] = j
    BY <1>2
  <2> QED BY <1>3, <2>1, <2>2
<1> QED BY <1>4, <1>5 DEF filled, n, pairs

\* The pairs of a new element are its keys on both sides.
LEMMA NewFills ==
  ASSUME NEW b, IsSeq(b), NEW n, n = Len(b), queue \subseteq AllKeys(b)
  PROVE  /\ Filled(b, NewPairs(n), Len(NewPairs(n))) \subseteq AllKeys(b)
         /\ queue \subseteq Filled(b, NewPairs(n), Len(NewPairs(n)))
         /\ \A k \in DOMAIN b : /\ KeysOf(b, n, k) \subseteq Filled(b, NewPairs(n), Len(NewPairs(n)))
                                /\ KeysOf(b, k, n) \subseteq Filled(b, NewPairs(n), Len(NewPairs(n)))
<1> DEFINE pairs == NewPairs(n)
           filled == Filled(b, pairs, Len(pairs))
<1>1. n \in Nat /\ DOMAIN b = 1 .. n
  BY SeqIs
<1>2. /\ Len(pairs) = 2 * n
      /\ \A k \in 1 .. 2 * n : pairs[k][1] \in DOMAIN b /\ pairs[k][2] \in DOMAIN b
      /\ \A j \in DOMAIN b :
           /\ \E k \in 1 .. 2 * n : pairs[k][1] = n /\ pairs[k][2] = j
           /\ \E k \in 1 .. 2 * n : pairs[k][1] = j /\ pairs[k][2] = n
  <2>1. /\ Len(pairs) = 2 * n
        /\ \A k \in 1 .. 2 * n : pairs[k][1] \in 1 .. n /\ pairs[k][2] \in 1 .. n
        /\ \A j \in 1 .. n :
             /\ \E k \in 1 .. 2 * n : pairs[k][1] = n /\ pairs[k][2] = j
             /\ \E k \in 1 .. 2 * n : pairs[k][1] = j /\ pairs[k][2] = n
    BY <1>1, NewPairsAre
  <2> HIDE DEF pairs
  <2> QED BY <1>1, <2>1
<1>3. \A key : key \in filled <=>
        key \in queue \/ \E k \in 1 .. Len(pairs) : key \in KeysOf(b, pairs[k][1], pairs[k][2])
  BY FilledIs
<1> HIDE DEF pairs, filled
<1>4. filled \subseteq AllKeys(b)
  BY <1>2, <1>3, KeyIn
<1>5. queue \subseteq filled
  BY <1>3
<1>6. ASSUME NEW j \in DOMAIN b PROVE KeysOf(b, n, j) \subseteq filled /\ KeysOf(b, j, n) \subseteq filled
  <2>1. PICK k \in 1 .. 2 * n : pairs[k][1] = n /\ pairs[k][2] = j
    BY <1>2
  <2>2. PICK m \in 1 .. 2 * n : pairs[m][1] = j /\ pairs[m][2] = n
    BY <1>2
  <2> QED BY <1>2, <1>3, <2>1, <2>2
<1> QED BY <1>4, <1>5, <1>6 DEF filled, pairs

-----------------------------------------------------------------------------
(* The invariant.                                                          *)

Inputs(rels) == {rels[n] : n \in DOMAIN rels}

\* the relations before the index are in the ideal of the basis, and what is
\* left of the one under reduction differs from it by an element of that ideal
RelationsPhase(q, rels, b, i, w) ==
  /\ \A n \in DOMAIN rels : n < i => rels[n] \in Ideal(q, Polynomials(b))
  /\ ~w.idle => i \in DOMAIN rels /\ SameModulo(q, Ideal(q, Polynomials(b)), rels[i], w.poly)

UnderWay(q, b, Q, w, key) ==
  /\ \A other \in AllKeys(b) : other \in Q \/ other = key \/ Meets(q, b, other)
  /\ SameModulo(q, BelowTop(q, Polynomials(b), TopAt(b, key)), CompositionAt(q, b, key), w.poly)
  /\ AllBelow(w.poly, TopAt(b, key))

\* the basis generates the relations, and every ambiguity that is not in the
\* queue meets, but for the one under reduction
DrainPhase(q, rels, b, Q, w) ==
  /\ \A n \in DOMAIN rels : rels[n] \in Ideal(q, Polynomials(b))
  /\ w.idle => \A key \in AllKeys(b) : key \in Q \/ Meets(q, b, key)
  /\ ~w.idle => \E key \in AllKeys(b) : UnderWay(q, b, Q, w, key)

Divides(J, b) == \A f \in J : f # ZeroPoly => IsDividedAt(b, LeadOf(f))

\* a Groebner basis, no leading word of which is in another
TailPhase(J, b, i, w) ==
  /\ Divides(J, b) /\ LeadsAreApart(b)
  /\ ~w.idle => /\ i \in DOMAIN b /\ w.poly # ZeroPoly
                /\ LeadOf(w.poly) = LeadAt(b, i) /\ Coef(w.poly, LeadAt(b, i)) = 1

\* the work, if any, is on an element of the ideal
WorkIn(J, w) == w.idle \in BOOLEAN /\ (~w.idle => IsWork(w) /\ w.poly \in J)

InIdeal ==
  /\ IsPresentation(presentation)
  /\ BasisIs(p, Ideal(p, Inputs(relations)), basis)
  /\ WorkIn(Ideal(p, Inputs(relations)), work)
  /\ index \in Nat

InPhase ==
  /\ phase \in {"relations", "tail"} => queue = {}
  /\ phase \in {"drain", "membership", "ambiguities"} => queue \subseteq AllKeys(basis)
  /\ phase = "relations" => index # 0 /\ RelationsPhase(p, relations, basis, index, work)
  /\ phase = "drain" => DrainPhase(p, relations, basis, queue, work)
  /\ phase = "tail" => TailPhase(Ideal(p, Inputs(relations)), basis, index, work)
  /\ phase \in {"membership", "ambiguities"} => Divides(Ideal(p, Inputs(relations)), basis)

IInv == InIdeal /\ InPhase

\* What a valid presentation gives.
LEMMA PresentationIs ==
  ASSUME NEW pr, IsPresentation(pr)
  PROVE  /\ IsModulus(pr.p) /\ Invertible(pr.p)
         /\ IsSeq(pr.relations)
         /\ \A n \in DOMAIN pr.relations : pr.relations[n] \in Polys(pr.p)
<1>1. IsModulus(pr.p) /\ Invertible(pr.p)
  BY DEF IsPresentation, IsModulus, Invertible
<1>2. IsSeq(pr.relations)
  BY DEF IsPresentation
<1>3. ASSUME NEW n \in DOMAIN pr.relations PROVE pr.relations[n] \in Polys(pr.p)
  <2> DEFINE f == pr.relations[n]
  <2>1. /\ DOMAIN f \in SUBSET Words /\ IsFiniteSet(DOMAIN f) /\ f = [w \in DOMAIN f |-> f[w]]
    BY DEF IsPresentation, Words
  <2>2. IsRelation([field |-> pr.p, quiver |-> [vertices |-> pr.vertices, arrows |-> pr.arrows]], f)
    BY DEF IsPresentation
  <2>3. \A w \in DOMAIN f : f[w] \in 1 .. pr.p - 1
    <3> HIDE DEF f
    <3> QED BY <2>2 DEF IsRelation
  <2> HIDE DEF f
  <2>4. f \in Polys(pr.p)
    BY <2>1, <2>3, PolyIs
  <2> QED BY <2>4 DEF f
<1> QED BY <1>1, <1>2, <1>3

\* What the relations of the run are.
LEMMA InputsAre ==
  ASSUME IsPresentation(presentation)
  PROVE  /\ IsModulus(p) /\ Invertible(p)
         /\ Inputs(relations) \in SUBSET Polys(p)
         /\ IsSpace(p, Ideal(p, Inputs(relations)))
         /\ \A n \in DOMAIN relations :
              relations[n] \in Ideal(p, Inputs(relations)) /\ relations[n] \in Polys(p)
         /\ Len(relations) \in Nat /\ DOMAIN relations = 1 .. Len(relations)
<1>1. /\ IsModulus(p) /\ Invertible(p) /\ IsSeq(relations)
      /\ \A n \in DOMAIN relations : relations[n] \in Polys(p)
  BY PresentationIs DEF p, relations
<1>2. Inputs(relations) \in SUBSET Polys(p)
  BY <1>1 DEF Inputs
<1>3. IsSpace(p, Ideal(p, Inputs(relations))) /\ Inputs(relations) \subseteq Ideal(p, Inputs(relations))
  BY <1>1, <1>2, IdealIs
<1>4. \A n \in DOMAIN relations : relations[n] \in Inputs(relations)
  BY DEF Inputs
<1> QED BY <1>1, <1>2, <1>3, <1>4, SeqIs

\* What is known of the work in any state of the invariant.
LEMMA WorkIs ==
  ASSUME IInv, ~work.idle
  PROVE  work.poly \in Ideal(p, Inputs(relations)) /\ work.poly \in Polys(p) /\ IsWork(work)
BY InputsAre DEF IInv, InIdeal, InPhase, WorkIn, IsSpace

\* A reduced polynomial has a leading word that the basis does not divide.
LEMMA ReducedIs ==
  ASSUME IInv, IsReduced, phase # "tail", ~IsZero(work.poly)
  PROVE  /\ work.poly # ZeroPoly /\ LeadOf(work.poly) \in Words
         /\ ~IsDividedAt(basis, LeadOf(work.poly))
         /\ \A k \in DOMAIN basis : LeadAt(basis, k) # LeadOf(work.poly)
<1>1. ~work.idle /\ Reducible = {}
  BY DEF IsReduced
<1>2. work.poly \in Polys(p) /\ work.poly # ZeroPoly
  BY <1>1, WorkIs, ZeroIs
<1>3. IsModulus(p) /\ BasisIs(p, Ideal(p, Inputs(relations)), basis)
  BY InputsAre DEF IInv, InIdeal, InPhase, WorkIn
<1> DEFINE w == LeadOf(work.poly)
<1>4. w \in DOMAIN work.poly /\ w \in Words
  BY <1>2, <1>3, LeadIs
<1>5. Usable = DOMAIN basis
  BY DEF Usable
<1>6. ~IsDividedAt(basis, w)
  <2>1. ~\E k \in Usable : Occurrences(w, LeadAt(basis, k)) # {}
    BY <1>1, <1>2, <1>3, <1>4, ReducibleIs
  <2> QED BY <1>5, <2>1 DEF IsDividedAt
<1>7. Occurrences(w, w) # {}
  BY <1>4, FactorIs, CatWithEmpty, PutEmpty
<1>8. \A k \in DOMAIN basis : LeadAt(basis, k) # w
  BY <1>6, <1>7 DEF IsDividedAt
<1> QED BY <1>2, <1>4, <1>6, <1>8

-----------------------------------------------------------------------------
(* The properties that follow from the invariant.                          *)

\* The leading words are distinct.
LEMMA InvariantLeads ==
  ASSUME IInv
  PROVE  LeadsAreDistinct
BY DEF IInv, InIdeal, InPhase, WorkIn, BasisIs, LeadsAreDistinct, Lead, LeadWord, LeadAt, LeadOf

\* A reduced polynomial of the ideal is zero when the basis divides every element.
LEMMA InvariantTraces ==
  ASSUME IInv
  PROVE  TracesEndInZero
<1> SUFFICES ASSUME KeepsTrace, IsReduced, ~IsZero(work.poly) PROVE FALSE
  BY DEF TracesEndInZero
<1>1. phase \in {"membership", "ambiguities"} /\ phase # "tail"
  BY DEF KeepsTrace
<1>2. work.poly # ZeroPoly /\ ~IsDividedAt(basis, LeadOf(work.poly))
  BY <1>1, ReducedIs
<1>3. work.poly \in Ideal(p, Inputs(relations))
  BY WorkIs DEF IsReduced
<1> QED BY <1>1, <1>2, <1>3 DEF IInv, InIdeal, InPhase, WorkIn, Divides

\* While tails are reduced no leading word is a factor of another, and the work keeps
\* its own.
LEMMA InvariantTails ==
  ASSUME IInv
  PROVE  ReductionTouchesTails
<1> SUFFICES ASSUME phase = "tail"
             PROVE  /\ \A k \in DOMAIN basis : ~IsRedundant(k)
                    /\ ~work.idle => work.poly # <<>> /\ Leading(work.poly) = Lead(index)
  BY DEF ReductionTouchesTails
<1>1. TailPhase(Ideal(p, Inputs(relations)), basis, index, work)
  BY DEF IInv, InIdeal, InPhase, WorkIn
<1>2. \A k \in DOMAIN basis : IsRedundant(k) <=> IsRedundantIn(basis, k)
  BY DEF IsRedundant, IsRedundantIn, LeadWord, LeadAt, LeadOf
<1>3. \A k \in DOMAIN basis : ~IsRedundant(k)
  BY <1>1, <1>2 DEF TailPhase, LeadsAreApart
<1>4. ~work.idle => work.poly # <<>> /\ Leading(work.poly) = Lead(index)
  BY <1>1 DEF TailPhase, ZeroPoly, Leading, Lead, LeadWord, LeadAt, LeadOf
<1> QED BY <1>3, <1>4

-----------------------------------------------------------------------------
(* What a reduction keeps and what a round changes.                        *)

\* Two equalities modulo a space.
LEMMA SameChain ==
  ASSUME NEW q, IsModulus(q), NEW V, IsSpace(q, V), NEW f \in Polys(q), NEW g \in Polys(q),
         NEW h \in Polys(q), SameModulo(q, V, f, g), SameModulo(q, V, g, h)
  PROVE  SameModulo(q, V, f, h)
BY SameIsEquivalence

\* What is the same as an element of a space is in it.
LEMMA SameAsMember ==
  ASSUME NEW q, IsModulus(q), NEW V, IsSpace(q, V), NEW f \in Polys(q), NEW g \in V, SameModulo(q, V, f, g)
  PROVE  f \in V
BY SameInSpace

\* A reduction keeps what each phase knows of the work.
LEMMA ReduceRelation ==
  ASSUME NEW q, IsModulus(q), NEW rels, Inputs(rels) \in SUBSET Polys(q),
         NEW b, BasisIs(q, Ideal(q, Inputs(rels)), b), NEW i, NEW w, NEW v, ~w.idle,
         w.poly \in Ideal(q, Inputs(rels)), NEW U \in SUBSET DOMAIN b,
         ReducesTo(q, b, U, w.poly, v.poly), RelationsPhase(q, rels, b, i, w)
  PROVE  RelationsPhase(q, rels, b, i, v)
<1> DEFINE V == Ideal(q, Polynomials(b))
<1>1. SameModulo(q, V, w.poly, v.poly) /\ w.poly \in Polys(q) /\ v.poly \in Polys(q)
  BY ReducesToIs
<1>2. i \in DOMAIN rels /\ SameModulo(q, V, rels[i], w.poly)
  BY DEF RelationsPhase
<1>3. IsSpace(q, V) /\ rels[i] \in Polys(q)
  BY <1>2, BasisIsMonic, IdealIs DEF Inputs
<1>4. SameModulo(q, V, rels[i], v.poly)
  <2> HIDE DEF V
  <2> QED BY <1>1, <1>2, <1>3, SameChain
<1> QED BY <1>2, <1>4 DEF RelationsPhase

\* A reduction keeps what is known of the composition under reduction.
LEMMA ReduceComposition ==
  ASSUME NEW q, IsModulus(q), NEW rels, Inputs(rels) \in SUBSET Polys(q),
         NEW b, BasisIs(q, Ideal(q, Inputs(rels)), b), NEW Q, NEW w, NEW v, ~w.idle, ~v.idle,
         w.poly \in Ideal(q, Inputs(rels)), NEW U \in SUBSET DOMAIN b,
         ReducesTo(q, b, U, w.poly, v.poly), DrainPhase(q, rels, b, Q, w)
  PROVE  DrainPhase(q, rels, b, Q, v)
<1>1. PICK key \in AllKeys(b) : UnderWay(q, b, Q, w, key)
  BY DEF DrainPhase
<1> DEFINE V == BelowTop(q, Polynomials(b), TopAt(b, key))
<1>2. TopAt(b, key) \in Words /\ AllBelow(w.poly, TopAt(b, key))
  BY <1>1, KeyAt DEF UnderWay
<1>3. /\ w.poly \in Polys(q) /\ v.poly \in Polys(q)
      /\ AllBelow(v.poly, TopAt(b, key)) /\ SameModulo(q, V, w.poly, v.poly)
  BY <1>2, ReducesToIs
<1>4. IsSpace(q, V) /\ CompositionAt(q, b, key) \in Polys(q)
  BY BasisIsMonic, BelowIs, CompositionAtIs
<1>5. SameModulo(q, V, CompositionAt(q, b, key), w.poly)
  BY <1>1 DEF UnderWay
<1>6. SameModulo(q, V, CompositionAt(q, b, key), v.poly)
  <2> HIDE DEF V
  <2> QED BY <1>3, <1>4, <1>5, SameChain
<1>7. UnderWay(q, b, Q, v, key)
  BY <1>1, <1>3, <1>6 DEF UnderWay
<1> QED BY <1>7 DEF DrainPhase

\* A reduction by the other elements keeps the leading word of a tail.
LEMMA ReduceTail ==
  ASSUME NEW q, IsModulus(q), NEW R \in SUBSET Polys(q), NEW b, BasisIs(q, Ideal(q, R), b),
         NEW i, NEW w, NEW v, ~w.idle, ~v.idle, w.poly \in Ideal(q, R),
         NEW U, U = DOMAIN b \ {i}, ReducesTo(q, b, U, w.poly, v.poly), TailPhase(Ideal(q, R), b, i, w)
  PROVE  TailPhase(Ideal(q, R), b, i, v)
<1>1. /\ i \in DOMAIN b /\ w.poly # ZeroPoly /\ LeadOf(w.poly) = LeadAt(b, i)
      /\ Coef(w.poly, LeadAt(b, i)) = 1
  BY DEF TailPhase
<1>2. \A k \in U : Occurrences(LeadOf(w.poly), LeadAt(b, k)) = {}
  BY <1>1 DEF TailPhase, LeadsAreApart, IsRedundantIn
<1>3. U \in SUBSET DOMAIN b
  OBVIOUS
<1>4. /\ v.poly # ZeroPoly /\ LeadOf(v.poly) = LeadOf(w.poly)
      /\ Coef(v.poly, LeadOf(w.poly)) = Coef(w.poly, LeadOf(w.poly))
  BY <1>1, <1>2, <1>3, ReducesBelowLead
<1> QED BY <1>1, <1>4 DEF TailPhase

\* More generators generate more.
LEMMA IdealGrows ==
  ASSUME NEW q, IsModulus(q), NEW G, NEW H \in SUBSET Polys(q), G \subseteq H
  PROVE  Ideal(q, G) \subseteq Ideal(q, H)
<1>1. G \in SUBSET Polys(q) /\ G \subseteq Ideal(q, H)
  BY IdealIs
<1> QED BY <1>1, IdealInIdeal

\* A relation that is reduced to zero, and one that becomes an element.
LEMMA DropRelation ==
  ASSUME NEW q, IsModulus(q), NEW rels, Inputs(rels) \in SUBSET Polys(q), DOMAIN rels \in SUBSET Nat,
         NEW b, BasisIs(q, Ideal(q, Inputs(rels)), b), NEW i \in Nat, NEW w, NEW v, ~w.idle, v.idle,
         w.poly = ZeroPoly, RelationsPhase(q, rels, b, i, w)
  PROVE  RelationsPhase(q, rels, b, i + 1, v)
<1> DEFINE V == Ideal(q, Polynomials(b))
<1>1. i \in DOMAIN rels /\ SameModulo(q, V, rels[i], ZeroPoly)
  BY DEF RelationsPhase
<1>2. IsSpace(q, V) /\ rels[i] \in Polys(q)
  BY <1>1, BasisIsMonic, IdealIs DEF Inputs
<1>3. rels[i] \in V
  <2> HIDE DEF V
  <2>1. ZeroPoly \in V
    BY <1>2 DEF IsSpace
  <2> QED BY <1>1, <1>2, <2>1, SameAsMember
<1>4. \A n \in DOMAIN rels : n < i + 1 => n < i \/ n = i
  OBVIOUS
<1> QED BY <1>3, <1>4 DEF RelationsPhase

\* A relation that leaves something becomes generated by the element made of it.
LEMMA AddRelation ==
  ASSUME NEW q, IsModulus(q), Invertible(q), NEW rels, Inputs(rels) \in SUBSET Polys(q),
         DOMAIN rels \in SUBSET Nat,
         NEW b, BasisIs(q, Ideal(q, Inputs(rels)), b), NEW i \in Nat, NEW w, NEW v, ~w.idle, v.idle,
         w.poly \in Ideal(q, Inputs(rels)), w.poly # ZeroPoly,
         \A k \in DOMAIN b : LeadAt(b, k) # LeadOf(w.poly),
         NEW e, e.poly = w.poly, NEW c, c = Append(b, MakeMonic(q, e)),
         RelationsPhase(q, rels, b, i, w)
  PROVE  BasisIs(q, Ideal(q, Inputs(rels)), c) /\ RelationsPhase(q, rels, c, i + 1, v)
<1> DEFINE V == Ideal(q, Polynomials(c))
           J == Ideal(q, Inputs(rels))
           m == MakeMonic(q, e).poly
<1>1. IsSpace(q, J)
  BY IdealIs
<1>2. /\ BasisIs(q, J, c) /\ Polynomials(b) \subseteq Polynomials(c)
      /\ \A X : IsSpace(q, X) /\ m \in X => w.poly \in X
      /\ m \in Polynomials(c)
  <2>1. e.poly \in J /\ e.poly # ZeroPoly /\ \A k \in DOMAIN b : LeadAt(b, k) # LeadOf(e.poly)
    OBVIOUS
  <2>2. BasisIs(q, J, b)
    OBVIOUS
  <2> HIDE DEF J
  <2> QED BY <1>1, <2>1, <2>2, BasisGrows
<1>3. Polynomials(c) \in SUBSET Polys(q)
  BY <1>2, BasisIsMonic
<1>4. IsSpace(q, V) /\ m \in V /\ Ideal(q, Polynomials(b)) \subseteq V
  <2> HIDE DEF m
  <2> QED BY <1>2, <1>3, IdealIs, IdealGrows
<1>5. w.poly \in V
  BY <1>2, <1>4
<1>6. i \in DOMAIN rels /\ SameModulo(q, Ideal(q, Polynomials(b)), rels[i], w.poly)
  BY DEF RelationsPhase
<1>7. SameModulo(q, V, rels[i], w.poly) /\ rels[i] \in Polys(q)
  BY <1>4, <1>6 DEF SameModulo, Inputs
<1>8. rels[i] \in V
  <2> HIDE DEF V
  <2> QED BY <1>4, <1>5, <1>7, SameAsMember
<1>9. \A n \in DOMAIN rels : n < i + 1 => n < i \/ n = i
  OBVIOUS
<1>10. \A n \in DOMAIN rels : n < i + 1 => rels[n] \in V
  BY <1>4, <1>8, <1>9 DEF RelationsPhase
<1> QED BY <1>2, <1>10 DEF RelationsPhase

\* A composition that is taken, one that is reduced to zero, and one that
\* becomes an element, whose pairs go to the queue.
LEMMA TakeComposition ==
  ASSUME NEW q, IsModulus(q), NEW rels, NEW J,
         NEW b, BasisIs(q, J, b), NEW Q, NEW w, NEW v,
         w.idle, ~v.idle, DrainPhase(q, rels, b, Q, w),
         NEW key \in AllKeys(b), v.poly = CompositionAt(q, b, key)
  PROVE  DrainPhase(q, rels, b, Q \ {key}, v)
<1>1. \A other \in AllKeys(b) : other \in Q \/ Meets(q, b, other)
  BY DEF DrainPhase
<1>2. CompositionAt(q, b, key) \in Polys(q) /\ AllBelow(v.poly, TopAt(b, key))
  BY CompositionAtIs DEF AllBelow
<1>3. IsSpace(q, BelowTop(q, Polynomials(b), TopAt(b, key)))
  BY BasisIsMonic, BelowIs
<1>4. SameModulo(q, BelowTop(q, Polynomials(b), TopAt(b, key)), CompositionAt(q, b, key), v.poly)
  BY <1>2, <1>3, SameIsEquivalence
<1>5. UnderWay(q, b, Q \ {key}, v, key)
  BY <1>1, <1>2, <1>4 DEF UnderWay
<1> QED BY <1>5 DEF DrainPhase

\* A composition that is reduced to zero meets.
LEMMA DropComposition ==
  ASSUME NEW q, IsModulus(q), NEW rels, NEW J,
         NEW b, BasisIs(q, J, b), NEW Q, NEW w, NEW v,
         ~w.idle, v.idle, DrainPhase(q, rels, b, Q, w), w.poly = ZeroPoly
  PROVE  DrainPhase(q, rels, b, Q, v)
<1>1. PICK key \in AllKeys(b) : UnderWay(q, b, Q, w, key)
  BY DEF DrainPhase
<1> DEFINE V == BelowTop(q, Polynomials(b), TopAt(b, key))
<1>2. IsSpace(q, V) /\ CompositionAt(q, b, key) \in Polys(q)
  BY BasisIsMonic, BelowIs, CompositionAtIs
<1>3. SameModulo(q, V, CompositionAt(q, b, key), ZeroPoly)
  BY <1>1 DEF UnderWay
<1>4. CompositionAt(q, b, key) \in V
  <2> HIDE DEF V
  <2>1. ZeroPoly \in V
    BY <1>2 DEF IsSpace
  <2> QED BY <1>2, <1>3, <2>1, SameAsMember
<1>5. \A other \in AllKeys(b) : other \in Q \/ Meets(q, b, other)
  BY <1>1, <1>4 DEF UnderWay, Meets
<1> QED BY <1>5 DEF DrainPhase

\* a basis with one more element, a polynomial made monic
GrowsBy(q, b, f, c) == \E e : e.poly = f /\ c = Append(b, MakeMonic(q, e))

IsNewTo(b, f) == \A k \in DOMAIN b : LeadAt(b, k) # LeadOf(f)

\* the keys of the last element are in a set
HasLastKeys(c, S) ==
  \A k \in DOMAIN c : KeysOf(c, Len(c), k) \subseteq S /\ KeysOf(c, k, Len(c)) \subseteq S

\* A composition that leaves something meets once the element made of it is there.
LEMMA AddComposition ==
  ASSUME NEW q, IsModulus(q), Invertible(q), NEW rels, NEW J, IsSpace(q, J),
         NEW b, BasisIs(q, J, b), NEW Q, NEW w, NEW v,
         ~w.idle, v.idle, DrainPhase(q, rels, b, Q, w),
         w.poly \in J, w.poly # ZeroPoly, IsNewTo(b, w.poly),
         NEW c, GrowsBy(q, b, w.poly, c),
         NEW S, Q \subseteq S, HasLastKeys(c, S)
  PROVE  BasisIs(q, J, c) /\ DrainPhase(q, rels, c, S, v) /\ AllKeys(b) \subseteq AllKeys(c)
<1>0. PICK e : e.poly = w.poly /\ c = Append(b, MakeMonic(q, e))
  BY DEF GrowsBy
<1> DEFINE n == Len(b) + 1
           m == MakeMonic(q, e).poly
<1>1. /\ BasisIs(q, J, c) /\ Polynomials(b) \subseteq Polynomials(c)
      /\ DOMAIN c = DOMAIN b \cup {n} /\ Len(c) = n
      /\ \A k \in DOMAIN b : c[k] = b[k]
      /\ \A X : IsSpace(q, X) /\ m \in X => w.poly \in X
      /\ m \in Polynomials(c) /\ LeadOf(m) = LeadOf(w.poly) /\ m \in Polys(q) /\ LeadOf(w.poly) \in Words
  BY <1>0, BasisGrows DEF IsNewTo
<1>2. Polynomials(c) \in SUBSET Polys(q) /\ IsMonic(q, Polynomials(c)) /\ IsMonic(q, Polynomials(b))
  BY <1>1, BasisIsMonic
<1>3. Ideal(q, Polynomials(b)) \subseteq Ideal(q, Polynomials(c))
  BY <1>1, <1>2, IdealGrows
<1>4. /\ \A key \in AllKeys(b) :
           /\ key \in AllKeys(c) /\ TopAt(c, key) = TopAt(b, key)
           /\ CompositionAt(q, c, key) = CompositionAt(q, b, key)
           /\ Meets(q, b, key) => Meets(q, c, key)
      /\ \A key \in AllKeys(c) :
           key \in AllKeys(b) \/ \E k \in DOMAIN c : key \in KeysOf(c, n, k) \/ key \in KeysOf(c, k, n)
  <2>1. IsModulus(q) /\ BasisIs(q, J, b)
    OBVIOUS
  <2> HIDE DEF n
  <2> QED BY ONLY <1>1, <2>1, KeysGrow
<1>5. PICK key \in AllKeys(b) : UnderWay(q, b, Q, w, key)
  BY DEF DrainPhase
<1> DEFINE t == TopAt(b, key)
           V == BelowTop(q, Polynomials(c), t)
<1>6. t \in Words
  BY <1>5, KeyAt
<1>7. IsSpace(q, V) /\ BelowTop(q, Polynomials(b), t) \subseteq V
  BY <1>1, <1>2, <1>6, BelowIs, BelowTopGrows
<1>8. w.poly \in V
  <2>1. w.poly \in Polys(q)
    BY DEF IsSpace
  <2>2. LeadOf(w.poly) \in DOMAIN w.poly
    BY <2>1, LeadIs
  <2>3. WordLess(LeadOf(w.poly), t)
    BY <1>5, <2>2 DEF UnderWay, AllBelow
  <2>4. Put(EmptyWord, LeadOf(m), EmptyWord) = LeadOf(m)
    BY <1>1, PutEmpty
  <2>5. Between(EmptyWord, m, EmptyWord) \in V
    <3> HIDE DEF m, t
    <3> QED BY <1>1, <1>2, <2>3, <2>4, CatWithEmpty, BelowIs
  <2>6. Between(EmptyWord, m, EmptyWord) = m
    <3> HIDE DEF m
    <3> QED BY <1>1, BetweenNothing
  <2> QED BY <1>1, <1>7, <2>5, <2>6
<1>9. SameModulo(q, V, CompositionAt(q, b, key), w.poly) /\ CompositionAt(q, b, key) \in Polys(q)
  BY <1>5, <1>7, CompositionAtIs DEF UnderWay, SameModulo
<1>10. CompositionAt(q, b, key) \in V
  <2> HIDE DEF V
  <2> QED BY <1>7, <1>8, <1>9, SameAsMember
<1>11. Meets(q, c, key)
  BY <1>4, <1>5, <1>10 DEF Meets
<1>12. \A other \in AllKeys(b) : other \in Q \/ Meets(q, c, other)
  BY <1>4, <1>5, <1>11 DEF UnderWay
<1>13. \A other \in AllKeys(c) : other \in S \/ Meets(q, c, other)
  BY <1>1, <1>4, <1>12 DEF HasLastKeys
<1>14. \A i \in DOMAIN rels : rels[i] \in Ideal(q, Polynomials(c))
  BY <1>3 DEF DrainPhase
<1> QED BY <1>1, <1>4, <1>13, <1>14 DEF DrainPhase

\* When the queue is empty, the basis divides every element of the ideal.
LEMMA DrainEnds ==
  ASSUME NEW q, IsModulus(q), NEW rels, Inputs(rels) \in SUBSET Polys(q),
         NEW b, BasisIs(q, Ideal(q, Inputs(rels)), b), NEW w, w.idle, DrainPhase(q, rels, b, {}, w)
  PROVE  Divides(Ideal(q, Inputs(rels)), b)
<1> DEFINE G == Polynomials(b)
           J == Ideal(q, Inputs(rels))
<1>1. IsConfluent(q, G)
  BY MeetsMakesConfluent DEF DrainPhase
<1>2. G \in SUBSET Polys(q)
  BY BasisIsMonic
<1>3. Inputs(rels) \subseteq Ideal(q, G)
  BY DEF DrainPhase, Inputs
<1>4. J \subseteq Ideal(q, G)
  BY <1>2, <1>3, IdealInIdeal
<1>5. ASSUME NEW f \in J, f # ZeroPoly PROVE IsDividedAt(b, LeadOf(f))
  <2>1. f \in Ideal(q, G) /\ f \in Polys(q)
    BY <1>4, IdealIs DEF IsSpace
  <2>2. IsDivided(G, LeadOf(f)) /\ LeadOf(f) \in Words
    BY <1>1, <1>5, <2>1, DiamondLemma, LeadIs
  <2> QED BY <2>2, DividedAt
<1> QED BY <1>5 DEF Divides

\* A basis that divides every element of the ideal generates the relations.
LEMMA DividesGenerates ==
  ASSUME NEW q, IsModulus(q), NEW rels, Inputs(rels) \in SUBSET Polys(q),
         NEW b, BasisIs(q, Ideal(q, Inputs(rels)), b), Divides(Ideal(q, Inputs(rels)), b)
  PROVE  \A n \in DOMAIN rels : rels[n] \in Ideal(q, Polynomials(b))
<1> DEFINE K == Polynomials(b)
           J == Ideal(q, Inputs(rels))
<1>1. IsSpace(q, J) /\ Inputs(rels) \subseteq J
  BY IdealIs
<1>2. IsMonic(q, K) /\ K \subseteq J
  BY BasisIsMonic
<1>3. \A k \in K : \A l, r \in Words : Between(l, k, r) \in J
  BY <1>2, IdealBetween
<1>4. \A f \in J : f # ZeroPoly => IsDivided(K, LeadOf(f))
  <2> SUFFICES ASSUME NEW f \in J, f # ZeroPoly PROVE IsDivided(K, LeadOf(f))
    OBVIOUS
  <2>1. f \in Polys(q)
    BY <1>1 DEF IsSpace
  <2>2. LeadOf(f) \in Words
    BY <2>1, LeadIs
  <2> QED BY <2>2, DividedAt DEF Divides
<1>5. J \subseteq Ideal(q, K)
  <2> HIDE DEF J, K
  <2> QED BY <1>1, <1>2, <1>3, <1>4, Division
<1> QED BY <1>1, <1>5 DEF Inputs

Replaces(b, i, f, c) == \E e : e.poly = f /\ c = [b EXCEPT ![i] = e]

\* A tail that is replaced keeps the leading words.
LEMMA ReplaceTail ==
  ASSUME NEW q, IsModulus(q), NEW J, IsSpace(q, J), NEW b, BasisIs(q, J, b), NEW i, NEW w, NEW v,
         ~w.idle, v.idle, w.poly \in J, TailPhase(J, b, i, w), NEW j,
         NEW c, Replaces(b, i, w.poly, c)
  PROVE  BasisIs(q, J, c) /\ TailPhase(J, c, j, v)
<1>0. PICK e : e.poly = w.poly /\ c = [b EXCEPT ![i] = e]
  BY DEF Replaces
<1>1. /\ i \in DOMAIN b /\ w.poly # ZeroPoly /\ LeadOf(w.poly) = LeadAt(b, i)
      /\ Coef(w.poly, LeadAt(b, i)) = 1 /\ w.poly \in Polys(q)
  BY DEF TailPhase, IsSpace
<1>2. DOMAIN c = DOMAIN b /\ c[i] = e /\ \A k \in DOMAIN b : k # i => c[k] = b[k]
  BY <1>0, <1>1
<1>3. c = [k \in DOMAIN b |-> c[k]]
  BY <1>0
<1>4. \A k \in DOMAIN b : LeadAt(c, k) = LeadAt(b, k)
  BY <1>0, <1>1, <1>2 DEF LeadAt
<1>5. IsSeq(c)
  <2>1. IsSeq(b)
    BY DEF BasisIs
  <2>2. DOMAIN b = 1 .. Len(b) /\ Len(b) \in Nat
    BY <2>1, SeqIs
  <2> QED BY <1>3, <2>2, FunctionIsSeq
<1>6. BasisIs(q, J, c)
  <2>1. \A k \in DOMAIN c : /\ c[k].poly \in J /\ c[k].poly \in Polys(q) /\ c[k].poly # ZeroPoly
                            /\ Coef(c[k].poly, LeadAt(c, k)) = 1
    <3> SUFFICES ASSUME NEW k \in DOMAIN b
                 PROVE  /\ c[k].poly \in J /\ c[k].poly \in Polys(q) /\ c[k].poly # ZeroPoly
                        /\ Coef(c[k].poly, LeadAt(b, k)) = 1
      BY <1>2, <1>4
    <3>1. CASE k = i
      BY <1>0, <1>1, <1>2, <3>1
    <3>2. CASE k # i
      BY <1>2, <3>2 DEF BasisIs
    <3> QED BY <3>1, <3>2
  <2>2. \A k, m \in DOMAIN b : k # m => LeadAt(b, k) # LeadAt(b, m)
    BY DEF BasisIs
  <2>3. \A k, m \in DOMAIN c : k # m => LeadAt(c, k) # LeadAt(c, m)
    BY ONLY <1>2, <1>4, <2>2
  <2> QED BY <1>5, <2>1, <2>3 DEF BasisIs
<1>7. Divides(J, c)
  BY <1>2, <1>4 DEF TailPhase, Divides, IsDividedAt
<1>8. LeadsAreApart(c)
  BY <1>2, <1>4 DEF TailPhase, LeadsAreApart, IsRedundantIn
<1> QED BY <1>6, <1>7, <1>8 DEF TailPhase

-----------------------------------------------------------------------------
(* The steps of a run.                                                     *)

\* The presentation does not change.
LEMMA PresentationStays ==
  ASSUME UNCHANGED presentation
  PROVE  p' = p /\ relations' = relations
BY DEF p, relations

\* No work is in every ideal.
LEMMA IdleWork ==
  ASSUME NEW J
  PROVE  WorkIn(J, NoWork) /\ NoWork.idle
BY DEF WorkIn, NoWork

\* Work that is taken up.
LEMMA FreshWork ==
  ASSUME NEW J, NEW f \in J, NEW o
  PROVE  WorkIn(J, Work(f, o)) /\ ~Work(f, o).idle /\ Work(f, o).poly = f
<1>1. ~Work(f, o).idle /\ Work(f, o).idle \in BOOLEAN /\ Work(f, o).poly = f
  BY DEF Work
<1>2. IsWork(Work(f, o))
  BY ONLY DEF Work, IsWork
<1> QED BY <1>1, <1>2 DEF WorkIn

\* Work that is taken up for an entry of the certificate.
LEMMA EntryWork ==
  ASSUME NEW J, NEW f \in J, NEW o, NEW k, NEW v, v = [Work(f, o) EXCEPT !.key = k]
  PROVE  WorkIn(J, v) /\ ~v.idle /\ v.poly = f
<1>1. v = [idle |-> FALSE, poly |-> f, origin |-> o, start |-> f, steps |-> <<>>, key |-> k]
  BY DEF Work
<1>2. ~v.idle /\ v.idle \in BOOLEAN /\ v.poly = f
  BY ONLY <1>1
<1>3. IsWork(v)
  BY ONLY <1>1 DEF IsWork
<1> QED BY <1>2, <1>3 DEF WorkIn

\* The first half of the invariant after a step that keeps the presentation.
LEMMA StaysInIdeal ==
  ASSUME IInv, UNCHANGED presentation, BasisIs(p, Ideal(p, Inputs(relations)), basis'),
         WorkIn(Ideal(p, Inputs(relations)), work'), index' \in Nat
  PROVE  InIdeal'
BY PresentationStays DEF IInv, InIdeal

\* What the invariant says, in the form that the steps cite.
LEMMA Known ==
  ASSUME IInv
  PROVE  /\ IsModulus(p) /\ Invertible(p) /\ Inputs(relations) \in SUBSET Polys(p)
         /\ IsSpace(p, Ideal(p, Inputs(relations)))
         /\ DOMAIN relations = 1 .. Len(relations) /\ Len(relations) \in Nat
         /\ \A n \in DOMAIN relations :
              relations[n] \in Ideal(p, Inputs(relations)) /\ relations[n] \in Polys(p)
         /\ BasisIs(p, Ideal(p, Inputs(relations)), basis)
         /\ WorkIn(Ideal(p, Inputs(relations)), work) /\ index \in Nat
BY InputsAre DEF IInv, InIdeal

\* A run that is truncated or complete.
LEMMA Ended ==
  ASSUME IInv, phase' \in {"truncated", "complete"}, UNCHANGED presentation,
         BasisIs(p, Ideal(p, Inputs(relations)), basis'), index' = index,
         work' = NoWork \/ work' = work
  PROVE  IInv'
<1>1. WorkIn(Ideal(p, Inputs(relations)), work')
  BY Known, IdleWork
<1>2. InIdeal'
  BY <1>1, Known, StaysInIdeal
<1>3. InPhase'
  BY DEF InPhase
<1> QED BY <1>2, <1>3 DEF IInv

\* A truncation keeps the invariant.
LEMMA TruncateStep ==
  ASSUME IInv, NEW r, NEW n, Truncate(r, n), BasisIs(p, Ideal(p, Inputs(relations)), basis')
  PROVE  IInv'
BY Ended DEF Truncate

\* The actions that stop a run without a change of the basis.
LEMMA RefusalStep ==
  ASSUME IInv, ExhaustSteps \/ ExhaustOrigin \/ RefuseRelation \/ RefuseElement \/ RefuseRound
               \/ RefuseAmbiguity \/ RefuseWords
  PROVE  IInv'
<1>1. basis' = basis
  BY DEF ExhaustSteps, ExhaustOrigin, RefuseRelation, RefuseElement, RefuseRound, RefuseAmbiguity, RefuseWords
<1>2. \E r, n : Truncate(r, n)
  BY DEF ExhaustSteps, ExhaustOrigin, RefuseRelation, RefuseElement, RefuseRound, RefuseAmbiguity, RefuseWords
<1>3. BasisIs(p, Ideal(p, Inputs(relations)), basis')
  BY <1>1, Known
<1> QED BY <1>2, <1>3, TruncateStep

\* The emission of a certificate keeps the invariant.
LEMMA EmitStep ==
  ASSUME IInv, EmitWitness \/ EmitWords
  PROVE  IInv'
<1>1. phase' = "complete" /\ UNCHANGED <<presentation, basis, index, work>>
  BY DEF EmitWitness, EmitWords
<1> QED BY <1>1, Known, Ended

\* So does a step of nobody.
LEMMA StutterStep ==
  ASSUME IInv, UNCHANGED vars
  PROVE  IInv'
<1>1. UNCHANGED <<presentation, basis, queue, work, phase, index>>
  BY DEF vars, loop
<1>2. p' = p /\ relations' = relations
  BY <1>1, PresentationStays
<1> QED BY <1>1, <1>2 DEF IInv, InIdeal, InPhase

\* What a new element needs.
LEMMA GrowIs ==
  ASSUME IInv, Grow, phase # "tail"
  PROVE  /\ basis' = Append(basis, MakeMonic(p, Element(work.poly, work.origin)))
         /\ Element(work.poly, work.origin).poly = work.poly
         /\ work.poly \in Ideal(p, Inputs(relations)) /\ work.poly # ZeroPoly /\ ~work.idle
         /\ \A k \in DOMAIN basis : LeadAt(basis, k) # LeadOf(work.poly)
<1>1. IsReduced /\ ~IsZero(work.poly) /\ ~work.idle
  BY DEF Grow, IsReduced
<1>2. work.poly # ZeroPoly /\ \A k \in DOMAIN basis : LeadAt(basis, k) # LeadOf(work.poly)
  BY <1>1, ReducedIs
<1>3. Element(work.poly, work.origin).poly = work.poly
  BY DEF Element
<1> QED BY <1>1, <1>2, <1>3, WorkIs DEF Grow

\* The element whose pairs are refused is kept in the basis.
LEMMA RefusePairsStep ==
  ASSUME IInv, RefusePairs
  PROVE  IInv'
<1>1. Grow /\ phase # "tail" /\ \E r, n : Truncate(r, n)
  BY DEF RefusePairs
<1>2. BasisIs(p, Ideal(p, Inputs(relations)), basis')
  <2>1. PICK e : /\ basis' = Append(basis, MakeMonic(p, e)) /\ e.poly = work.poly
                 /\ work.poly \in Ideal(p, Inputs(relations)) /\ work.poly # ZeroPoly
                 /\ \A k \in DOMAIN basis : LeadAt(basis, k) # LeadOf(work.poly)
    BY <1>1, GrowIs
  <2>2. BasisIs(p, Ideal(p, Inputs(relations)), Append(basis, MakeMonic(p, e)))
    BY <2>1, Known, BasisGrows
  <2> QED BY <2>1, <2>2
<1> QED BY <1>1, <1>2, TruncateStep

\* One step of a reduction, in any phase.
LEMMA ReduceStep ==
  ASSUME IInv, Reduce
  PROVE  IInv'
<1> DEFINE J == Ideal(p, Inputs(relations))
<1>1. ~work.idle /\ UNCHANGED <<presentation, basis, queue, phase, index>>
  BY DEF Reduce
<1>2. p' = p /\ relations' = relations
  BY <1>1, PresentationStays
<1>3. /\ IsModulus(p) /\ Inputs(relations) \in SUBSET Polys(p) /\ BasisIs(p, J, basis)
      /\ work.poly \in J /\ work.poly \in Polys(p) /\ IsWork(work)
  BY <1>1, Known, WorkIs
<1>4. Usable \in SUBSET DOMAIN basis
  BY DEF Usable
<1>5. ReducesTo(p, basis, Usable, work.poly, work'.poly) /\ IsWork(work')
  BY <1>3, ReduceIs
<1>6. work'.poly \in J
  BY <1>3, <1>4, <1>5, ReducesToIs
<1>7. ~work'.idle /\ WorkIn(J, work')
  BY <1>5, <1>6, WorkHas DEF WorkIn
<1>8. InIdeal'
  BY <1>1, <1>7, Known, StaysInIdeal
<1>9. phase = "relations" => RelationsPhase(p, relations, basis, index, work')
  <2>1. phase = "relations" => RelationsPhase(p, relations, basis, index, work)
    BY DEF IInv, InPhase
  <2> QED BY <1>1, <1>3, <1>4, <1>5, <1>7, <2>1, ReduceRelation
<1>10. phase = "drain" => DrainPhase(p, relations, basis, queue, work')
  <2>1. phase = "drain" => DrainPhase(p, relations, basis, queue, work)
    BY DEF IInv, InPhase
  <2> QED BY <1>1, <1>3, <1>4, <1>5, <1>7, <2>1, ReduceComposition
<1>11. phase = "tail" => TailPhase(J, basis, index, work')
  <2>1. phase = "tail" => TailPhase(J, basis, index, work) /\ Usable = DOMAIN basis \ {index}
    BY DEF IInv, InPhase, Usable
  <2> QED BY <1>1, <1>3, <1>5, <1>7, <2>1, ReduceTail
<1>12. InPhase'
  BY <1>1, <1>2, <1>9, <1>10, <1>11 DEF IInv, InPhase
<1> QED BY <1>8, <1>12 DEF IInv

-----------------------------------------------------------------------------
(* The relations.                                                          *)

\* A relation is taken up.
LEMMA TakeRelationStep ==
  ASSUME IInv, TakeRelation
  PROVE  IInv'
<1> DEFINE J == Ideal(p, Inputs(relations))
<1>1. /\ phase = "relations" /\ index \in DOMAIN relations
      /\ UNCHANGED <<presentation, basis, queue, phase, index>>
      /\ work' = Work(relations[index], InputOrigin(index))
  BY DEF TakeRelation
<1>2. p' = p /\ relations' = relations
  BY <1>1, PresentationStays
<1>3. relations[index] \in J /\ relations[index] \in Polys(p)
  BY <1>1, Known
<1>4. WorkIn(J, work') /\ ~work'.idle /\ work'.poly = relations[index]
  BY <1>1, <1>3, FreshWork
<1>5. InIdeal'
  BY <1>1, <1>4, Known, StaysInIdeal
<1>6. SameModulo(p, Ideal(p, Polynomials(basis)), relations[index], work'.poly)
  <2>1. IsModulus(p) /\ IsSpace(p, Ideal(p, Polynomials(basis)))
    BY Known, BasisIsMonic, IdealIs
  <2> QED BY <1>3, <1>4, <2>1, SameIsEquivalence
<1>7. RelationsPhase(p, relations, basis, index, work')
  BY <1>1, <1>6 DEF IInv, InPhase, RelationsPhase
<1>8. InPhase'
  BY <1>1, <1>2, <1>7 DEF IInv, InPhase
<1> QED BY <1>5, <1>8 DEF IInv

\* a relation, or a composition, that is reduced to zero
LEMMA DropZeroStep ==
  ASSUME IInv, DropZero
  PROVE  IInv'
<1> DEFINE J == Ideal(p, Inputs(relations))
<1>1. /\ phase \in {"relations", "drain"} /\ IsReduced /\ IsZero(work.poly)
      /\ UNCHANGED <<presentation, basis, queue, phase>> /\ work' = NoWork
      /\ index' = IF phase = "relations" THEN index + 1 ELSE index
  BY DEF DropZero
<1>2. p' = p /\ relations' = relations
  BY <1>1, PresentationStays
<1>3. ~work.idle /\ work.poly = ZeroPoly
  <2>1. ~work.idle
    BY <1>1 DEF IsReduced
  <2>2. work.poly \in Polys(p)
    BY <2>1, WorkIs
  <2> QED BY <1>1, <2>1, <2>2, ZeroIs
<1>4. WorkIn(J, work') /\ work'.idle
  BY <1>1, IdleWork
<1>5. phase = "relations" => index' # 0
  <2>1. index \in Nat
    BY Known
  <2> QED BY <1>1, <2>1
<1>6. InIdeal'
  <2>1. index' \in Nat
    BY <1>1, Known
  <2> QED BY <1>1, <1>4, <2>1, Known, StaysInIdeal
<1>7. phase = "relations" => RelationsPhase(p, relations, basis, index', work')
  <2>1. ASSUME phase = "relations" PROVE RelationsPhase(p, relations, basis, index + 1, work')
    <3>1. RelationsPhase(p, relations, basis, index, work) /\ DOMAIN relations \in SUBSET Nat
      BY <2>1, Known DEF IInv, InPhase
    <3> QED BY <1>3, <1>4, <3>1, Known, DropRelation
  <2> QED BY <1>1, <2>1
<1>8. phase = "drain" => DrainPhase(p, relations, basis, queue, work')
  <2>1. phase = "drain" => DrainPhase(p, relations, basis, queue, work)
    BY DEF IInv, InPhase
  <2> QED BY <1>3, <1>4, <2>1, Known, DropComposition
<1>9. InPhase'
  BY <1>1, <1>2, <1>5, <1>7, <1>8 DEF IInv, InPhase
<1> QED BY <1>6, <1>9 DEF IInv

\* A relation that leaves something becomes an element.
LEMMA KeepRelationStep ==
  ASSUME IInv, KeepRelation
  PROVE  IInv'
<1> DEFINE J == Ideal(p, Inputs(relations))
<1>1. /\ phase = "relations" /\ Grow /\ work' = NoWork /\ index' = index + 1
      /\ UNCHANGED <<presentation, queue, phase>>
  BY DEF KeepRelation
<1>2. p' = p /\ relations' = relations
  BY <1>1, PresentationStays
<1>3. PICK e : /\ basis' = Append(basis, MakeMonic(p, e)) /\ e.poly = work.poly
               /\ work.poly \in J /\ work.poly # ZeroPoly /\ ~work.idle
               /\ \A k \in DOMAIN basis : LeadAt(basis, k) # LeadOf(work.poly)
  BY <1>1, GrowIs
<1>4. WorkIn(J, work') /\ work'.idle
  BY <1>1, IdleWork
<1>5. BasisIs(p, J, basis') /\ RelationsPhase(p, relations, basis', index + 1, work')
  <2>1. RelationsPhase(p, relations, basis, index, work) /\ DOMAIN relations \in SUBSET Nat
    BY <1>1, Known DEF IInv, InPhase
  <2> QED BY <1>3, <1>4, <2>1, Known, AddRelation
<1>6. index' \in Nat /\ index' # 0
  BY <1>1, Known
<1>7. InIdeal'
  BY <1>1, <1>4, <1>5, <1>6, StaysInIdeal
<1>8. InPhase'
  BY <1>1, <1>2, <1>5, <1>6 DEF IInv, InPhase
<1> QED BY <1>7, <1>8 DEF IInv

\* A round starts with every key; after one that dropped nothing the certificate is
\* next.
LEMMA StartRoundStep ==
  ASSUME IInv, StartRound
  PROVE  IInv'
<1> DEFINE J == Ideal(p, Inputs(relations))
<1>1. /\ BasisIsReady \/ TailIsDone
      /\ UNCHANGED <<presentation, basis, work>> /\ index' = 1
      /\ phase' = IF BasisIsReady THEN "drain" ELSE "membership"
      /\ queue' = Filled(basis, AllPairs(Len(basis)), Len(basis) * Len(basis))
  BY DEF StartRound
<1>2. p' = p /\ relations' = relations
  BY <1>1, PresentationStays
<1>3. phase \in {"relations", "tail"} /\ work.idle /\ queue = {} /\ IsSeq(basis)
  BY <1>1, Known DEF BasisIsReady, TailIsDone, IInv, InPhase, BasisIs
<1>4. queue' = AllKeys(basis)
  BY <1>1, <1>3, RoundFills
<1>5. InIdeal'
  BY <1>1, Known, StaysInIdeal
<1>6. BasisIsReady => \A n \in DOMAIN relations : relations[n] \in Ideal(p, Polynomials(basis))
  <2>1. CASE phase = "relations"
    <3>1. RelationsPhase(p, relations, basis, index, work)
      BY <2>1 DEF IInv, InPhase
    <3>2. BasisIsReady => \A n \in DOMAIN relations : n < index
      BY <2>1, Known DEF BasisIsReady
    <3> QED BY <3>1, <3>2 DEF RelationsPhase
  <2>2. CASE phase = "tail"
    <3>1. Divides(J, basis)
      BY <2>2 DEF IInv, InPhase, TailPhase
    <3> QED BY <3>1, Known, DividesGenerates
  <2> QED BY <1>3, <2>1, <2>2
<1>7. BasisIsReady => DrainPhase(p, relations, basis, queue', work)
  BY <1>3, <1>4, <1>6 DEF DrainPhase
<1>8. ~BasisIsReady => Divides(J, basis)
  BY <1>1 DEF TailIsDone, IInv, InPhase, TailPhase
<1>9. InPhase'
  BY <1>1, <1>2, <1>4, <1>7, <1>8 DEF InPhase
<1> QED BY <1>5, <1>9 DEF IInv

-----------------------------------------------------------------------------
(* The ambiguities.                                                        *)

\* The first key of the queue is in it.
LEMMA FirstKeyIs ==
  ASSUME IInv, phase \in {"drain", "ambiguities"}, queue # {}
  PROVE  /\ FirstKey \in queue /\ FirstKey \in AllKeys(basis) /\ queue \subseteq AllKeys(basis)
         /\ \A other \in queue \ {FirstKey} : LexLess(FirstKey, other)
         /\ CompositionPoly(FirstKey) = CompositionAt(p, basis, FirstKey)
         /\ CompositionPoly(FirstKey) \in Ideal(p, Inputs(relations))
<1>1. queue \subseteq AllKeys(basis)
  BY DEF IInv, InPhase
<1>2. \A key \in queue : key \in Words /\ Len(key) = 4
  BY <1>1, Known, KeyAt
<1>3. \E key \in queue : \A other \in queue : other # key => LexLess(key, other)
  <2>1. queue \in SUBSET {w \in Words : Len(w) = 4}
    BY <1>2
  <2> QED BY <2>1, LexLeast
<1>4. FirstKey \in queue /\ \A other \in queue \ {FirstKey} : LexLess(FirstKey, other)
  BY <1>3 DEF FirstKey
<1>5. FirstKey \in AllKeys(basis)
  BY <1>1, <1>4
<1>6. CompositionPoly(FirstKey) = CompositionAt(p, basis, FirstKey)
  <2>1. \A key : CompositionPoly(key) = CompositionAt(p, basis, key)
    BY DEF CompositionPoly, CompositionAt, Composition, ContextsOf, ContextsAt, Lead, LeadWord, LeadAt, LeadOf
  <2> QED BY <2>1
<1>7. CompositionAt(p, basis, FirstKey) \in Ideal(p, Inputs(relations))
  BY <1>5, Known, CompositionInIdeal
<1> QED BY <1>1, <1>4, <1>5, <1>6, <1>7

\* A composition is taken up.
LEMMA TakeAmbiguityStep ==
  ASSUME IInv, TakeAmbiguity
  PROVE  IInv'
<1> DEFINE J == Ideal(p, Inputs(relations))
<1>1. /\ phase = "drain" /\ work.idle /\ queue # {}
      /\ UNCHANGED <<presentation, basis, phase, index>> /\ queue' = queue \ {FirstKey}
      /\ work' = Work(CompositionPoly(FirstKey), CompositionOrigin(FirstKey))
  BY DEF TakeAmbiguity
<1>2. p' = p /\ relations' = relations
  BY <1>1, PresentationStays
<1>3. PICK key \in AllKeys(basis) : /\ key = FirstKey /\ queue \subseteq AllKeys(basis)
        /\ CompositionPoly(FirstKey) = CompositionAt(p, basis, key)
        /\ CompositionPoly(FirstKey) \in J
  BY <1>1, FirstKeyIs
<1>4. WorkIn(J, work') /\ ~work'.idle /\ work'.poly = CompositionAt(p, basis, key)
  BY <1>1, <1>3, FreshWork
<1>5. InIdeal'
  BY <1>1, <1>4, Known, StaysInIdeal
<1>6. DrainPhase(p, relations, basis, queue \ {key}, work')
  <2>1. DrainPhase(p, relations, basis, queue, work)
    BY <1>1 DEF IInv, InPhase
  <2> QED BY <1>1, <1>4, <2>1, Known, TakeComposition
<1>7. queue' \subseteq AllKeys(basis)
  BY <1>1, <1>3
<1>8. InPhase'
  BY <1>1, <1>2, <1>3, <1>6, <1>7 DEF InPhase
<1> QED BY <1>5, <1>8 DEF IInv

\* A composition that leaves something becomes an element, and its pairs go to the
\* queue.
LEMMA KeepCompositionStep ==
  ASSUME IInv, KeepComposition
  PROVE  IInv'
<1> DEFINE J == Ideal(p, Inputs(relations))
           n == Len(basis')
           S == Filled(basis', NewPairs(n), Len(NewPairs(n)))
<1>1. /\ phase = "drain" /\ Grow /\ work' = NoWork /\ UNCHANGED <<presentation, phase, index>>
      /\ queue' = S
  BY DEF KeepComposition
<1>2. p' = p /\ relations' = relations
  BY <1>1, PresentationStays
<1>3. PICK e : /\ basis' = Append(basis, MakeMonic(p, e)) /\ e.poly = work.poly
               /\ work.poly \in J /\ work.poly # ZeroPoly /\ ~work.idle
               /\ \A k \in DOMAIN basis : LeadAt(basis, k) # LeadOf(work.poly)
  BY <1>1, GrowIs
<1>4. WorkIn(J, work') /\ work'.idle
  BY <1>1, IdleWork
<1>5. DrainPhase(p, relations, basis, queue, work) /\ queue \subseteq AllKeys(basis)
  BY <1>1 DEF IInv, InPhase
<1>6. /\ BasisIs(p, J, basis') /\ DOMAIN basis' = DOMAIN basis \cup {Len(basis) + 1}
      /\ \A k \in DOMAIN basis : basis'[k] = basis[k]
  BY <1>3, Known, BasisGrows
<1>7. queue \subseteq AllKeys(basis')
  BY <1>5, <1>6, Known, KeysGrow
<1>8. IsSeq(basis')
  BY <1>6 DEF BasisIs
<1>9. /\ queue' \subseteq AllKeys(basis') /\ queue \subseteq queue'
      /\ \A k \in DOMAIN basis' :
           KeysOf(basis', n, k) \subseteq queue' /\ KeysOf(basis', k, n) \subseteq queue'
  <2> HIDE DEF n
  <2>1. n = Len(basis')
    BY DEF n
  <2> QED BY <1>1, <1>7, <1>8, <2>1, NewFills
<1>10. DrainPhase(p, relations, basis', queue', work')
  <2> HIDE DEF J, n
  <2>1. IsModulus(p) /\ Invertible(p) /\ IsSpace(p, J) /\ BasisIs(p, J, basis)
    BY Known DEF J
  <2>2. /\ IsNewTo(basis, work.poly) /\ GrowsBy(p, basis, work.poly, basis')
        /\ HasLastKeys(basis', queue') /\ queue \subseteq queue'
    BY <1>3, <1>9 DEF n, GrowsBy, IsNewTo, HasLastKeys
  <2>3. ~work.idle /\ work'.idle /\ work.poly \in J /\ work.poly # ZeroPoly
    BY <1>3, <1>4
  <2> QED BY ONLY <1>5, <2>1, <2>2, <2>3, AddComposition
<1>11. InIdeal'
  BY <1>1, <1>4, <1>6, Known, StaysInIdeal
<1>12. InPhase'
  BY <1>1, <1>2, <1>9, <1>10 DEF InPhase
<1> QED BY <1>11, <1>12 DEF IInv

\* The basis after the queue is empty: what is kept, in the order of its leading
\* words, divides what the basis did.
LEMMA InterreduceIs ==
  ASSUME IInv, Interreduce
  PROVE  /\ BasisIs(p, Ideal(p, Inputs(relations)), basis') /\ LeadsAreApart(basis')
         /\ \A n \in DOMAIN basis' : \E k \in DOMAIN basis : basis'[n] = basis[k]
         /\ \A w \in Words : IsDivided(Polynomials(basis), w) => IsDivided(Polynomials(basis'), w)
<1> DEFINE J == Ideal(p, Inputs(relations))
           kept == {k \in DOMAIN basis : ~IsRedundant(k)}
           L == [k \in DOMAIN basis |-> LeadAt(basis, k)]
<1>1. PICK order :
        /\ order = Sorted(kept, LAMBDA j, k : WordLess(Lead(j), Lead(k)))
        /\ basis' = [n \in DOMAIN order |-> basis[order[n]]]
  BY DEF Interreduce
<1>2. IsModulus(p) /\ BasisIs(p, J, basis)
  BY Known
<1>3. kept = KeptIn(basis)
  BY DEF KeptIn, IsRedundant, IsRedundantIn, LeadWord, LeadAt, LeadOf
<1>4. IsFiniteSet(kept)
  <2>1. DOMAIN basis = 1 .. Len(basis) /\ Len(basis) \in Nat
    BY <1>2, SeqIs DEF BasisIs
  <2>2. IsFiniteSet(DOMAIN basis)
    BY <2>1, FS_Interval
  <2>3. kept \in SUBSET DOMAIN basis
    OBVIOUS
  <2> QED BY <2>2, <2>3, FS_Subset
<1>5. \A k \in kept : L[k] \in Words
  BY <1>2, ElementIs
<1>6. \A j, k \in kept : j # k => L[j] # L[k]
  BY <1>2 DEF BasisIs
<1>7. \A k \in kept : Lead(k) = L[k]
  BY DEF Lead, LeadWord, LeadAt, LeadOf
<1> DEFINE Earlier(x) == {y \in kept : WordLess(Lead(y), Lead(x))}
           Smaller(x) == {y \in kept : WordLess(L[y], L[x])}
<1>8. \A k \in kept : Earlier(k) = Smaller(k)
  BY <1>7
<1>9. /\ DOMAIN order = 1 .. Cardinality(kept)
      /\ \A n \in DOMAIN order : order[n] = CHOOSE x \in kept : Cardinality(Earlier(x)) = n - 1
  BY <1>1 DEF Sorted
<1>10. ASSUME NEW n \in DOMAIN order, NEW x \in kept, Cardinality(Smaller(x)) = n - 1
       PROVE  order[n] \in kept /\ Cardinality(Smaller(order[n])) = n - 1
  <2>1. order[n] = CHOOSE y \in kept : Cardinality(Earlier(y)) = n - 1
    BY <1>9
  <2>2. Cardinality(Earlier(x)) = n - 1
    BY <1>8, <1>10
  <2> HIDE DEF Earlier, Smaller, kept
  <2>3. order[n] \in kept /\ Cardinality(Earlier(order[n])) = n - 1
    BY <2>1, <2>2
  <2> QED BY <1>8, <2>3
<1>11. Cardinality(kept) \in Nat /\ Lists(order, Cardinality(kept), kept)
  <2>1. HaveDistinctWords(kept, L)
    BY <1>5, <1>6 DEF HaveDistinctWords
  <2>2. IsSorting(kept, L, order)
    <3> HIDE DEF kept, L
    <3> QED BY <1>9, <1>10 DEF IsSorting
  <2> HIDE DEF kept, L
  <2> QED BY <1>4, <2>1, <2>2, SortedIs
<1>12. PICK n \in Nat : Lists(order, n, KeptIn(basis))
  <2> HIDE DEF kept
  <2> QED BY <1>3, <1>11
<1>13. PICK c : c = basis' /\ c = [m \in DOMAIN order |-> basis[order[m]]]
  BY <1>1
<1>14. /\ BasisIs(p, J, c) /\ LeadsAreApart(c)
       /\ \A w \in Words : IsDivided(Polynomials(basis), w) => IsDivided(Polynomials(c), w)
  <2> HIDE DEF J
  <2> QED BY ONLY <1>2, <1>12, <1>13, InterreducedIs
<1>15. \A m \in DOMAIN c : \E k \in DOMAIN basis : c[m] = basis[k]
  BY ONLY <1>12, <1>13 DEF Lists, KeptIn
<1> QED BY <1>13, <1>14, <1>15

\* An empty queue makes the basis a Groebner basis, and interreduction keeps it one.
LEMMA InterreduceStep ==
  ASSUME IInv, Interreduce
  PROVE  IInv'
<1> DEFINE J == Ideal(p, Inputs(relations))
<1>1. /\ phase = "drain" /\ work.idle /\ queue = {} /\ phase' = "tail" /\ index' = 1
      /\ UNCHANGED <<presentation, queue, work>>
  BY DEF Interreduce
<1>2. p' = p /\ relations' = relations
  BY <1>1, PresentationStays
<1>3. DrainPhase(p, relations, basis, {}, work)
  BY <1>1 DEF IInv, InPhase
<1>4. Divides(J, basis)
  BY <1>1, <1>3, Known, DrainEnds
<1>5. /\ BasisIs(p, J, basis') /\ LeadsAreApart(basis')
      /\ \A w \in Words : IsDivided(Polynomials(basis), w) => IsDivided(Polynomials(basis'), w)
  BY InterreduceIs
<1>6. Divides(J, basis')
  <2> SUFFICES ASSUME NEW f \in J, f # ZeroPoly PROVE IsDividedAt(basis', LeadOf(f))
    BY DEF Divides
  <2>1. IsDividedAt(basis, LeadOf(f))
    BY <1>4 DEF Divides
  <2>2. LeadOf(f) \in Words
    <3>1. f \in Polys(p) /\ IsModulus(p)
      BY Known DEF IsSpace
    <3> QED BY <3>1, LeadIs
  <2>3. IsDivided(Polynomials(basis), LeadOf(f))
    BY <2>1, <2>2, Known, DividedAt
  <2>4. IsDivided(Polynomials(basis'), LeadOf(f))
    BY <1>5, <2>2, <2>3
  <2>5. IsModulus(p)
    BY Known
  <2> HIDE DEF J
  <2> QED BY <1>5, <2>2, <2>4, <2>5, DividedAt
<1>7. TailPhase(J, basis', index', work')
  BY <1>1, <1>5, <1>6 DEF TailPhase
<1>8. InIdeal'
  BY <1>1, <1>5, Known, StaysInIdeal
<1>9. InPhase'
  BY <1>1, <1>2, <1>7 DEF InPhase
<1> QED BY <1>8, <1>9 DEF IInv

-----------------------------------------------------------------------------
(* The tails.                                                              *)

\* An element is taken up for the reduction of its tail.
LEMMA TakeTailStep ==
  ASSUME IInv, TakeTail
  PROVE  IInv'
<1> DEFINE J == Ideal(p, Inputs(relations))
<1>1. /\ phase = "tail" /\ index \in DOMAIN basis
      /\ UNCHANGED <<presentation, basis, queue, phase, index>>
      /\ work' = Work(basis[index].poly, basis[index].origin)
  BY DEF TakeTail
<1>2. p' = p /\ relations' = relations
  BY <1>1, PresentationStays
<1>3. /\ basis[index].poly \in J /\ basis[index].poly # ZeroPoly
      /\ LeadOf(basis[index].poly) = LeadAt(basis, index) /\ Coef(basis[index].poly, LeadAt(basis, index)) = 1
  BY <1>1, Known DEF BasisIs, LeadAt
<1>4. WorkIn(J, work') /\ ~work'.idle /\ work'.poly = basis[index].poly
  BY <1>1, <1>3, FreshWork
<1>5. InIdeal'
  BY <1>1, <1>4, Known, StaysInIdeal
<1>6. TailPhase(J, basis, index, work')
  BY <1>1, <1>3, <1>4 DEF IInv, InPhase, TailPhase
<1>7. InPhase'
  BY <1>1, <1>2, <1>6 DEF IInv, InPhase
<1> QED BY <1>5, <1>7 DEF IInv

\* A reduced element takes its own place.
LEMMA KeepTailStep ==
  ASSUME IInv, KeepTail
  PROVE  IInv'
<1> DEFINE J == Ideal(p, Inputs(relations))
<1>1. /\ phase = "tail" /\ ~work.idle /\ work' = NoWork /\ index' = index + 1
      /\ UNCHANGED <<presentation, queue, phase>>
      /\ basis' = [basis EXCEPT ![index] = Element(work.poly, work.origin)]
  BY DEF KeepTail, IsReduced
<1>2. p' = p /\ relations' = relations
  BY <1>1, PresentationStays
<1>3. Replaces(basis, index, work.poly, basis')
  <2>1. Element(work.poly, work.origin).poly = work.poly
    BY DEF Element
  <2> QED BY <1>1, <2>1 DEF Replaces
<1>4. WorkIn(J, work') /\ work'.idle
  BY <1>1, IdleWork
<1>5. TailPhase(J, basis, index, work) /\ work.poly \in J
  BY <1>1, WorkIs DEF IInv, InPhase
<1>6. BasisIs(p, J, basis') /\ TailPhase(J, basis', index', work')
  <2>1. IsModulus(p) /\ IsSpace(p, J) /\ BasisIs(p, J, basis)
    BY Known
  <2> HIDE DEF J
  <2> QED BY ONLY <1>1, <1>3, <1>4, <1>5, <2>1, ReplaceTail
<1>7. index' \in Nat
  BY <1>1, Known
<1>8. InIdeal'
  BY <1>1, <1>4, <1>6, <1>7, StaysInIdeal
<1>9. InPhase'
  BY <1>1, <1>2, <1>6 DEF IInv, InPhase
<1> QED BY <1>8, <1>9 DEF IInv

-----------------------------------------------------------------------------
(* The certificate.                                                        *)

\* A relation is taken up for the certificate.
LEMMA TakeMemberStep ==
  ASSUME IInv, TakeMember
  PROVE  IInv'
<1> DEFINE J == Ideal(p, Inputs(relations))
<1>1. /\ phase = "membership" /\ index \in DOMAIN relations
      /\ UNCHANGED <<presentation, basis, queue, phase, index>>
      /\ work' = Work(relations[index], <<>>)
  BY DEF TakeMember
<1>2. p' = p /\ relations' = relations
  BY <1>1, PresentationStays
<1>3. WorkIn(J, work')
  BY <1>1, Known, FreshWork
<1>4. InIdeal'
  BY <1>1, <1>3, Known, StaysInIdeal
<1>5. InPhase'
  BY <1>1, <1>2 DEF IInv, InPhase
<1> QED BY <1>4, <1>5 DEF IInv

\* The relations are done.
LEMMA EndMembershipStep ==
  ASSUME IInv, EndMembership
  PROVE  IInv'
<1>1. /\ phase = "membership" /\ phase' = "ambiguities"
      /\ UNCHANGED <<presentation, basis, queue, work, index>>
  BY DEF EndMembership
<1>2. p' = p /\ relations' = relations
  BY <1>1, PresentationStays
<1>3. InIdeal'
  BY <1>1, Known, StaysInIdeal
<1>4. InPhase'
  BY <1>1, <1>2 DEF IInv, InPhase
<1> QED BY <1>3, <1>4 DEF IInv

\* A composition is taken up for the certificate.
LEMMA TakeEntryStep ==
  ASSUME IInv, TakeEntry
  PROVE  IInv'
<1> DEFINE J == Ideal(p, Inputs(relations))
<1>1. /\ phase = "ambiguities" /\ queue # {} /\ queue' = queue \ {FirstKey}
      /\ UNCHANGED <<presentation, basis, phase, index>>
      /\ work' = [Work(CompositionPoly(FirstKey), <<>>) EXCEPT !.key = FirstKey]
  BY DEF TakeEntry
<1>2. p' = p /\ relations' = relations
  BY <1>1, PresentationStays
<1>3. CompositionPoly(FirstKey) \in J /\ queue \subseteq AllKeys(basis)
  BY <1>1, FirstKeyIs
<1>4. WorkIn(J, work')
  BY <1>1, <1>3, EntryWork
<1>5. InIdeal'
  BY <1>1, <1>4, Known, StaysInIdeal
<1>6. queue' \subseteq AllKeys(basis)
  BY <1>1, <1>3
<1>7. InPhase'
  BY <1>1, <1>2, <1>6 DEF IInv, InPhase
<1> QED BY <1>5, <1>7 DEF IInv

\* A trace is recorded.
LEMMA RecordTraceStep ==
  ASSUME IInv, RecordTrace
  PROVE  IInv'
<1>1. /\ phase \in {"membership", "ambiguities"} /\ work' = NoWork /\ index' = index + 1
      /\ UNCHANGED <<presentation, basis, queue, phase>>
  BY DEF RecordTrace
<1>2. p' = p /\ relations' = relations
  BY <1>1, PresentationStays
<1>3. WorkIn(Ideal(p, Inputs(relations)), work') /\ index' \in Nat
  BY <1>1, IdleWork, Known
<1>4. InIdeal'
  BY <1>1, <1>3, Known, StaysInIdeal
<1>5. InPhase'
  BY <1>1, <1>2 DEF IInv, InPhase
<1> QED BY <1>4, <1>5 DEF IInv

\* The first state satisfies the invariant.
LEMMA Initial ==
  ASSUME Init
  PROVE  IInv
<1>1. IsPresentation(presentation)
  BY JobsAssumption DEF Init
<1>2. /\ basis = <<>> /\ queue = {} /\ work = NoWork /\ phase = "relations" /\ index = 1
  BY DEF Init
<1>3. WorkIn(Ideal(p, Inputs(relations)), work) /\ work.idle
  BY <1>2, IdleWork
<1>4. BasisIs(p, Ideal(p, Inputs(relations)), basis)
  <2>1. IsSeq(<<>>) /\ DOMAIN <<>> = {}
    BY DEF IsSeq
  <2> QED BY <1>2, <2>1 DEF BasisIs
<1>5. DOMAIN relations \in SUBSET Nat /\ \A n \in DOMAIN relations : ~(n < 1)
  <2>1. DOMAIN relations = 1 .. Len(relations) /\ Len(relations) \in Nat
    BY <1>1, InputsAre
  <2> QED BY <2>1
<1>6. RelationsPhase(p, relations, basis, index, work)
  BY <1>2, <1>3, <1>5 DEF RelationsPhase
<1>7. InIdeal
  BY <1>1, <1>2, <1>3, <1>4 DEF InIdeal
<1>8. InPhase
  BY <1>2, <1>6 DEF InPhase
<1> QED BY <1>7, <1>8 DEF IInv

\* Every step keeps the invariant.
LEMMA Inductive ==
  ASSUME IInv, [Next]_vars
  PROVE  IInv'
<1>1. CASE Reduce
  BY <1>1, ReduceStep
<1>2. CASE ExhaustSteps \/ ExhaustOrigin \/ RefuseRelation \/ RefuseElement \/ RefuseRound
           \/ RefuseAmbiguity \/ RefuseWords
  BY <1>2, RefusalStep
<1>3. CASE TakeRelation \/ DropZero \/ KeepRelation
  BY <1>3, TakeRelationStep, DropZeroStep, KeepRelationStep
<1>4. CASE StartRound \/ TakeAmbiguity \/ KeepComposition \/ RefusePairs
  BY <1>4, StartRoundStep, TakeAmbiguityStep, KeepCompositionStep, RefusePairsStep
<1>5. CASE Interreduce \/ TakeTail \/ KeepTail
  BY <1>5, InterreduceStep, TakeTailStep, KeepTailStep
<1>6. CASE TakeMember \/ EndMembership \/ TakeEntry \/ RecordTrace
  BY <1>6, TakeMemberStep, EndMembershipStep, TakeEntryStep, RecordTraceStep
<1>7. CASE EmitWitness \/ EmitWords
  BY <1>7, EmitStep
<1>8. CASE UNCHANGED vars
  BY <1>8, StutterStep
<1> QED BY <1>1, <1>2, <1>3, <1>4, <1>5, <1>6, <1>7, <1>8 DEF Next

\* The invariant of the completion holds in every reachable state, for any valid jobs.
THEOREM Invariance == Spec => []IInv
<1>1. Init => IInv
  BY Initial
<1>2. IInv /\ [Next]_vars => IInv'
  BY Inductive
<1> QED BY <1>1, <1>2, PTL DEF Spec

\* No two elements of the basis ever have the same leading word: what interreduce
\* asserts.
THEOREM LeadsStayDistinct == Spec => []LeadsAreDistinct
BY Invariance, InvariantLeads, PTL

\* Every reduction of a relation or of a composition for the certificate ends in zero:
\* what emit asserts.
THEOREM TracesAlwaysEndInZero == Spec => []TracesEndInZero
BY Invariance, InvariantTraces, PTL

\* Interreduction leaves no leading word inside another, and tail reduction never
\* changes a leading word.
THEOREM TailsOnly == Spec => []ReductionTouchesTails
BY Invariance, InvariantTails, PTL

-----------------------------------------------------------------------------
(* Paths of the quiver.                                                    *)

FirstVertex(Q, w) == Q.arrows[w[1]][1]

LastVertex(Q, w) == Q.arrows[w[Len(w)]][2]

Meet(Q, a, b) == a # EmptyWord /\ b # EmptyWord => LastVertex(Q, a) = FirstVertex(Q, b)

\* the paths of length two or more from one vertex to another
Paths(Q, e) == {w \in Words : Len(w) >= 2 /\ IsPath(Q, w) /\ EndPoints(Q, w) = e}

\* Two words one after the other are a path when both are and they meet.
LEMMA CatPath ==
  ASSUME NEW Q, NEW a \in Words, NEW b \in Words
  PROVE  /\ IsPath(Q, Cat(a, b)) <=> IsPath(Q, a) /\ IsPath(Q, b) /\ Meet(Q, a, b)
         /\ a # EmptyWord => FirstVertex(Q, Cat(a, b)) = FirstVertex(Q, a)
         /\ b # EmptyWord => LastVertex(Q, Cat(a, b)) = LastVertex(Q, b)
<1> DEFINE c == Cat(a, b)
           m == Len(a)
           n == Len(b)
<1>1. /\ m \in Nat /\ n \in Nat /\ Len(c) = m + n
      /\ DOMAIN a = 1 .. m /\ DOMAIN b = 1 .. n /\ DOMAIN c = 1 .. m + n
      /\ \A i \in 1 .. m : c[i] = a[i]
      /\ \A i \in 1 .. n : c[m + i] = b[i]
      /\ (a = EmptyWord <=> m = 0) /\ (b = EmptyWord <=> n = 0)
  BY CatIndex
<1> DEFINE In(w) == \A k \in DOMAIN w : w[k] \in DOMAIN Q.arrows
           Next2(w, k) == Q.arrows[w[k]][2] = Q.arrows[w[k + 1]][1]
           Joined(w) == \A k \in 1 .. Len(w) - 1 : Next2(w, k)
<1> HIDE DEF c, m, n
<1>2. In(c) <=> In(a) /\ In(b)
  <2>1. ASSUME In(c) PROVE In(a) /\ In(b)
    <3>1. ASSUME NEW k \in DOMAIN a PROVE a[k] \in DOMAIN Q.arrows
      <4>1. k \in DOMAIN c /\ c[k] = a[k]
        BY <1>1
      <4> QED BY <2>1, <4>1
    <3>2. ASSUME NEW k \in DOMAIN b PROVE b[k] \in DOMAIN Q.arrows
      <4>1. m + k \in DOMAIN c /\ c[m + k] = b[k]
        BY <1>1
      <4> QED BY <2>1, <4>1
    <3> QED BY <3>1, <3>2
  <2>2. ASSUME In(a), In(b), NEW k \in DOMAIN c PROVE c[k] \in DOMAIN Q.arrows
    <3>1. CASE k \in 1 .. m
      BY <1>1, <2>2, <3>1
    <3>2. CASE k \in m + 1 .. m + n
      <4>1. k - m \in 1 .. n /\ m + (k - m) = k
        BY <1>1, <3>2
      <4>2. c[k] = b[k - m]
        BY <1>1, <4>1
      <4> QED BY <1>1, <2>2, <4>1, <4>2
    <3> QED BY <1>1, <3>1, <3>2
  <2> QED BY <2>1, <2>2
<1>3. \A k \in 1 .. m - 1 : Next2(c, k) <=> Next2(a, k)
  <2>1. ASSUME NEW k \in 1 .. m - 1 PROVE c[k] = a[k] /\ c[k + 1] = a[k + 1]
    BY <1>1
  <2> QED BY <2>1
<1>4. \A k \in 1 .. n - 1 : Next2(c, m + k) <=> Next2(b, k)
  <2>1. ASSUME NEW k \in 1 .. n - 1 PROVE c[m + k] = b[k] /\ c[m + k + 1] = b[k + 1]
    <3>1. k \in 1 .. n /\ k + 1 \in 1 .. n /\ m + (k + 1) = m + k + 1
      BY <1>1
    <3> QED BY <1>1, <3>1
  <2> QED BY <2>1
<1>5. m # 0 /\ n # 0 => (Next2(c, m) <=> LastVertex(Q, a) = FirstVertex(Q, b))
  <2>1. m # 0 /\ n # 0 => c[m] = a[m] /\ c[m + 1] = b[1]
    <3>1. m # 0 /\ n # 0 => m \in 1 .. m /\ 1 \in 1 .. n
      BY <1>1
    <3> QED BY <1>1, <3>1
  <2> QED BY <2>1 DEF LastVertex, FirstVertex, m
<1>6. Joined(c) <=> Joined(a) /\ Joined(b) /\ Meet(Q, a, b)
  <2> DEFINE J(k) == Next2(c, k)
  <2>1. Joined(c) <=> \A k \in 1 .. m + n - 1 : J(k)
    BY <1>1
  <2>2. Joined(a) <=> \A k \in 1 .. m - 1 : J(k)
    BY <1>3 DEF m
  <2>3. Joined(b) <=> \A k \in 1 .. n - 1 : J(m + k)
    BY <1>4 DEF n
  <2>4. Meet(Q, a, b) <=> (m # 0 /\ n # 0 => J(m))
    BY <1>1, <1>5 DEF Meet
  <2> HIDE DEF J, Joined
  <2>5. (\A k \in 1 .. m + n - 1 : J(k)) =>
          (\A k \in 1 .. m - 1 : J(k)) /\ (\A k \in 1 .. n - 1 : J(m + k)) /\ (m # 0 /\ n # 0 => J(m))
    BY <1>1
  <2>6. ASSUME \A k \in 1 .. m - 1 : J(k), \A k \in 1 .. n - 1 : J(m + k), m # 0 /\ n # 0 => J(m),
               NEW k \in 1 .. m + n - 1
        PROVE  J(k)
    <3>1. CASE k \in 1 .. m - 1
      BY <2>6, <3>1
    <3>2. CASE k = m
      BY <1>1, <2>6, <3>2
    <3>3. CASE k > m
      <4>1. k - m \in 1 .. n - 1 /\ m + (k - m) = k
        BY <1>1, <3>3
      <4>2. J(m + (k - m))
        BY <2>6, <4>1
      <4> QED BY <4>1, <4>2
    <3> QED BY <1>1, <3>1, <3>2, <3>3
  <2> QED BY <2>1, <2>2, <2>3, <2>4, <2>5, <2>6
<1>7. IsPath(Q, c) <=> In(c) /\ Joined(c)
  BY DEF IsPath
<1>8. (IsPath(Q, a) <=> In(a) /\ Joined(a)) /\ (IsPath(Q, b) <=> In(b) /\ Joined(b))
  BY DEF IsPath
<1>9. a # EmptyWord => FirstVertex(Q, c) = FirstVertex(Q, a)
  <2>1. a # EmptyWord => c[1] = a[1]
    BY <1>1
  <2> QED BY <2>1 DEF FirstVertex
<1>10. b # EmptyWord => LastVertex(Q, c) = LastVertex(Q, b)
  <2>1. b # EmptyWord => c[Len(c)] = b[Len(b)]
    <3>1. b # EmptyWord => n \in 1 .. n
      BY <1>1
    <3> QED BY <1>1, <3>1 DEF n
  <2> QED BY <2>1 DEF LastVertex
<1> HIDE DEF In, Joined
<1>11. IsPath(Q, c) <=> IsPath(Q, a) /\ IsPath(Q, b) /\ Meet(Q, a, b)
  BY <1>2, <1>6, <1>7, <1>8
<1> QED BY <1>9, <1>10, <1>11 DEF c

\* A path stays one, with the same ends, when a factor is replaced by a parallel path.
LEMMA PutPath ==
  ASSUME NEW Q, NEW e, NEW d, NEW l \in Words, NEW r \in Words, NEW u \in Paths(Q, e), NEW v \in Paths(Q, e),
         Put(l, u, r) \in Paths(Q, d)
  PROVE  Put(l, v, r) \in Paths(Q, d)
<1> DEFINE a == Cat(l, u)
           b == Cat(l, v)
<1>1. /\ u \in Words /\ v \in Words /\ a \in Words /\ b \in Words
      /\ Put(l, u, r) = Cat(a, r) /\ Put(l, v, r) = Cat(b, r)
      /\ Put(l, u, r) \in Words /\ Put(l, v, r) \in Words
  BY CatType, PutIsCat, PutType DEF Paths
<1>2. /\ IsPath(Q, u) /\ IsPath(Q, v) /\ u # EmptyWord /\ v # EmptyWord /\ Len(v) >= 2
      /\ FirstVertex(Q, u) = FirstVertex(Q, v) /\ LastVertex(Q, u) = LastVertex(Q, v)
  <2>1. Len(u) >= 2 /\ Len(v) >= 2 /\ IsPath(Q, u) /\ IsPath(Q, v) /\ EndPoints(Q, u) = EndPoints(Q, v)
    BY DEF Paths
  <2>2. u # EmptyWord /\ v # EmptyWord
    BY <2>1, CatEmpty DEF EmptyWord
  <2>3. FirstVertex(Q, u) = FirstVertex(Q, v) /\ LastVertex(Q, u) = LastVertex(Q, v)
    BY <2>1 DEF EndPoints, FirstVertex, LastVertex
  <2> QED BY <2>1, <2>2, <2>3
<1>3. IsPath(Q, Cat(a, r)) /\ EndPoints(Q, Cat(a, r)) = d
  BY <1>1 DEF Paths
<1>4. a # EmptyWord /\ b # EmptyWord
  <2>1. /\ Len(u) \in Nat /\ Len(v) \in Nat /\ Len(l) \in Nat
        /\ Len(a) = Len(l) + Len(u) /\ Len(b) = Len(l) + Len(v)
        /\ Len(u) # 0 /\ Len(v) # 0
    BY <1>1, <1>2, CatIndex
  <2>2. Len(EmptyWord) = 0
    BY CatEmpty DEF EmptyWord
  <2> HIDE DEF a, b
  <2> QED BY <2>1, <2>2
<1>5. IsPath(Q, a) /\ IsPath(Q, r) /\ Meet(Q, a, r)
  BY <1>1, <1>3, CatPath
<1>6. IsPath(Q, l) /\ IsPath(Q, u) /\ Meet(Q, l, u)
  BY <1>1, <1>5, CatPath
<1>7. Meet(Q, l, v)
  BY <1>2, <1>6 DEF Meet
<1>8. IsPath(Q, b)
  BY <1>1, <1>2, <1>6, <1>7, CatPath
<1>9. LastVertex(Q, a) = LastVertex(Q, b)
  BY <1>1, <1>2, CatPath
<1>10. Meet(Q, b, r)
  BY <1>4, <1>5, <1>9 DEF Meet
<1>11. IsPath(Q, Cat(b, r))
  BY <1>1, <1>5, <1>8, <1>10, CatPath
<1>12. FirstVertex(Q, a) = FirstVertex(Q, b)
  <2>1. CASE l = EmptyWord
    BY <1>1, <1>2, <2>1, CatWithEmpty
  <2>2. CASE l # EmptyWord
    BY <1>1, <2>2, CatPath
  <2> QED BY <2>1, <2>2
<1>13. FirstVertex(Q, Cat(a, r)) = FirstVertex(Q, Cat(b, r))
  <2>1. FirstVertex(Q, Cat(a, r)) = FirstVertex(Q, a) /\ FirstVertex(Q, Cat(b, r)) = FirstVertex(Q, b)
    BY <1>1, <1>4, CatPath
  <2> QED BY <1>12, <2>1
<1>14. LastVertex(Q, Cat(a, r)) = LastVertex(Q, Cat(b, r))
  <2>1. CASE r = EmptyWord
    BY <1>1, <1>9, <2>1, CatWithEmpty
  <2>2. CASE r # EmptyWord
    BY <1>1, <2>2, CatPath
  <2> QED BY <2>1, <2>2
<1>15. EndPoints(Q, Cat(b, r)) = d
  BY <1>3, <1>13, <1>14 DEF EndPoints, FirstVertex, LastVertex
<1>16. Len(Cat(b, r)) >= 2
  <2>1. /\ Len(v) \in Nat /\ Len(l) \in Nat /\ Len(r) \in Nat /\ Len(b) = Len(l) + Len(v)
        /\ Len(Cat(b, r)) = Len(b) + Len(r)
    BY <1>1, CatIndex
  <2> QED BY <1>2, <2>1
<1> HIDE DEF a, b
<1> QED BY <1>1, <1>11, <1>15, <1>16 DEF Paths

\* all words of a polynomial are paths of length two or more from one vertex to another
IsUniform(Q, f) == \E e : DOMAIN f \subseteq Paths(Q, e)

\* The words of a sum of two polynomials with the same ends.
LEMMA UniformSum ==
  ASSUME NEW q, IsModulus(q), NEW Q, NEW e, NEW f \in Polys(q), NEW h \in Polys(q), NEW c \in Int,
         DOMAIN f \subseteq Paths(Q, e), DOMAIN h \subseteq Paths(Q, e)
  PROVE  DOMAIN AddScaled(q, f, c, h) \subseteq Paths(Q, e)
BY SumDomain

\* A multiple by words with one path has paths only, with the same ends.
LEMMA UniformBetween ==
  ASSUME NEW q, IsModulus(q), NEW Q, NEW g \in Polys(q), IsUniform(Q, g), NEW u \in DOMAIN g,
         NEW l \in Words, NEW r \in Words, NEW e, Put(l, u, r) \in Paths(Q, e)
  PROVE  DOMAIN Between(l, g, r) \subseteq Paths(Q, e)
<1>1. PICK d : DOMAIN g \subseteq Paths(Q, d)
  BY DEF IsUniform
<1> SUFFICES ASSUME NEW w \in DOMAIN Between(l, g, r) PROVE w \in Paths(Q, e)
  OBVIOUS
<1>2. PICK v \in DOMAIN g : w = Put(l, v, r)
  BY BetweenDomain
<1>3. u \in Paths(Q, d) /\ v \in Paths(Q, d)
  BY <1>1
<1> QED BY <1>2, <1>3, PutPath

AllUniform(Q, b) == \A k \in DOMAIN b : IsUniform(Q, b[k].poly)

\* A reduction keeps the ends of the words.
LEMMA ReducesUniform ==
  ASSUME NEW q, IsModulus(q), NEW J, NEW b, BasisIs(q, J, b), NEW Q, AllUniform(Q, b),
         NEW U \in SUBSET DOMAIN b, NEW f \in Polys(q), NEW h, ReducesTo(q, b, U, f, h), IsUniform(Q, f)
  PROVE  IsUniform(Q, h)
<1>1. PICK k \in U, l \in Words, r \in Words, c \in Int :
        /\ Put(l, LeadAt(b, k), r) \in DOMAIN f
        /\ h = AddScaled(q, f, c, Between(l, b[k].poly, r))
  BY DEF ReducesTo
<1>2. PICK e : DOMAIN f \subseteq Paths(Q, e)
  BY DEF IsUniform
<1>3. /\ b[k].poly \in Polys(q) /\ b[k].poly # ZeroPoly /\ LeadAt(b, k) = LeadOf(b[k].poly)
      /\ IsUniform(Q, b[k].poly)
  BY ElementIs DEF AllUniform
<1>4. LeadAt(b, k) \in DOMAIN b[k].poly
  BY <1>3, LeadIs
<1>5. DOMAIN Between(l, b[k].poly, r) \subseteq Paths(Q, e)
  BY <1>1, <1>2, <1>3, <1>4, UniformBetween
<1>6. Between(l, b[k].poly, r) \in Polys(q)
  BY <1>3, BetweenType
<1>7. DOMAIN h \subseteq Paths(Q, e)
  BY <1>1, <1>2, <1>5, <1>6, UniformSum
<1> QED BY <1>7 DEF IsUniform

\* Two paths that share the end of one and the beginning of the other make a path.
LEMMA SharedPath ==
  ASSUME NEW Q, NEW u \in Words, NEW x \in Words, NEW v \in Words, x # EmptyWord,
         IsPath(Q, Cat(u, x)), IsPath(Q, Cat(x, v))
  PROVE  IsPath(Q, Cat(Cat(u, x), v))
<1>1. IsPath(Q, v) /\ Meet(Q, x, v)
  BY CatPath
<1>2. LastVertex(Q, Cat(u, x)) = LastVertex(Q, x) /\ Cat(u, x) \in Words
  BY CatPath, CatType
<1>3. Meet(Q, Cat(u, x), v)
  BY <1>1, <1>2 DEF Meet
<1> QED BY <1>1, <1>2, <1>3, CatPath

\* The superposition of a key is a path.
LEMMA TopIsPath ==
  ASSUME NEW q, IsModulus(q), NEW J, NEW b, BasisIs(q, J, b), NEW Q, AllUniform(Q, b),
         NEW key \in AllKeys(b)
  PROVE  TopAt(b, key) \in Paths(Q, EndPoints(Q, TopAt(b, key)))
<1> DEFINE li == LeadAt(b, key[1])
           lj == LeadAt(b, key[2])
           u == ContextsAt(b, key).u
           vi == ContextsAt(b, key).vi
<1>1. /\ key[1] \in DOMAIN b /\ key[2] \in DOMAIN b /\ vi \in Words /\ u \in Words
      /\ Shares(li, lj, u, vi) /\ TopAt(b, key) \in Words
  BY KeyAt
<1>2. TopAt(b, key) = Put(EmptyWord, li, vi)
  BY DEF TopAt
<1>3. \A k \in DOMAIN b : LeadAt(b, k) \in Words /\ Len(LeadAt(b, k)) >= 2 /\ IsPath(Q, LeadAt(b, k))
  <2> SUFFICES ASSUME NEW k \in DOMAIN b
               PROVE  LeadAt(b, k) \in Words /\ Len(LeadAt(b, k)) >= 2 /\ IsPath(Q, LeadAt(b, k))
    OBVIOUS
  <2>1. b[k].poly \in Polys(q) /\ b[k].poly # ZeroPoly /\ LeadAt(b, k) = LeadOf(b[k].poly)
    BY ElementIs
  <2>2. LeadAt(b, k) \in DOMAIN b[k].poly
    BY <2>1, LeadIs
  <2> QED BY <2>2 DEF AllUniform, IsUniform, Paths
<1> HIDE DEF li, lj, u, vi
<1>4. li \in Words /\ lj \in Words /\ Len(li) >= 2 /\ IsPath(Q, li) /\ IsPath(Q, lj)
  BY <1>1, <1>3 DEF li, lj
<1>5. Put(EmptyWord, li, vi) = Cat(li, vi)
  BY <1>1, <1>4, PutIsCat, CatWithEmpty
<1>6. IsPath(Q, Cat(li, vi))
  <2>1. CASE vi = EmptyWord
    BY <1>4, <2>1, CatWithEmpty
  <2>2. CASE \E x \in Words : x # EmptyWord /\ li = Cat(u, x) /\ lj = Cat(x, vi)
    <3>1. PICK x \in Words : x # EmptyWord /\ li = Cat(u, x) /\ lj = Cat(x, vi)
      BY <2>2
    <3> QED BY <1>1, <1>4, <3>1, SharedPath
  <2> QED BY <1>1, <2>1, <2>2 DEF Shares
<1>7. Len(Cat(li, vi)) >= 2
  <2>1. Len(Cat(li, vi)) = Len(li) + Len(vi) /\ Len(li) \in Nat /\ Len(vi) \in Nat
    BY <1>1, <1>4, CatIndex
  <2> QED BY <1>4, <2>1
<1> QED BY <1>1, <1>2, <1>5, <1>6, <1>7 DEF Paths

\* The words of a composition have the ends of its superposition.
LEMMA CompositionUniform ==
  ASSUME NEW q, IsModulus(q), NEW J, NEW b, BasisIs(q, J, b), NEW Q, AllUniform(Q, b),
         NEW key \in AllKeys(b)
  PROVE  IsUniform(Q, CompositionAt(q, b, key))
<1> DEFINE g == b[key[1]].poly
           h == b[key[2]].poly
           vi == ContextsAt(b, key).vi
           u == ContextsAt(b, key).u
           vj == ContextsAt(b, key).vj
           e == EndPoints(Q, TopAt(b, key))
<1>1. /\ key[1] \in DOMAIN b /\ key[2] \in DOMAIN b /\ vi \in Words /\ u \in Words /\ vj \in Words
      /\ TopAt(b, key) = Put(u, LeadAt(b, key[2]), vj)
  BY KeyAt
<1>2. TopAt(b, key) = Put(EmptyWord, LeadAt(b, key[1]), vi)
  BY DEF TopAt
<1>3. TopAt(b, key) \in Paths(Q, e)
  BY TopIsPath
<1>4. /\ g \in Polys(q) /\ LeadAt(b, key[1]) \in DOMAIN g /\ IsUniform(Q, g)
      /\ h \in Polys(q) /\ LeadAt(b, key[2]) \in DOMAIN h /\ IsUniform(Q, h)
  BY <1>1, ElementIs, LeadIs DEF AllUniform
<1>5. CompositionAt(q, b, key) = Composition(q, g, vi, u, h, vj)
  BY DEF CompositionAt
<1> HIDE DEF g, h, vi, u, vj, e
<1>6. DOMAIN Between(EmptyWord, g, vi) \subseteq Paths(Q, e)
  BY <1>1, <1>2, <1>3, <1>4, CatWithEmpty, UniformBetween
<1>7. DOMAIN Between(u, h, vj) \subseteq Paths(Q, e)
  BY <1>1, <1>3, <1>4, UniformBetween
<1>8. Between(EmptyWord, g, vi) \in Polys(q) /\ Between(u, h, vj) \in Polys(q)
  BY <1>1, <1>4, CatWithEmpty, BetweenType
<1>9. CompositionAt(q, b, key) = AddScaled(q, Between(EmptyWord, g, vi), -1, Between(u, h, vj))
  BY <1>1, <1>4, <1>5, CompositionIs
<1>10. DOMAIN CompositionAt(q, b, key) \subseteq Paths(Q, e)
  BY <1>6, <1>7, <1>8, <1>9, UniformSum
<1> QED BY <1>10 DEF IsUniform

\* A multiple by a number has no other words.
LEMMA MonicUniform ==
  ASSUME NEW q, IsModulus(q), NEW Q, NEW e, e.poly \in Polys(q), IsUniform(Q, e.poly)
  PROVE  IsUniform(Q, MakeMonic(q, e).poly)
<1>1. \E c : MakeMonic(q, e).poly = AddScaled(q, ZeroPoly, c, Between(EmptyWord, e.poly, EmptyWord))
  BY AddPolyIs DEF MakeMonic, ZeroPoly, EmptyWord
<1>2. Between(EmptyWord, e.poly, EmptyWord) = e.poly
  BY BetweenNothing
<1>3. DOMAIN MakeMonic(q, e).poly \subseteq DOMAIN e.poly
  <2>1. PICK c : MakeMonic(q, e).poly = AddScaled(q, ZeroPoly, c, e.poly)
    BY <1>1, <1>2
  <2>2. DOMAIN AddScaled(q, ZeroPoly, c, e.poly) \subseteq DOMAIN ZeroPoly \cup DOMAIN e.poly
    BY DEF AddScaled
  <2> QED BY <2>1, <2>2, ZeroIs
<1> QED BY <1>3 DEF IsUniform

-----------------------------------------------------------------------------
(* The paths of a run.                                                     *)

Quiver == [vertices |-> presentation.vertices, arrows |-> presentation.arrows]

\* What a valid presentation says of its relations.
LEMMA RelationsAreUniform ==
  ASSUME IsPresentation(presentation), NEW n \in DOMAIN relations
  PROVE  /\ IsUniform(Quiver, relations[n])
         /\ IsRelation([field |-> p, quiver |-> Quiver], relations[n])
<1> DEFINE f == presentation.relations[n]
           c == [field |-> p, quiver |-> Quiver]
<1>1. /\ DOMAIN f \in SUBSET Words /\ f = [w \in DOMAIN f |-> f[w]]
      /\ IsRelation(c, f) /\ relations[n] = f
  BY DEF IsPresentation, Words, relations, p, Quiver
<1>2. c.quiver = Quiver
  OBVIOUS
<1>3. /\ DOMAIN f # {}
      /\ \A w \in DOMAIN f : Len(w) >= 2 /\ IsPath(c.quiver, w)
      /\ \A w, u \in DOMAIN f : EndPoints(c.quiver, w) = EndPoints(c.quiver, u)
  <2> HIDE DEF f, c
  <2> QED BY <1>1 DEF IsRelation, IsZero
<1>4. PICK u \in DOMAIN f : TRUE
  BY <1>3
<1>5. DOMAIN f \subseteq Paths(Quiver, EndPoints(Quiver, u))
  <2> HIDE DEF f, c
  <2> QED BY <1>1, <1>2, <1>3, <1>4 DEF Paths
<1> QED BY <1>1, <1>5 DEF IsUniform

\* the words of an element, and of what is reduced, are parallel paths
ArePaths == AllUniform(Quiver, basis) /\ (~work.idle => IsUniform(Quiver, work.poly))

\* The first half for a basis that takes a new element.
LEMMA GrowUniform ==
  ASSUME IInv, ArePaths, Grow, phase # "tail"
  PROVE  AllUniform(Quiver, basis')
<1>1. PICK e : /\ basis' = Append(basis, MakeMonic(p, e)) /\ e.poly = work.poly
               /\ work.poly \in Ideal(p, Inputs(relations)) /\ work.poly # ZeroPoly /\ ~work.idle
  BY GrowIs
<1>2. work.poly \in Polys(p) /\ IsModulus(p)
  BY <1>1, WorkIs, Known
<1>3. IsUniform(Quiver, MakeMonic(p, e).poly)
  BY <1>1, <1>2, MonicUniform DEF ArePaths
<1>4. IsSeq(basis)
  BY Known DEF BasisIs
<1>5. PICK m : m = MakeMonic(p, e)
  OBVIOUS
<1>6. /\ DOMAIN basis' = DOMAIN basis \cup {Len(basis) + 1} /\ basis'[Len(basis) + 1] = m
      /\ \A k \in DOMAIN basis : basis'[k] = basis[k]
  BY <1>1, <1>4, <1>5, AppendIs
<1> QED BY <1>3, <1>5, <1>6 DEF AllUniform, ArePaths

\* Every step keeps the words parallel paths.
LEMMA PathsStep ==
  ASSUME IInv, ArePaths, [Next]_vars
  PROVE  ArePaths'
<1>1. presentation' = presentation
  BY DEF Next, vars, Reduce, ExhaustSteps, ExhaustOrigin, TakeRelation, RefuseRelation, DropZero, RefuseElement,
         KeepRelation, StartRound, RefuseRound, TakeAmbiguity, RefuseAmbiguity, KeepComposition, RefusePairs,
         Interreduce, TakeTail, KeepTail, TakeMember, EndMembership, TakeEntry, RecordTrace, EmitWitness,
         EmitWords, RefuseWords, Truncate
<1>2. Quiver' = Quiver
  BY <1>1 DEF Quiver
<1>3. AllUniform(Quiver, basis) /\ (~work.idle => IsUniform(Quiver, work.poly)) /\ NoWork.idle
  BY IdleWork DEF ArePaths
<1>4. ASSUME AllUniform(Quiver, basis'), ~work'.idle => IsUniform(Quiver, work'.poly) PROVE ArePaths'
  BY <1>2, <1>4 DEF ArePaths, AllUniform
<1>5. CASE Reduce
  <2>1. ~work.idle /\ UNCHANGED basis
    BY <1>5 DEF Reduce
  <2>2. /\ IsModulus(p) /\ BasisIs(p, Ideal(p, Inputs(relations)), basis)
        /\ work.poly \in Polys(p) /\ IsWork(work) /\ Usable \in SUBSET DOMAIN basis
    BY <2>1, Known, WorkIs DEF Usable
  <2>3. ReducesTo(p, basis, Usable, work.poly, work'.poly)
    BY <1>5, <2>2, ReduceIs
  <2>4. IsUniform(Quiver, work'.poly)
    BY <1>3, <2>1, <2>2, <2>3, ReducesUniform
  <2> QED BY <1>3, <1>4, <2>1, <2>4
<1>6. CASE ExhaustSteps \/ ExhaustOrigin \/ RefuseRelation \/ RefuseElement \/ RefuseRound
           \/ RefuseAmbiguity \/ RefuseWords \/ DropZero \/ RecordTrace
  <2>1. basis' = basis /\ work' = NoWork
    BY <1>6 DEF ExhaustSteps, ExhaustOrigin, RefuseRelation, RefuseElement, RefuseRound, RefuseAmbiguity,
       RefuseWords, DropZero, RecordTrace, Truncate
  <2> QED BY <1>3, <1>4, <2>1
<1>7. CASE StartRound \/ EndMembership \/ EmitWitness \/ EmitWords \/ UNCHANGED vars
  <2>1. basis' = basis /\ work' = work
    BY <1>7 DEF StartRound, EndMembership, EmitWitness, EmitWords, vars, loop
  <2> QED BY <1>3, <1>4, <2>1
<1>8. CASE KeepRelation \/ KeepComposition \/ RefusePairs
  <2>1. Grow /\ phase # "tail" /\ work' = NoWork
    BY <1>8 DEF KeepRelation, KeepComposition, RefusePairs, Truncate
  <2> QED BY <1>3, <1>4, <2>1, GrowUniform
<1>9. CASE TakeRelation \/ TakeMember
  <2>1. /\ basis' = basis /\ index \in DOMAIN relations
        /\ \E o : work' = Work(relations[index], o)
    BY <1>9 DEF TakeRelation, TakeMember
  <2>2. work'.poly = relations[index]
    BY <2>1 DEF Work
  <2>3. IsUniform(Quiver, work'.poly)
    BY <2>1, <2>2, RelationsAreUniform DEF IInv, InIdeal
  <2> QED BY <1>3, <1>4, <2>1, <2>3
<1>10. CASE TakeAmbiguity \/ TakeEntry
  <2>1. /\ basis' = basis /\ phase \in {"drain", "ambiguities"} /\ queue # {}
        /\ \E o, k : work' = Work(CompositionPoly(FirstKey), o)
                     \/ work' = [Work(CompositionPoly(FirstKey), o) EXCEPT !.key = k]
    BY <1>10 DEF TakeAmbiguity, TakeEntry
  <2>2. work'.poly = CompositionPoly(FirstKey)
    BY <2>1 DEF Work
  <2>3. IsUniform(Quiver, CompositionPoly(FirstKey))
    BY <1>3, <2>1, Known, FirstKeyIs, CompositionUniform
  <2> QED BY <1>3, <1>4, <2>1, <2>2, <2>3
<1>11. CASE Interreduce
  <2>1. work' = work
    BY <1>11 DEF Interreduce
  <2>2. \A n \in DOMAIN basis' : \E k \in DOMAIN basis : basis'[n] = basis[k]
    BY <1>11, InterreduceIs
  <2>3. AllUniform(Quiver, basis')
    BY <1>3, <2>2 DEF AllUniform
  <2> QED BY <1>3, <1>4, <2>1, <2>3
<1>12. CASE TakeTail
  <2>1. basis' = basis /\ index \in DOMAIN basis /\ \E o : work' = Work(basis[index].poly, o)
    BY <1>12 DEF TakeTail
  <2>2. work'.poly = basis[index].poly
    BY <2>1 DEF Work
  <2>3. IsUniform(Quiver, work'.poly)
    BY <1>3, <2>1, <2>2 DEF AllUniform
  <2> QED BY <1>3, <1>4, <2>1, <2>3
<1>13. CASE KeepTail
  <2>1. ~work.idle /\ work' = NoWork /\ \E e : e.poly = work.poly /\ basis' = [basis EXCEPT ![index] = e]
    <3>1. ~work.idle /\ work' = NoWork /\ basis' = [basis EXCEPT ![index] = Element(work.poly, work.origin)]
      BY <1>13 DEF KeepTail, IsReduced
    <3>2. Element(work.poly, work.origin).poly = work.poly
      BY DEF Element
    <3> QED BY <3>1, <3>2
  <2>2. PICK e : e.poly = work.poly /\ basis' = [basis EXCEPT ![index] = e]
    BY <2>1
  <2>3. ASSUME NEW k \in DOMAIN basis' PROVE IsUniform(Quiver, basis'[k].poly)
    <3>1. k \in DOMAIN basis /\ (basis'[k] = e \/ basis'[k] = basis[k])
      BY <2>2, <2>3
    <3> QED BY <1>3, <2>1, <2>2, <3>1 DEF AllUniform
  <2> QED BY <1>3, <1>4, <2>1, <2>3 DEF AllUniform
<1> QED BY <1>5, <1>6, <1>7, <1>8, <1>9, <1>10, <1>11, <1>12, <1>13 DEF Next

-----------------------------------------------------------------------------
(* Tails that are reduced.                                                 *)

\* no word of the elements before i contains a leading word, but for their own ones
Tidy(b, i) ==
  \A k \in DOMAIN b : k < i =>
    \A w \in DOMAIN b[k].poly : \A j \in DOMAIN b :
      Occurrences(w, LeadAt(b, j)) # {} => j = k /\ w = LeadAt(b, k)

\* A reduced tail has no word that contains a leading word but its own one.
LEMMA ReplaceTidy ==
  ASSUME NEW q, IsModulus(q), NEW J, IsSpace(q, J), NEW b, BasisIs(q, J, b), NEW i \in Nat, NEW w,
         ~w.idle, w.poly \in J, TailPhase(J, b, i, w), Tidy(b, i),
         \A u \in DOMAIN w.poly : \A j \in DOMAIN b \ {i} : Occurrences(u, LeadAt(b, j)) = {},
         NEW c, Replaces(b, i, w.poly, c)
  PROVE  Tidy(c, i + 1)
<1>0. PICK e : e.poly = w.poly /\ c = [b EXCEPT ![i] = e]
  BY DEF Replaces
<1>1. /\ i \in DOMAIN b /\ w.poly # ZeroPoly /\ LeadOf(w.poly) = LeadAt(b, i) /\ w.poly \in Polys(q)
  BY DEF TailPhase, IsSpace
<1>2. DOMAIN c = DOMAIN b /\ c[i].poly = w.poly /\ \A k \in DOMAIN b : k # i => c[k] = b[k]
  BY <1>0, <1>1
<1>3. \A k \in DOMAIN b : LeadAt(c, k) = LeadAt(b, k)
  BY <1>1, <1>2 DEF LeadAt
<1>4. DOMAIN b \subseteq Nat
  BY ElementIs
<1> SUFFICES ASSUME NEW k \in DOMAIN b, k < i + 1, NEW u \in DOMAIN c[k].poly, NEW j \in DOMAIN b,
                    Occurrences(u, LeadAt(b, j)) # {}
             PROVE  j = k /\ u = LeadAt(b, k)
  BY <1>2, <1>3 DEF Tidy
<1>5. CASE k = i
  <2>1. u \in DOMAIN w.poly /\ u \in Words /\ LeadAt(b, i) \in Words
    BY <1>1, <1>2, <1>5, CoefIs, LeadIs
  <2>2. j = i
    BY <2>1
  <2>3. u = LeadAt(b, i)
    <3> SUFFICES ASSUME u # LeadAt(b, i) PROVE FALSE
      OBVIOUS
    <3>1. WordLess(LeadAt(b, i), u)
      BY <2>1, <2>2, FactorIsLess
    <3>2. WordLess(u, LeadAt(b, i))
      BY <1>1, <2>1, LeadIs
    <3> QED BY <2>1, <3>1, <3>2, WordOrder
  <2> QED BY <1>5, <2>2, <2>3
<1>6. CASE k # i
  <2>1. k < i /\ u \in DOMAIN b[k].poly
    BY <1>2, <1>4, <1>6
  <2> QED BY <2>1 DEF Tidy
<1> QED BY <1>5, <1>6

AreTidy ==
  /\ phase = "tail" => Tidy(basis, index)
  /\ phase \in {"membership", "ambiguities"} => Tidy(basis, Len(basis) + 1)

\* Every step keeps tidy what is.
LEMMA TidyStep ==
  ASSUME IInv, AreTidy, [Next]_vars
  PROVE  AreTidy'
<1>1. CASE ExhaustSteps \/ ExhaustOrigin \/ RefuseRelation \/ RefuseElement \/ RefuseRound \/ RefuseAmbiguity
           \/ RefuseWords \/ RefusePairs \/ EmitWitness \/ EmitWords
  <2>1. phase' \in {"truncated", "complete"}
    BY <1>1 DEF ExhaustSteps, ExhaustOrigin, RefuseRelation, RefuseElement, RefuseRound, RefuseAmbiguity,
       RefuseWords, RefusePairs, Truncate, EmitWitness, EmitWords
  <2> QED BY <2>1 DEF AreTidy
<1>2. CASE TakeRelation \/ DropZero \/ KeepRelation \/ TakeAmbiguity \/ KeepComposition
  <2>1. phase' \in {"relations", "drain"}
    BY <1>2 DEF TakeRelation, DropZero, KeepRelation, TakeAmbiguity, KeepComposition
  <2> QED BY <2>1 DEF AreTidy
<1>3. CASE Reduce \/ TakeTail \/ UNCHANGED vars
  <2>1. UNCHANGED <<basis, phase, index>>
    BY <1>3 DEF Reduce, TakeTail, vars, loop
  <2> QED BY <2>1 DEF AreTidy
<1>4. CASE TakeMember \/ EndMembership \/ TakeEntry \/ RecordTrace
  <2>1. /\ basis' = basis /\ phase \in {"membership", "ambiguities"}
        /\ phase' \in {"membership", "ambiguities"}
    BY <1>4 DEF TakeMember, EndMembership, TakeEntry, RecordTrace
  <2> QED BY <2>1 DEF AreTidy
<1>5. CASE StartRound
  <2>1. basis' = basis /\ phase' = IF BasisIsReady THEN "drain" ELSE "membership"
    BY <1>5 DEF StartRound
  <2>2. ASSUME ~BasisIsReady PROVE Tidy(basis, Len(basis) + 1)
    <3>1. phase = "tail" /\ index > Len(basis)
      BY <1>5, <2>2 DEF StartRound, TailIsDone
    <3>2. Tidy(basis, index)
      BY <3>1 DEF AreTidy
    <3>3. DOMAIN basis = 1 .. Len(basis) /\ Len(basis) \in Nat /\ index \in Nat
      <4>1. IsSeq(basis) /\ index \in Nat
        BY Known DEF BasisIs
      <4> QED BY <4>1, SeqIs
    <3>4. \A k \in DOMAIN basis : k < index
      BY <3>1, <3>3
    <3> QED BY <3>2, <3>4 DEF Tidy
  <2> QED BY <2>1, <2>2 DEF AreTidy
<1>6. CASE Interreduce
  <2>1. phase' = "tail" /\ index' = 1
    BY <1>6 DEF Interreduce
  <2>2. IsSeq(basis')
    BY <1>6, InterreduceIs DEF BasisIs
  <2>3. \A k \in DOMAIN basis' : ~(k < 1)
    <3>1. DOMAIN basis' = 1 .. Len(basis') /\ Len(basis') \in Nat
      BY <2>2, SeqIs
    <3> QED BY <3>1
  <2>4. Tidy(basis', 1)
    BY <2>3 DEF Tidy
  <2> QED BY <2>1, <2>4 DEF AreTidy
<1>7. CASE KeepTail
  <2>1. /\ phase = "tail" /\ phase' = "tail" /\ index' = index + 1 /\ IsReduced /\ ~work.idle /\ Reducible = {}
        /\ basis' = [basis EXCEPT ![index] = Element(work.poly, work.origin)]
    BY <1>7 DEF KeepTail, IsReduced
  <2>2. Replaces(basis, index, work.poly, basis')
    <3>1. Element(work.poly, work.origin).poly = work.poly
      BY DEF Element
    <3> QED BY <2>1, <3>1 DEF Replaces
  <2>3. /\ TailPhase(Ideal(p, Inputs(relations)), basis, index, work) /\ Tidy(basis, index)
        /\ work.poly \in Ideal(p, Inputs(relations)) /\ work.poly \in Polys(p)
    BY <2>1, WorkIs DEF IInv, InPhase, AreTidy
  <2>4. /\ IsModulus(p) /\ IsSpace(p, Ideal(p, Inputs(relations))) /\ index \in Nat
        /\ BasisIs(p, Ideal(p, Inputs(relations)), basis)
    BY Known
  <2>5. \A u \in DOMAIN work.poly : \A j \in DOMAIN basis \ {index} : Occurrences(u, LeadAt(basis, j)) = {}
    <3>1. Usable = DOMAIN basis \ {index}
      BY <2>1 DEF Usable
    <3>2. \A u \in DOMAIN work.poly : ~\E j \in Usable : Occurrences(u, LeadAt(basis, j)) # {}
      BY <2>1, <2>3, <2>4, ReducibleIs
    <3> QED BY <3>1, <3>2
  <2>6. Tidy(basis', index + 1)
    BY ONLY <2>1, <2>2, <2>3, <2>4, <2>5, ReplaceTidy
  <2> QED BY <2>1, <2>6 DEF AreTidy
<1> QED BY <1>1, <1>2, <1>3, <1>4, <1>5, <1>6, <1>7 DEF Next

-----------------------------------------------------------------------------
(* Traces that replay.                                                     *)

\* the part of a certificate that the replay of a trace reads
Sketch(q, Q, b) == [field |-> q, quiver |-> Q, basis |-> [k \in DOMAIN b |-> b[k].poly]]

\* what a step of a trace leaves
Left(cert, step, f) ==
  AddPoly(cert.field, f, cert.field - f[step.word], step.left, cert.basis[step.basis_index], step.right)

\* the steps lead from one polynomial to another
IsTrail(cert, start, moves, f, L) ==
  /\ L = [n \in 0 .. Len(moves) |-> L[n]] /\ L[0] = start /\ L[Len(moves)] = f
  /\ \A n \in DOMAIN moves : StepHolds(cert, moves[n], L[n - 1]) /\ L[n] = Left(cert, moves[n], L[n - 1])

Traced(cert, start, moves, f) == \E L : IsTrail(cert, start, moves, f, L)

\* No steps lead nowhere.
LEMMA TracedStart ==
  ASSUME NEW cert, NEW f
  PROVE  Traced(cert, f, <<>>, f)
<1> DEFINE L == [n \in 0 .. 0 |-> f]
<1>1. Len(<<>>) = 0 /\ DOMAIN <<>> = {}
  OBVIOUS
<1>2. L = [n \in 0 .. Len(<<>>) |-> L[n]] /\ L[0] = f /\ L[Len(<<>>)] = f
  BY <1>1
<1>3. IsTrail(cert, f, <<>>, f, L)
  <2> HIDE DEF L
  <2> QED BY <1>1, <1>2 DEF IsTrail
<1> QED BY <1>3 DEF Traced

\* One step more.
LEMMA TracedGrows ==
  ASSUME NEW cert, NEW start, NEW moves, IsSeq(moves), NEW f, Traced(cert, start, moves, f),
         NEW step, StepHolds(cert, step, f), NEW h, h = Left(cert, step, f)
  PROVE  Traced(cert, start, Append(moves, step), h)
<1> DEFINE n == Len(moves)
           more == Append(moves, step)
<1>1. PICK L : IsTrail(cert, start, moves, f, L)
  BY DEF Traced
<1>2. /\ n \in Nat /\ DOMAIN moves = 1 .. n /\ Len(more) = n + 1 /\ DOMAIN more = DOMAIN moves \cup {n + 1}
      /\ more[n + 1] = step /\ \A k \in DOMAIN moves : more[k] = moves[k]
  BY SeqIs, AppendIs
<1> HIDE DEF n, more
<1> DEFINE M == [k \in 0 .. n + 1 |-> IF k = n + 1 THEN h ELSE L[k]]
<1>3. /\ L[0] = start /\ L[n] = f
      /\ \A k \in DOMAIN moves : StepHolds(cert, moves[k], L[k - 1]) /\ L[k] = Left(cert, moves[k], L[k - 1])
  BY <1>1 DEF IsTrail, n
<1>4. /\ M = [k \in 0 .. n + 1 |-> M[k]] /\ M[n + 1] = h /\ \A k \in 0 .. n : M[k] = L[k]
  BY <1>2
<1> HIDE DEF M
<1>5. M[0] = start /\ M[n] = f
  <2>1. 0 \in 0 .. n /\ n \in 0 .. n
    BY <1>2
  <2>2. M[0] = L[0] /\ M[n] = L[n]
    BY ONLY <1>4, <2>1
  <2> QED BY <1>3, <2>2
<1>6. ASSUME NEW k \in DOMAIN more
      PROVE  StepHolds(cert, more[k], M[k - 1]) /\ M[k] = Left(cert, more[k], M[k - 1])
  <2>1. CASE k \in DOMAIN moves
    <3>1. k - 1 \in 0 .. n /\ k \in 0 .. n /\ more[k] = moves[k]
      BY <1>2, <2>1
    <3> QED BY <1>3, <1>4, <2>1, <3>1
  <2>2. CASE k = n + 1
    <3>1. k - 1 = n /\ more[k] = step /\ M[k] = h
      BY <1>2, <1>4, <2>2
    <3> QED BY <1>5, <3>1
  <2> QED BY <1>2, <1>6, <2>1, <2>2
<1>7. IsTrail(cert, start, more, h, M)
  BY <1>2, <1>4, <1>5, <1>6 DEF IsTrail
<1> QED BY <1>7 DEF Traced, more

\* Steps that lead to zero are replayed.
LEMMA TracedReplays ==
  ASSUME NEW cert, NEW trace, IsSeq(trace.steps), Traced(cert, trace.start, trace.steps, ZeroPoly)
  PROVE  Replays(cert, trace)
<1> DEFINE n == Len(trace.steps)
           Next1(i, f) == Left(cert, trace.steps[i], f)
           AreLeft(f) == f = [i \in 0 .. n |-> IF i = 0 THEN trace.start ELSE Next1(i, f[i - 1])]
           left == CHOOSE f : AreLeft(f)
<1>1. PICK L : IsTrail(cert, trace.start, trace.steps, ZeroPoly, L)
  BY DEF Traced
<1>2. n \in Nat /\ DOMAIN trace.steps = 1 .. n
  BY SeqIs
<1>3. /\ L = [i \in 0 .. n |-> L[i]] /\ L[0] = trace.start /\ L[n] = ZeroPoly
      /\ \A i \in 1 .. n : StepHolds(cert, trace.steps[i], L[i - 1]) /\ L[i] = Next1(i, L[i - 1])
  BY <1>1, <1>2 DEF IsTrail
<1> HIDE DEF n, Next1
<1>4. AreLeft(L)
  <2>1. \A i \in 0 .. n : L[i] = IF i = 0 THEN trace.start ELSE Next1(i, L[i - 1])
    <3> SUFFICES ASSUME NEW i \in 0 .. n PROVE L[i] = IF i = 0 THEN trace.start ELSE Next1(i, L[i - 1])
      OBVIOUS
    <3>1. i # 0 => i \in 1 .. n
      BY <1>2
    <3> QED BY <1>3, <3>1
  <2> QED BY <1>3, <2>1
<1>5. AreLeft(left)
  <2> HIDE DEF AreLeft
  <2> QED BY <1>4
<1>6. left = L
  <2> DEFINE S == {i \in 0 .. n : left[i] = L[i]}
  <2> HIDE DEF left
  <2>1. \A i \in 0 .. n : left[i] = IF i = 0 THEN trace.start ELSE Next1(i, left[i - 1])
    BY <1>5
  <2>2. 0 \in S
    <3>1. 0 \in 0 .. n
      BY <1>2
    <3> QED BY <1>3, <2>1, <3>1
  <2>3. ASSUME NEW i \in 1 .. n, i - 1 \in S PROVE i \in S
    <3>1. i \in 0 .. n /\ i # 0 /\ left[i - 1] = L[i - 1]
      BY <1>2, <2>3
    <3>2. left[i] = Next1(i, left[i - 1])
      BY <2>1, <3>1
    <3>3. left[i] = L[i]
      BY <1>3, <3>1, <3>2
    <3> QED BY <3>1, <3>3
  <2>4. 0 .. n \subseteq S
    <3> HIDE DEF S
    <3> QED BY <1>2, <2>2, <2>3, IntervalInduction
  <2>5. left = [i \in 0 .. n |-> left[i]]
    BY <1>5
  <2>6. \A i \in 0 .. n : left[i] = L[i]
    BY <2>4
  <2> HIDE DEF S, AreLeft
  <2> QED BY <1>3, <2>5, <2>6
<1>7. Replays(cert, trace) <=>
        /\ \A i \in DOMAIN trace.steps : StepHolds(cert, trace.steps[i], left[i - 1])
        /\ IsZero(left[n])
  BY DEF Replays, Next1, Left, n
<1>8. IsZero(ZeroPoly)
  BY ZeroIs
<1> HIDE DEF left
<1> QED BY <1>2, <1>3, <1>6, <1>7, <1>8

\* a step as it is recorded: what it takes away is a coefficient
IsMove(q, m) ==
  /\ m.coeff \in 1 .. q - 1
  /\ m = [word |-> m.word, basis_index |-> m.basis_index, left |-> m.left, right |-> m.right, coeff |-> m.coeff]

\* The step that a trace records holds, and leaves what the reduction leaves.
LEMMA RecordedStep ==
  ASSUME IInv, ArePaths, Reduce, phase # "tail"
  PROVE  /\ StepHolds(Sketch(p, Quiver, basis), TraceStep(Target), work.poly)
         /\ work'.poly = Left(Sketch(p, Quiver, basis), TraceStep(Target), work.poly)
         /\ IsMove(p, TraceStep(Target))
<1> DEFINE t == Target
           step == TraceStep(Target)
           cert == Sketch(p, Quiver, basis)
           g == basis[t.basis_index].poly
<1>1. ~work.idle /\ Reducible # {}
  BY DEF Reduce
<1>2. /\ IsModulus(p) /\ BasisIs(p, Ideal(p, Inputs(relations)), basis)
      /\ work.poly \in Polys(p) /\ IsWork(work) /\ IsUniform(Quiver, work.poly)
  BY <1>1, Known, WorkIs DEF ArePaths
<1>3. /\ t.word \in Reducible /\ t.basis_index \in DOMAIN basis
      /\ t.left \in Words /\ t.right \in Words
      /\ t.word = Put(t.left, LeadAt(basis, t.basis_index), t.right)
      /\ t.element = basis[t.basis_index] /\ t.factor = p - work.poly[t.word]
  BY <1>1, <1>2, TargetIs
<1>4. t.word \in DOMAIN work.poly
  BY <1>2, <1>3, ReducibleIs
<1>5. /\ step.word = t.word /\ step.basis_index = t.basis_index /\ step.left = t.left /\ step.right = t.right
      /\ step.coeff = work.poly[t.word]
  BY DEF TraceStep
<1>6. /\ g \in Polys(p) /\ g # ZeroPoly /\ LeadAt(basis, t.basis_index) = LeadOf(g) /\ IsUniform(Quiver, g)
  BY <1>2, <1>3, ElementIs DEF ArePaths, AllUniform
<1>7. /\ cert.field = p /\ cert.quiver = Quiver /\ DOMAIN cert.basis = DOMAIN basis
      /\ cert.basis[t.basis_index] = g
  BY <1>3 DEF Sketch
<1>8. work'.poly = AddPoly(p, work.poly, t.factor, t.left, g, t.right)
  <2>1. PICK f, o, s :
          /\ f = AddPoly(p, work.poly, t.factor, t.left, t.element.poly, t.right)
          /\ work' = Changed(work, f, o, s)
    BY DEF Reduce, Changed
  <2>2. work'.poly = f
    BY <1>2, <2>1, WorkChanges
  <2> QED BY <1>3, <2>1, <2>2
<1> HIDE DEF t, step, cert, g
<1>9. work'.poly = Left(cert, step, work.poly)
  BY <1>3, <1>5, <1>7, <1>8 DEF Left
<1>10. Leading(g) = LeadOf(g)
  BY DEF Leading, LeadOf
<1>11. LeadOf(g) \in DOMAIN g /\ DOMAIN g \subseteq Words
  BY <1>2, <1>6, LeadIs, PolyIs
<1>12. PICK e : DOMAIN work.poly \subseteq Paths(Quiver, e)
  BY <1>2 DEF IsUniform
<1>13. DOMAIN Between(t.left, g, t.right) \subseteq Paths(Quiver, e)
  BY <1>2, <1>3, <1>4, <1>6, <1>11, <1>12, UniformBetween
<1>14. ASSUME NEW w \in DOMAIN g
       PROVE  /\ IsPath(Quiver, Put(t.left, w, t.right))
              /\ w # Leading(g) => WordLess(Put(t.left, w, t.right), t.word)
  <2>1. Put(t.left, w, t.right) \in DOMAIN Between(t.left, g, t.right)
    BY <1>2, <1>3, <1>6, BetweenDomain
  <2>2. IsPath(Quiver, Put(t.left, w, t.right))
    BY <1>13, <2>1 DEF Paths
  <2>3. w # LeadOf(g) => WordLess(w, LeadOf(g))
    BY <1>2, <1>6, LeadIs
  <2>4. w # LeadOf(g) => WordLess(Put(t.left, w, t.right), Put(t.left, LeadOf(g), t.right))
    BY <1>3, <1>11, <2>3, PutOrder
  <2> QED BY <1>3, <1>6, <1>10, <2>2, <2>4
<1>15. /\ step.basis_index \in DOMAIN cert.basis
       /\ step.word = Put(step.left, Leading(g), step.right)
       /\ step.word \in DOMAIN work.poly /\ step.coeff = work.poly[step.word]
       /\ \A w \in DOMAIN g : /\ IsPath(cert.quiver, Put(step.left, w, step.right))
                              /\ w # Leading(g) => WordLess(Put(step.left, w, step.right), step.word)
  BY <1>3, <1>4, <1>5, <1>6, <1>7, <1>10, <1>14
<1>16. cert.basis[step.basis_index] = g
  BY <1>5, <1>7
<1>17. StepHolds(cert, step, work.poly)
  BY ONLY <1>15, <1>16 DEF StepHolds, Put
<1>18. step.coeff \in 1 .. p - 1
  BY <1>2, <1>4, <1>5, PolyIs
<1>19. IsMove(p, step)
  <2>1. step = [word |-> t.word, basis_index |-> t.basis_index, left |-> t.left, right |-> t.right,
                coeff |-> work.poly[t.word]]
    BY DEF step, t, TraceStep
  <2> QED BY <1>18, <2>1 DEF IsMove
<1> QED BY <1>9, <1>17, <1>19 DEF cert, step

\* a trace's steps are recorded so
AreCounted(cert, moves) == IsSeq(moves) /\ \A n \in DOMAIN moves : IsMove(cert.field, moves[n])

\* a finished trace, and the one under way
IsShown(cert, trace) == AreCounted(cert, trace.steps) /\ Traced(cert, trace.start, trace.steps, ZeroPoly)

IsTraced(cert, w) == AreCounted(cert, w.steps) /\ Traced(cert, w.start, w.steps, w.poly)

\* A reduction goes on with the trace.
LEMMA ReduceTraces ==
  ASSUME IInv, ArePaths, Reduce, KeepsTrace, IsTraced(Sketch(p, Quiver, basis), work)
  PROVE  IsTraced(Sketch(p, Quiver, basis), work')
<1> DEFINE cert == Sketch(p, Quiver, basis)
           step == TraceStep(Target)
<1>1. ~work.idle /\ phase # "tail"
  BY DEF Reduce, KeepsTrace
<1>2. /\ StepHolds(cert, step, work.poly) /\ work'.poly = Left(cert, step, work.poly)
      /\ IsMove(cert.field, step)
  BY <1>1, RecordedStep DEF Sketch
<1>3. work'.start = work.start /\ work'.steps = Append(work.steps, step)
  BY <1>1, Known, WorkIs, ReduceIs
<1> HIDE DEF cert, step
<1>4. /\ IsSeq(work.steps) /\ Traced(cert, work.start, work.steps, work.poly)
      /\ \A n \in DOMAIN work.steps : IsMove(cert.field, work.steps[n])
  BY DEF IsTraced, AreCounted, cert
<1>5. IsSeq(work'.steps) /\ Traced(cert, work'.start, work'.steps, work'.poly)
  BY <1>2, <1>3, <1>4, AppendIs, TracedGrows
<1>6. \A n \in DOMAIN work'.steps : IsMove(cert.field, work'.steps[n])
  <2> PICK s : s = work.steps /\ IsSeq(s)
    BY <1>4
  <2> PICK t : t = Append(s, step)
    OBVIOUS
  <2>1. /\ DOMAIN t = DOMAIN s \cup {Len(s) + 1} /\ t[Len(s) + 1] = step
        /\ \A k \in DOMAIN s : t[k] = s[k]
    BY AppendIs
  <2> QED BY <1>2, <1>3, <1>4, <2>1
<1> QED BY <1>5, <1>6 DEF IsTraced, AreCounted, cert

\* Work that is taken up has no steps.
LEMMA FreshTraced ==
  ASSUME NEW cert, NEW w, NEW f, w.start = f, w.poly = f, w.steps = <<>>
  PROVE  IsTraced(cert, w)
<1>1. IsSeq(<<>>) /\ DOMAIN <<>> = {}
  BY DEF IsSeq
<1> QED BY <1>1, TracedStart DEF IsTraced, AreCounted

-----------------------------------------------------------------------------
(* The order in which the traces are recorded.                             *)

\* the traces are those of the relations before the index
MembersAre(rels, ts, i, w) ==
  /\ Len(ts) = i - 1 /\ i <= Len(rels) + 1
  /\ \A n \in DOMAIN ts : ts[n].start = rels[n]
  /\ ~w.idle => i \in DOMAIN rels /\ w.start = rels[i]

QueueEntries(rels, ts) == {n \in DOMAIN ts : n > Len(rels)}

\* an entry for a key, and one that comes before everything in a set
IsEntry(q, b, t) == t.key \in AllKeys(b) /\ t.start = CompositionAt(q, b, t.key)

IsBefore(t, Q) == \A key \in Q : LexLess(t.key, key)

\* the traces after those of the relations are those of the ambiguities that have left
\* the queue, in the order of their keys
EntriesAre(q, b, rels, ts, Q, w) ==
  /\ Len(rels) <= Len(ts)
  /\ \A n \in DOMAIN rels : ts[n].start = rels[n]
  /\ \A n \in QueueEntries(rels, ts) : IsEntry(q, b, ts[n]) /\ IsBefore(ts[n], Q)
  /\ \A m, n \in QueueEntries(rels, ts) : m < n => LexLess(ts[m].key, ts[n].key)
  /\ ~w.idle => /\ IsEntry(q, b, w) /\ IsBefore(w, Q)
                /\ \A n \in QueueEntries(rels, ts) : LexLess(ts[n].key, w.key)
  /\ \A key \in AllKeys(b) : \/ key \in Q
                             \/ ~w.idle /\ key = w.key
                             \/ \E n \in QueueEntries(rels, ts) : ts[n].key = key

\* A trace of a relation is recorded.
LEMMA MemberRecorded ==
  ASSUME NEW rels, NEW ts, IsSeq(ts), NEW i \in Nat, NEW w, ~w.idle, NEW v, v.idle,
         DOMAIN rels = 1 .. Len(rels), Len(rels) \in Nat,
         MembersAre(rels, ts, i, w), NEW t, t.start = w.start
  PROVE  MembersAre(rels, Append(ts, t), i + 1, v)
<1>1. /\ Len(ts) = i - 1 /\ i \in DOMAIN rels /\ w.start = rels[i]
      /\ \A n \in DOMAIN ts : ts[n].start = rels[n]
  BY DEF MembersAre
<1> DEFINE more == Append(ts, t)
<1>2. /\ Len(more) = Len(ts) + 1 /\ DOMAIN more = DOMAIN ts \cup {Len(ts) + 1} /\ more[Len(ts) + 1] = t
      /\ \A k \in DOMAIN ts : more[k] = ts[k]
  BY AppendIs
<1> HIDE DEF more
<1>3. Len(ts) + 1 = i /\ i <= Len(rels)
  BY <1>1
<1>4. \A n \in DOMAIN more : more[n].start = rels[n]
  BY <1>1, <1>2, <1>3
<1>5. Len(more) = (i + 1) - 1 /\ i + 1 <= Len(rels) + 1
  BY <1>2, <1>3
<1> QED BY <1>4, <1>5 DEF MembersAre, more

\* The entries start after the relations, with all keys in the queue.
LEMMA EntriesStart ==
  ASSUME NEW q, NEW b, NEW rels, NEW ts, IsSeq(ts), NEW i \in Nat, NEW w, w.idle,
         DOMAIN rels = 1 .. Len(rels), Len(rels) \in Nat,
         MembersAre(rels, ts, i, w), i > Len(rels)
  PROVE  EntriesAre(q, b, rels, ts, AllKeys(b), w)
<1>1. Len(ts) = i - 1 /\ i <= Len(rels) + 1 /\ \A n \in DOMAIN ts : ts[n].start = rels[n]
  BY DEF MembersAre
<1>2. DOMAIN ts = 1 .. Len(ts) /\ Len(ts) \in Nat
  BY SeqIs
<1>3. Len(ts) = Len(rels)
  BY <1>1, <1>2
<1>4. QueueEntries(rels, ts) = {} /\ DOMAIN rels = DOMAIN ts
  BY <1>2, <1>3 DEF QueueEntries
<1> QED BY <1>1, <1>3, <1>4 DEF EntriesAre

\* The first key of the queue is taken.
LEMMA EntryTaken ==
  ASSUME NEW q, NEW b, NEW rels, NEW ts, NEW Q, NEW w, w.idle, EntriesAre(q, b, rels, ts, Q, w),
         NEW v, ~v.idle, IsEntry(q, b, v), v.key \in Q, IsBefore(v, Q \ {v.key})
  PROVE  EntriesAre(q, b, rels, ts, Q \ {v.key}, v)
<1>1. /\ Len(rels) <= Len(ts)
      /\ \A n \in DOMAIN rels : ts[n].start = rels[n]
      /\ \A n \in QueueEntries(rels, ts) : IsEntry(q, b, ts[n]) /\ IsBefore(ts[n], Q)
      /\ \A m, n \in QueueEntries(rels, ts) : m < n => LexLess(ts[m].key, ts[n].key)
      /\ \A key \in AllKeys(b) : key \in Q \/ \E n \in QueueEntries(rels, ts) : ts[n].key = key
  BY DEF EntriesAre
<1>2. \A n \in QueueEntries(rels, ts) : IsBefore(ts[n], Q \ {v.key}) /\ LexLess(ts[n].key, v.key)
  BY <1>1 DEF IsBefore
<1>3. \A key \in AllKeys(b) : \/ key \in Q \ {v.key}
                              \/ ~v.idle /\ key = v.key
                              \/ \E n \in QueueEntries(rels, ts) : ts[n].key = key
  BY <1>1
<1> QED BY <1>1, <1>2, <1>3 DEF EntriesAre

\* Its trace is recorded.
LEMMA EntryRecorded ==
  ASSUME NEW q, NEW b, NEW rels, NEW ts, IsSeq(ts), NEW Q, NEW w, ~w.idle, NEW v, v.idle,
         DOMAIN rels = 1 .. Len(rels), Len(rels) \in Nat,
         EntriesAre(q, b, rels, ts, Q, w), NEW t, t.key = w.key, t.start = w.start
  PROVE  EntriesAre(q, b, rels, Append(ts, t), Q, v)
<1> DEFINE more == Append(ts, t)
           last == Len(ts) + 1
<1>1. /\ Len(rels) <= Len(ts)
      /\ \A n \in DOMAIN rels : ts[n].start = rels[n]
      /\ \A n \in QueueEntries(rels, ts) : IsEntry(q, b, ts[n]) /\ IsBefore(ts[n], Q)
      /\ \A m, n \in QueueEntries(rels, ts) : m < n => LexLess(ts[m].key, ts[n].key)
      /\ IsEntry(q, b, w) /\ IsBefore(w, Q)
      /\ \A n \in QueueEntries(rels, ts) : LexLess(ts[n].key, w.key)
      /\ \A key \in AllKeys(b) : \/ key \in Q \/ key = w.key
                                 \/ \E n \in QueueEntries(rels, ts) : ts[n].key = key
  BY DEF EntriesAre
<1>2. /\ Len(more) = last /\ DOMAIN more = DOMAIN ts \cup {last} /\ more[last] = t
      /\ \A k \in DOMAIN ts : more[k] = ts[k]
      /\ DOMAIN ts = 1 .. Len(ts) /\ Len(ts) \in Nat
  BY AppendIs, SeqIs
<1> HIDE DEF more
<1>3. QueueEntries(rels, more) = QueueEntries(rels, ts) \cup {last}
  BY <1>1, <1>2 DEF QueueEntries
<1>4. \A n \in QueueEntries(rels, ts) : n \in DOMAIN ts /\ more[n] = ts[n] /\ n < last /\ n \in Nat
  BY <1>2 DEF QueueEntries
<1>5. Len(rels) <= Len(more) /\ last \in Nat
  BY <1>1, <1>2
<1>6. \A n \in DOMAIN rels : more[n].start = rels[n]
  <2>1. \A n \in DOMAIN rels : n \in DOMAIN ts
    BY <1>1, <1>2
  <2> QED BY <1>1, <1>2, <2>1
<1>7. IsEntry(q, b, t) /\ IsBefore(t, Q)
  BY <1>1 DEF IsEntry, IsBefore
<1>8. \A n \in QueueEntries(rels, more) : IsEntry(q, b, more[n]) /\ IsBefore(more[n], Q)
  BY <1>1, <1>2, <1>3, <1>4, <1>7
<1>9. ASSUME NEW m \in QueueEntries(rels, more), NEW n \in QueueEntries(rels, more), m < n
      PROVE  LexLess(more[m].key, more[n].key)
  <2>1. m \in QueueEntries(rels, ts)
    <3>1. m # last
      <4>1. n \in Nat /\ n <= last
        BY <1>3, <1>4, <1>5
      <4> QED BY <1>5, <1>9, <4>1
    <3> QED BY <1>3, <3>1
  <2>2. CASE n = last
    BY <1>1, <1>2, <1>4, <2>1, <2>2
  <2>3. CASE n \in QueueEntries(rels, ts)
    BY <1>1, <1>4, <1>9, <2>1, <2>3
  <2> QED BY <1>3, <2>2, <2>3
<1>10. \A key \in AllKeys(b) : key \in Q \/ \E n \in QueueEntries(rels, more) : more[n].key = key
  <2> SUFFICES ASSUME NEW key \in AllKeys(b), key \notin Q
               PROVE  \E n \in QueueEntries(rels, more) : more[n].key = key
    OBVIOUS
  <2>1. CASE key = w.key
    BY <1>2, <1>3, <2>1
  <2>2. CASE \E n \in QueueEntries(rels, ts) : ts[n].key = key
    BY <1>3, <1>4, <2>2
  <2> QED BY <1>1, <2>1, <2>2
<1>11. EntriesAre(q, b, rels, more, Q, v)
  BY <1>5, <1>6, <1>8, <1>9, <1>10 DEF EntriesAre
<1> QED BY <1>11 DEF more

-----------------------------------------------------------------------------
(* What the traces show.                                                   *)

TracesAre(cert, ts, w) ==
  /\ \A n \in DOMAIN ts : IsShown(cert, ts[n])
  /\ ~w.idle => IsTraced(cert, w)

\* what has been recorded for the certificate
AreRecorded ==
  /\ IsSeq(traces)
  /\ phase \in {"relations", "drain", "tail"} => traces = <<>>
  /\ phase \in {"membership", "ambiguities"} => TracesAre(Sketch(p, Quiver, basis), traces, work)
  /\ phase = "membership" => queue = AllKeys(basis) /\ MembersAre(relations, traces, index, work)
  /\ phase = "ambiguities" => EntriesAre(p, basis, relations, traces, queue, work)

\* A finished trace is one more.
LEMMA TraceRecorded ==
  ASSUME NEW cert, NEW ts, IsSeq(ts), NEW w, ~w.idle, NEW v, v.idle, TracesAre(cert, ts, w),
         w.poly = ZeroPoly, NEW t, t.start = w.start, t.steps = w.steps
  PROVE  TracesAre(cert, Append(ts, t), v)
<1> DEFINE more == Append(ts, t)
<1>1. /\ DOMAIN more = DOMAIN ts \cup {Len(ts) + 1} /\ more[Len(ts) + 1] = t
      /\ \A k \in DOMAIN ts : more[k] = ts[k]
  BY AppendIs
<1> HIDE DEF more
<1>2. IsShown(cert, t)
  BY DEF TracesAre, IsTraced, IsShown
<1>3. \A n \in DOMAIN more : IsShown(cert, more[n])
  BY <1>1, <1>2 DEF TracesAre
<1> QED BY <1>3 DEF TracesAre, more

\* A relation is taken up for its trace.
LEMMA TakeMemberRecorded ==
  ASSUME IInv, AreRecorded, TakeMember
  PROVE  AreRecorded'
<1>1. /\ phase = "membership" /\ work.idle /\ index \in DOMAIN relations
      /\ UNCHANGED <<presentation, basis, queue, phase, index, traces>>
      /\ work' = Work(relations[index], <<>>)
  BY DEF TakeMember
<1>2. p' = p /\ relations' = relations /\ Quiver' = Quiver
  BY <1>1, PresentationStays DEF Quiver
<1>3. /\ work'.start = relations[index] /\ work'.poly = relations[index] /\ work'.steps = <<>> /\ ~work'.idle
  BY <1>1 DEF Work
<1>4. TracesAre(Sketch(p, Quiver, basis), traces, work')
  BY <1>1, <1>3, FreshTraced DEF AreRecorded, TracesAre
<1>5. MembersAre(relations, traces, index, work')
  BY <1>1, <1>3 DEF AreRecorded, MembersAre
<1> QED BY <1>1, <1>2, <1>4, <1>5 DEF AreRecorded

\* A composition is taken up for its trace.
LEMMA TakeEntryRecorded ==
  ASSUME IInv, AreRecorded, TakeEntry
  PROVE  AreRecorded'
<1>1. /\ phase = "ambiguities" /\ work.idle /\ queue # {} /\ queue' = queue \ {FirstKey}
      /\ UNCHANGED <<presentation, basis, phase, index, traces>>
      /\ work' = [Work(CompositionPoly(FirstKey), <<>>) EXCEPT !.key = FirstKey]
  BY DEF TakeEntry
<1>2. p' = p /\ relations' = relations /\ Quiver' = Quiver
  BY <1>1, PresentationStays DEF Quiver
<1>3. /\ work'.start = CompositionPoly(FirstKey) /\ work'.poly = CompositionPoly(FirstKey)
      /\ work'.steps = <<>> /\ work'.key = FirstKey /\ ~work'.idle
  BY <1>1 DEF Work
<1>4. /\ FirstKey \in queue /\ FirstKey \in AllKeys(basis)
      /\ \A other \in queue \ {FirstKey} : LexLess(FirstKey, other)
      /\ CompositionPoly(FirstKey) = CompositionAt(p, basis, FirstKey)
  BY <1>1, FirstKeyIs
<1>5. TracesAre(Sketch(p, Quiver, basis), traces, work')
  BY <1>1, <1>3, FreshTraced DEF AreRecorded, TracesAre
<1>6. IsEntry(p, basis, work') /\ work'.key \in queue /\ IsBefore(work', queue \ {work'.key})
  BY <1>3, <1>4 DEF IsEntry, IsBefore
<1>7. EntriesAre(p, basis, relations, traces, queue, work)
  BY <1>1 DEF AreRecorded
<1>8. EntriesAre(p, basis, relations, traces, queue \ {work'.key}, work')
  <2>1. work.idle /\ ~work'.idle
    BY <1>1, <1>3
  <2>2. PICK w : w = work
    OBVIOUS
  <2>3. PICK v : v = work'
    OBVIOUS
  <2>4. EntriesAre(p, basis, relations, traces, queue \ {v.key}, v)
    BY ONLY <1>6, <1>7, <2>1, <2>2, <2>3, EntryTaken
  <2> QED BY <2>3, <2>4
<1> QED BY <1>1, <1>2, <1>3, <1>5, <1>8 DEF AreRecorded

\* A finished trace is recorded.
LEMMA RecordTraceRecorded ==
  ASSUME IInv, AreRecorded, RecordTrace
  PROVE  AreRecorded'
<1> DEFINE t == [key |-> work.key, start |-> work.start, steps |-> work.steps]
<1>1. /\ phase \in {"membership", "ambiguities"} /\ IsReduced /\ ~work.idle
      /\ UNCHANGED <<presentation, basis, queue, phase>>
      /\ traces' = Append(traces, t) /\ work' = NoWork /\ index' = index + 1
  BY DEF RecordTrace, IsReduced
<1>2. p' = p /\ relations' = relations /\ Quiver' = Quiver
  BY <1>1, PresentationStays DEF Quiver
<1>3. t.key = work.key /\ t.start = work.start /\ t.steps = work.steps
  OBVIOUS
<1> HIDE DEF t
<1>4. work.poly = ZeroPoly
  <2>1. IsZero(work.poly)
    BY <1>1, InvariantTraces DEF TracesEndInZero, KeepsTrace
  <2>2. work.poly \in Polys(p)
    BY <1>1, WorkIs
  <2> QED BY <2>1, <2>2, ZeroIs
<1>5. work'.idle /\ IsSeq(traces) /\ IsSeq(traces')
  <2>1. IsSeq(traces)
    BY DEF AreRecorded
  <2> QED BY <1>1, <2>1, AppendIs, IdleWork
<1>6. TracesAre(Sketch(p, Quiver, basis), traces', work')
  <2>1. TracesAre(Sketch(p, Quiver, basis), traces, work)
    BY <1>1 DEF AreRecorded
  <2> QED BY ONLY <1>1, <1>3, <1>4, <1>5, <2>1, TraceRecorded
<1>7. DOMAIN relations = 1 .. Len(relations) /\ Len(relations) \in Nat /\ index \in Nat
  BY Known
<1>8. phase = "membership" => MembersAre(relations, traces', index', work')
  <2>1. phase = "membership" => MembersAre(relations, traces, index, work)
    BY DEF AreRecorded
  <2> QED BY ONLY <1>1, <1>3, <1>5, <1>7, <2>1, MemberRecorded
<1>9. phase = "ambiguities" => EntriesAre(p, basis, relations, traces', queue, work')
  <2>1. phase = "ambiguities" => EntriesAre(p, basis, relations, traces, queue, work)
    BY DEF AreRecorded
  <2> QED BY ONLY <1>1, <1>3, <1>5, <1>7, <2>1, EntryRecorded
<1> QED BY <1>1, <1>2, <1>5, <1>6, <1>8, <1>9 DEF AreRecorded

\* Every step keeps what is recorded true of the basis.
LEMMA RecordedKept ==
  ASSUME IInv, ArePaths, AreRecorded, [Next]_vars
  PROVE  AreRecorded'
<1>1. CASE ExhaustSteps \/ ExhaustOrigin \/ RefuseRelation \/ RefuseElement \/ RefuseRound \/ RefuseAmbiguity
           \/ RefuseWords \/ RefusePairs \/ EmitWitness \/ EmitWords
  <2>1. phase' \in {"truncated", "complete"} /\ traces' = traces
    BY <1>1 DEF ExhaustSteps, ExhaustOrigin, RefuseRelation, RefuseElement, RefuseRound, RefuseAmbiguity,
       RefuseWords, RefusePairs, Truncate, EmitWitness, EmitWords
  <2> QED BY <2>1 DEF AreRecorded
<1>2. CASE TakeRelation \/ DropZero \/ KeepRelation \/ TakeAmbiguity \/ KeepComposition \/ Interreduce
           \/ TakeTail \/ KeepTail
  <2>1. /\ phase \in {"relations", "drain", "tail"} /\ phase' \in {"relations", "drain", "tail"}
        /\ traces' = traces
    BY <1>2 DEF TakeRelation, DropZero, KeepRelation, TakeAmbiguity, KeepComposition, Interreduce,
       TakeTail, KeepTail
  <2> QED BY <2>1 DEF AreRecorded
<1>3. CASE Reduce
  <2>1. ~work.idle /\ UNCHANGED <<presentation, basis, queue, phase, index, traces>>
    BY <1>3 DEF Reduce
  <2>2. p' = p /\ relations' = relations /\ Quiver' = Quiver
    BY <2>1, PresentationStays DEF Quiver
  <2>3. /\ IsModulus(p) /\ BasisIs(p, Ideal(p, Inputs(relations)), basis)
        /\ work.poly \in Polys(p) /\ IsWork(work)
    BY <2>1, Known, WorkIs
  <2>4. IsWork(work') /\ work'.start = work.start /\ work'.key = work.key
    BY <1>3, <2>3, ReduceIs
  <2>5. ~work'.idle
    BY <2>4, WorkHas
  <2>6. phase \in {"membership", "ambiguities"} => TracesAre(Sketch(p, Quiver, basis), traces, work')
    BY <1>3, <2>1, <2>5, ReduceTraces DEF AreRecorded, TracesAre, KeepsTrace
  <2>7. phase = "membership" => queue = AllKeys(basis) /\ MembersAre(relations, traces, index, work')
    BY <2>1, <2>4, <2>5 DEF AreRecorded, MembersAre
  <2>8. phase = "ambiguities" => EntriesAre(p, basis, relations, traces, queue, work')
    <3> SUFFICES ASSUME phase = "ambiguities" PROVE EntriesAre(p, basis, relations, traces, queue, work')
      OBVIOUS
    <3>1. EntriesAre(p, basis, relations, traces, queue, work)
      BY DEF AreRecorded
    <3> QED BY <2>1, <2>4, <2>5, <3>1 DEF EntriesAre, IsEntry, IsBefore
  <2> QED BY <2>1, <2>2, <2>6, <2>7, <2>8 DEF AreRecorded
<1>4. CASE StartRound
  <2>1. /\ phase \in {"relations", "tail"} /\ work.idle /\ UNCHANGED <<presentation, basis, work, traces>>
        /\ index' = 1 /\ phase' = IF BasisIsReady THEN "drain" ELSE "membership"
        /\ queue' = Filled(basis, AllPairs(Len(basis)), Len(basis) * Len(basis))
    BY <1>4 DEF StartRound, BasisIsReady, TailIsDone
  <2>2. p' = p /\ relations' = relations /\ Quiver' = Quiver
    BY <2>1, PresentationStays DEF Quiver
  <2>3. queue = {} /\ IsSeq(basis) /\ traces = <<>>
    BY <2>1, Known DEF IInv, InPhase, BasisIs, AreRecorded
  <2>4. queue' = AllKeys(basis)
    BY <2>1, <2>3, RoundFills
  <2>5. Len(<<>>) = 0 /\ DOMAIN <<>> = {} /\ Len(relations) \in Nat
    BY Known
  <2>6. TracesAre(Sketch(p, Quiver, basis), <<>>, work) /\ MembersAre(relations, <<>>, 1, work)
    BY <2>1, <2>5 DEF TracesAre, MembersAre
  <2> QED BY <2>1, <2>2, <2>3, <2>4, <2>6 DEF AreRecorded
<1>5. CASE TakeMember \/ TakeEntry \/ RecordTrace
  BY <1>5, TakeMemberRecorded, TakeEntryRecorded, RecordTraceRecorded
<1>6. CASE EndMembership
  <2>1. /\ phase = "membership" /\ work.idle /\ index > Len(relations) /\ phase' = "ambiguities"
        /\ UNCHANGED <<presentation, basis, queue, work, index, traces>>
    BY <1>6 DEF EndMembership
  <2>2. p' = p /\ relations' = relations /\ Quiver' = Quiver
    BY <2>1, PresentationStays DEF Quiver
  <2>3. queue = AllKeys(basis) /\ MembersAre(relations, traces, index, work) /\ IsSeq(traces)
    BY <2>1 DEF AreRecorded
  <2>4. DOMAIN relations = 1 .. Len(relations) /\ Len(relations) \in Nat /\ index \in Nat
    BY Known
  <2>5. EntriesAre(p, basis, relations, traces, queue, work)
    BY <2>1, <2>3, <2>4, EntriesStart
  <2> QED BY <2>1, <2>2, <2>5 DEF AreRecorded
<1>7. CASE UNCHANGED vars
  <2>1. UNCHANGED <<presentation, basis, queue, work, phase, index, traces>>
    BY <1>7 DEF vars, loop
  <2>2. p' = p /\ relations' = relations /\ Quiver' = Quiver
    BY <2>1, PresentationStays DEF Quiver
  <2> QED BY <2>1, <2>2 DEF AreRecorded
<1> QED BY <1>1, <1>2, <1>3, <1>4, <1>5, <1>6, <1>7 DEF Next

-----------------------------------------------------------------------------
(* The checks of the verifier.                                             *)

\* a certificate is of a field, a quiver and a basis
IsOf(cert, q, Q, b) ==
  cert.field = q /\ cert.quiver = Q /\ cert.basis = [k \in DOMAIN b |-> b[k].poly]

\* A polynomial with parallel paths is a relation.
LEMMA UniformIsRelation ==
  ASSUME NEW cert, NEW q, IsModulus(q), cert.field = q, NEW f \in Polys(q), f # ZeroPoly,
         IsUniform(cert.quiver, f)
  PROVE  IsRelation(cert, f)
<1>1. PICK e : DOMAIN f \subseteq Paths(cert.quiver, e)
  BY DEF IsUniform
<1>2. ~IsZero(f)
  BY ZeroIs
<1>3. \A w \in DOMAIN f : f[w] \in 1 .. q - 1
  BY PolyIs
<1>4. \A w \in DOMAIN f : Len(w) >= 2 /\ IsPath(cert.quiver, w) /\ EndPoints(cert.quiver, w) = e
  BY <1>1 DEF Paths
<1> QED BY <1>2, <1>3, <1>4 DEF IsRelation

\* The leading words of a certificate's basis.
LEMMA LeadsOfCertificate ==
  ASSUME NEW cert, NEW q, NEW Q, NEW b, IsOf(cert, q, Q, b)
  PROVE  /\ DOMAIN cert.basis = DOMAIN b
         /\ \A k \in DOMAIN b : cert.basis[k] = b[k].poly /\ Leading(cert.basis[k]) = LeadAt(b, k)
BY DEF IsOf, Leading, LeadAt, LeadOf

\* A tidy basis with parallel paths passes the check of the basis.
LEMMA BasisPasses ==
  ASSUME NEW cert, NEW q, IsModulus(q), NEW J, NEW b, BasisIs(q, J, b), IsOf(cert, q, cert.quiver, b),
         AllUniform(cert.quiver, b), Tidy(b, Len(b) + 1)
  PROVE  BasisHolds(cert)
<1>1. /\ DOMAIN cert.basis = DOMAIN b
      /\ \A k \in DOMAIN b : cert.basis[k] = b[k].poly /\ Leading(cert.basis[k]) = LeadAt(b, k)
  BY LeadsOfCertificate
<1>2. DOMAIN b = 1 .. Len(b) /\ Len(b) \in Nat
  BY SeqIs DEF BasisIs
<1>3. ASSUME NEW k \in DOMAIN b
      PROVE  IsRelation(cert, cert.basis[k]) /\ cert.basis[k][Leading(cert.basis[k])] = 1
  <2>1. /\ b[k].poly \in Polys(q) /\ b[k].poly # ZeroPoly /\ Coef(b[k].poly, LeadOf(b[k].poly)) = 1
        /\ LeadAt(b, k) = LeadOf(b[k].poly) /\ IsUniform(cert.quiver, b[k].poly)
    BY ElementIs DEF AllUniform
  <2>2. cert.field = q
    BY DEF IsOf
  <2>3. IsRelation(cert, b[k].poly)
    BY <2>1, <2>2, UniformIsRelation
  <2>4. b[k].poly[LeadAt(b, k)] = 1
    BY <2>1, LeadIs
  <2> QED BY <1>1, <2>3, <2>4
<1>4. ASSUME NEW k \in DOMAIN b, NEW j \in DOMAIN b, NEW w \in DOMAIN b[j].poly,
             Occurrences(w, LeadAt(b, k)) # {}
      PROVE  j = k /\ w = LeadAt(b, k)
  <2>1. j < Len(b) + 1
    BY <1>2
  <2> QED BY <1>4, <2>1 DEF Tidy
<1>5. \A k, j \in DOMAIN b : \A w \in DOMAIN b[j].poly :
        (j = k /\ w = LeadAt(b, k)) \/ Occurrences(w, LeadAt(b, k)) = {}
  BY <1>4
<1>6. \A k, j \in DOMAIN cert.basis : \A w \in DOMAIN cert.basis[j] :
        (j = k /\ w = Leading(cert.basis[k])) \/ Occurrences(w, Leading(cert.basis[k])) = {}
  BY <1>1, <1>5
<1> QED BY <1>1, <1>3, <1>6 DEF BasisHolds

\* The leading words of a tidy basis are not factors of one another.
LEMMA TidyIsApart ==
  ASSUME NEW q, IsModulus(q), NEW J, NEW b, BasisIs(q, J, b), Tidy(b, Len(b) + 1)
  PROVE  AreApart({LeadAt(b, k) : k \in DOMAIN b})
<1>1. DOMAIN b = 1 .. Len(b) /\ Len(b) \in Nat
  BY SeqIs DEF BasisIs
<1> SUFFICES ASSUME NEW j \in DOMAIN b, NEW k \in DOMAIN b, Occurrences(LeadAt(b, j), LeadAt(b, k)) # {}
             PROVE  LeadAt(b, j) = LeadAt(b, k)
  BY DEF AreApart
<1>2. LeadAt(b, j) \in DOMAIN b[j].poly
  BY ElementIs, LeadIs
<1>3. j < Len(b) + 1
  BY <1>1
<1> QED BY <1>2, <1>3 DEF Tidy

AreLeads(F, b) == F = {LeadAt(b, k) : k \in DOMAIN b}

\* The automaton passes.
LEMMA AutomatonPasses ==
  ASSUME NEW pr, NEW cert, NEW q, IsModulus(q), NEW J, NEW b, BasisIs(q, J, b), IsOf(cert, q, cert.quiver, b),
         cert.quiver.vertices = pr.vertices, cert.quiver.arrows = pr.arrows, DOMAIN pr.arrows \subseteq Nat,
         AllUniform(cert.quiver, b), Tidy(b, Len(b) + 1), NEW F, AreLeads(F, b),
         cert.automaton.states = States(pr, F), cert.automaton.transitions = Transitions(pr, F)
  PROVE  AutomatonHolds(cert)
<1>1. LeadingWords(cert) = F
  BY LeadsOfCertificate DEF LeadingWords, AreLeads
<1>2. F \in SUBSET Words
  BY ElementIs DEF AreLeads
<1>3. AreApart(F)
  BY TidyIsApart DEF AreLeads
<1>4. \A w \in F : Len(w) >= 2
  <2> SUFFICES ASSUME NEW k \in DOMAIN b PROVE Len(LeadAt(b, k)) >= 2
    BY DEF AreLeads
  <2>1. LeadAt(b, k) \in DOMAIN b[k].poly
    BY ElementIs, LeadIs
  <2> QED BY <2>1 DEF AllUniform, IsUniform, Paths
<1> QED BY <1>1, <1>2, <1>3, <1>4, AutomatonAgrees

\* the ambiguities of a pair as the verifier enumerates them
OffsetKeys(i, j, li, lj) ==
  {<<i, j, Overlap, offset>> :
     offset \in {o \in 1 .. Len(li) - 1 :
                   /\ Len(li) - o < Len(lj)
                   /\ SubSeq(li, o + 1, Len(li)) = SubSeq(lj, 1, Len(li) - o)}}
  \cup {<<i, j, Inclusion, offset>> :
          offset \in {o \in 0 .. Len(li) - Len(lj) :
                        /\ i # j /\ Len(lj) < Len(li)
                        /\ SubSeq(li, o + 1, o + Len(lj)) = lj}}

\* They are those that the engine enumerates by the length of what the words share.
LEMMA PairsAgree ==
  ASSUME NEW i, NEW j, NEW li \in Words, NEW lj \in Words, i = j => li = lj
  PROVE  OffsetKeys(i, j, li, lj) = PairAmbiguities(i, j, li, lj)
<1> DEFINE n == Len(li)
           m == Len(lj)
           A(o) == <<i, j, Overlap, o>>
           B(o) == <<i, j, Inclusion, o>>
           E(k) == SubSeq(li, n - k + 1, n) = SubSeq(lj, 1, k)
           D(o) == SubSeq(li, o + 1, n) = SubSeq(lj, 1, n - o)
           G(o) == SubSeq(li, o + 1, o + m) = lj
           K == {k \in 1 .. Min({n, m}) - 1 : E(k)}
           O == {o \in 1 .. n - 1 : n - o < m /\ D(o)}
           X == {o \in 0 .. n - m : G(o)}
<1>1. n \in Nat /\ m \in Nat
  BY CatLen
<1>2. \A k \in K : n - k \in O
  <2> SUFFICES ASSUME NEW k \in K PROVE n - k \in O
    OBVIOUS
  <2>1. k \in Nat /\ k >= 1 /\ k <= Min({n, m}) - 1 /\ E(k)
    BY <1>1, MinOfTwo
  <2>2. k < n /\ k < m /\ Min({n, m}) \in Nat
    BY <1>1, <2>1, MinOfTwo, SMTT(30)
  <2>3. n - k \in 1 .. n - 1 /\ n - (n - k) = k /\ (n - k) + 1 = n - k + 1
    BY <1>1, <2>1, <2>2
  <2>4. D(n - k)
    BY <2>1, <2>3
  <2> QED BY <2>2, <2>3, <2>4
<1>3. \A o \in O : n - o \in K /\ n - (n - o) = o
  <2> SUFFICES ASSUME NEW o \in O PROVE n - o \in K /\ n - (n - o) = o
    OBVIOUS
  <2>1. o \in Nat /\ o >= 1 /\ o <= n - 1 /\ n - o < m /\ D(o)
    BY <1>1
  <2>2. n - o \in 1 .. Min({n, m}) - 1 /\ n - (n - o) = o
    BY <1>1, <2>1, MinOfTwo
  <2>3. n - (n - o) + 1 = o + 1
    BY <2>2
  <2>4. E(n - o)
    BY <2>1, <2>3
  <2> QED BY <2>2, <2>4
<1>4. PairAmbiguities(i, j, li, lj) = {A(n - k) : k \in K} \cup {B(o) : o \in IF m < n THEN X ELSE {}}
  BY DEF PairAmbiguities, Occurrences
<1>5. OffsetKeys(i, j, li, lj)
        = {A(o) : o \in O} \cup {B(o) : o \in {o \in 0 .. n - m : i # j /\ m < n /\ G(o)}}
  BY DEF OffsetKeys
<1> HIDE DEF A, B, K, O, X, D, E, G
<1>6. {A(n - k) : k \in K} = {A(o) : o \in O}
  BY <1>2, <1>3
<1>7. {o \in 0 .. n - m : i # j /\ m < n /\ G(o)} = IF m < n THEN X ELSE {}
  <2>1. CASE m < n
    <3>1. i # j
      BY <1>1, <2>1
    <3> QED BY <2>1, <3>1 DEF X
  <2> QED BY <2>1
<1> QED BY <1>4, <1>5, <1>6, <1>7

\* The verifier enumerates the keys of the engine.
LEMMA KeysAgree ==
  ASSUME NEW cert, NEW q, IsModulus(q), NEW J, NEW b, BasisIs(q, J, b), NEW Q, IsOf(cert, q, Q, b)
  PROVE  AmbiguityKeys(cert) = AllKeys(b)
<1> DEFINE W(k) == Leading(cert.basis[k])
<1>1. /\ DOMAIN cert.basis = DOMAIN b
      /\ \A k \in DOMAIN b : W(k) = LeadAt(b, k)
  BY LeadsOfCertificate
<1>2. AmbiguityKeys(cert) =
        UNION {UNION {OffsetKeys(i, j, W(i), W(j)) : j \in DOMAIN cert.basis} : i \in DOMAIN cert.basis}
  BY DEF AmbiguityKeys, OffsetKeys
<1> HIDE DEF W
<1>3. ASSUME NEW i \in DOMAIN b, NEW j \in DOMAIN b
      PROVE  OffsetKeys(i, j, W(i), W(j)) = KeysOf(b, i, j)
  <2>1. LeadAt(b, i) \in Words /\ LeadAt(b, j) \in Words
    BY ElementIs
  <2> QED BY <1>1, <2>1, PairsAgree DEF KeysOf
<1> QED BY <1>1, <1>2, <1>3 DEF AllKeys

\* The verifier composes as the engine does.
LEMMA ComposedAgrees ==
  ASSUME NEW cert, NEW q, IsModulus(q), NEW J, NEW b, BasisIs(q, J, b), NEW Q, IsOf(cert, q, Q, b),
         NEW key \in AllKeys(b)
  PROVE  Composed(cert, key) = CompositionAt(q, b, key)
<1> DEFINE li == LeadAt(b, key[1])
           lj == LeadAt(b, key[2])
           after == IF key[3] = Overlap THEN SubSeq(lj, Len(li) - key[4] + 1, Len(lj)) ELSE <<>>
           beyond == IF key[3] = Overlap THEN <<>> ELSE SubSeq(li, key[4] + Len(lj) + 1, Len(li))
           left == SubSeq(li, 1, key[4])
<1>1. key[1] \in DOMAIN b /\ key[2] \in DOMAIN b
  BY KeyAt
<1>2. /\ cert.basis[key[1]] = b[key[1]].poly /\ cert.basis[key[2]] = b[key[2]].poly
      /\ Leading(cert.basis[key[1]]) = li /\ Leading(cert.basis[key[2]]) = lj /\ cert.field = q
  BY <1>1, LeadsOfCertificate DEF IsOf
<1>3. Composed(cert, key) = Composition(q, b[key[1]].poly, after, left, b[key[2]].poly, beyond)
  BY <1>2 DEF Composed, Composition
<1>4. ContextsAt(b, key).vi = after /\ ContextsAt(b, key).u = left /\ ContextsAt(b, key).vj = beyond
  BY DEF ContextsAt, Contexts
<1> QED BY <1>3, <1>4 DEF CompositionAt

\* The replay of a trace reads the field, the quiver and the basis.
LEMMA ShownReplays ==
  ASSUME NEW cert, NEW q, NEW Q, NEW b, IsOf(cert, q, Q, b), NEW trace, IsShown(Sketch(q, Q, b), trace)
  PROVE  Replays(cert, trace)
<1> DEFINE sketch == Sketch(q, Q, b)
<1>1. /\ sketch.field = cert.field /\ sketch.quiver = cert.quiver /\ sketch.basis = cert.basis
  BY DEF Sketch, IsOf
<1> HIDE DEF sketch
<1>2. ASSUME NEW step, NEW f
      PROVE  /\ StepHolds(sketch, step, f) <=> StepHolds(cert, step, f)
             /\ Left(sketch, step, f) = Left(cert, step, f)
  BY <1>1 DEF StepHolds, Left
<1>3. IsSeq(trace.steps) /\ Traced(sketch, trace.start, trace.steps, ZeroPoly)
  BY DEF IsShown, AreCounted, sketch
<1>4. PICK L : IsTrail(sketch, trace.start, trace.steps, ZeroPoly, L)
  BY <1>3 DEF Traced
<1>5. IsTrail(cert, trace.start, trace.steps, ZeroPoly, L)
  BY <1>2, <1>4 DEF IsTrail
<1> QED BY <1>3, <1>5, TracedReplays DEF Traced

\* The reductions of the relations pass.
LEMMA MembershipPasses ==
  ASSUME NEW cert, NEW q, NEW Q, NEW b, IsOf(cert, q, Q, b), NEW ts, IsSeq(ts), NEW m \in Nat, m <= Len(ts),
         cert.input_relations = [n \in 1 .. m |-> cert.input_relations[n]],
         cert.membership = SubSeq(ts, 1, m),
         \A n \in DOMAIN ts : IsShown(Sketch(q, Q, b), ts[n]),
         \A n \in 1 .. m : ts[n].start = cert.input_relations[n]
  PROVE  MembershipHolds(cert)
<1> DEFINE M == cert.membership
<1>1. Len(cert.input_relations) = m
  BY FunctionIsSeq
<1>2. Len(ts) \in Nat /\ DOMAIN ts = 1 .. Len(ts)
  BY SeqIs
<1>3. M = [n \in 1 .. m |-> ts[n]]
  <2>1. M = [n \in 1 .. m - 1 + 1 |-> ts[1 + n - 1]]
    OBVIOUS
  <2> QED BY <2>1
<1>4. DOMAIN M = 1 .. m /\ Len(M) = m /\ \A n \in 1 .. m : M[n] = ts[n]
  BY <1>3, FunctionIsSeq
<1>5. ASSUME NEW n \in 1 .. m PROVE ts[n].start = cert.input_relations[n] /\ Replays(cert, ts[n])
  <2>1. n \in DOMAIN ts
    BY <1>2
  <2> QED BY <2>1, ShownReplays
<1> QED BY <1>1, <1>4, <1>5 DEF MembershipHolds

\* The reductions of the compositions pass.
LEMMA AmbiguitiesPass ==
  ASSUME NEW cert, NEW q, IsModulus(q), NEW J, NEW b, BasisIs(q, J, b), IsOf(cert, q, cert.quiver, b),
         AllUniform(cert.quiver, b), NEW rels, NEW ts, IsSeq(ts), Len(rels) \in Nat, NEW w, w.idle,
         cert.ambiguities = SubSeq(ts, Len(rels) + 1, Len(ts)),
         \A n \in DOMAIN ts : IsShown(Sketch(q, cert.quiver, b), ts[n]),
         EntriesAre(q, b, rels, ts, {}, w)
  PROVE  AmbiguitiesHold(cert)
<1> DEFINE A == cert.ambiguities
           m == Len(rels)
           l == Len(ts)
<1>1. l \in Nat /\ DOMAIN ts = 1 .. l /\ m \in Nat /\ m <= l
  BY SeqIs DEF EntriesAre
<1>2. l - m \in Nat /\ A = [n \in 1 .. l - m |-> ts[m + n]]
  <2>1. A = [n \in 1 .. l - (m + 1) + 1 |-> ts[m + 1 + n - 1]]
    BY <1>1
  <2>2. l - (m + 1) + 1 = l - m /\ \A n \in 1 .. l - m : m + 1 + n - 1 = m + n
    BY <1>1
  <2> QED BY <1>1, <2>1, <2>2
<1> HIDE DEF A
<1>3. DOMAIN A = 1 .. l - m /\ Len(A) = l - m /\ \A n \in 1 .. l - m : A[n] = ts[m + n]
  BY <1>2, FunctionIsSeq
<1>4. QueueEntries(rels, ts) = {n \in 1 .. l : n > m}
  BY <1>1 DEF QueueEntries
<1> HIDE DEF l, m
<1>5. /\ \A n \in QueueEntries(rels, ts) : IsEntry(q, b, ts[n])
      /\ \A i, n \in QueueEntries(rels, ts) : i < n => LexLess(ts[i].key, ts[n].key)
      /\ \A key \in AllKeys(b) : \E n \in QueueEntries(rels, ts) : ts[n].key = key
  BY DEF EntriesAre
<1>6. \A n \in 1 .. l - m : m + n \in QueueEntries(rels, ts)
  BY <1>1, <1>4
<1>7. \A n \in QueueEntries(rels, ts) : n - m \in 1 .. l - m /\ m + (n - m) = n
  BY <1>1, <1>4
<1>8. AmbiguityKeys(cert) = AllKeys(b)
  BY KeysAgree
<1>9. {A[n].key : n \in DOMAIN A} = AllKeys(b)
  <2>1. ASSUME NEW n \in DOMAIN A PROVE A[n].key \in AllKeys(b)
    BY <1>3, <1>5, <1>6 DEF IsEntry
  <2>2. ASSUME NEW key \in AllKeys(b) PROVE \E n \in DOMAIN A : A[n].key = key
    <3>1. PICK n \in QueueEntries(rels, ts) : ts[n].key = key
      BY <1>5
    <3>2. n - m \in DOMAIN A /\ A[n - m] = ts[n]
      <4>1. n - m \in 1 .. l - m /\ A[n - m] = ts[m + (n - m)]
        BY <1>3, <1>7
      <4> QED BY <1>3, <1>7, <4>1
    <3> QED BY <3>1, <3>2
  <2> QED BY <2>1, <2>2
<1>10. \A n \in 1 .. Len(A) - 1 : LexLess(A[n].key, A[n + 1].key)
  <2> SUFFICES ASSUME NEW n \in 1 .. l - m - 1 PROVE LexLess(A[n].key, A[n + 1].key)
    BY <1>3
  <2>1. n \in 1 .. l - m /\ n + 1 \in 1 .. l - m /\ m + n < m + (n + 1)
    BY <1>1
  <2> QED BY <1>3, <1>5, <1>6, <2>1
<1>11. KeysHold(cert)
  BY <1>8, <1>9, <1>10 DEF KeysHold, A
<1>12. ASSUME NEW n \in DOMAIN A
       PROVE  /\ IsZero(A[n].start) \/ IsRelation(cert, A[n].start)
              /\ A[n].start = Composed(cert, A[n].key) /\ Replays(cert, A[n])
  <2>1. m + n \in DOMAIN ts /\ A[n] = ts[m + n] /\ IsEntry(q, b, ts[m + n])
    BY <1>1, <1>3, <1>4, <1>5, <1>6
  <2>2. A[n].key \in AllKeys(b) /\ A[n].start = CompositionAt(q, b, A[n].key)
    BY <2>1 DEF IsEntry
  <2>3. Replays(cert, A[n])
    BY <2>1, ShownReplays
  <2>4. A[n].start = Composed(cert, A[n].key)
    BY <2>2, ComposedAgrees
  <2>5. A[n].start \in Polys(q) /\ IsUniform(cert.quiver, A[n].start)
    BY <2>2, CompositionAtIs, CompositionUniform
  <2>6. CASE A[n].start = ZeroPoly
    BY <2>3, <2>4, <2>6, ZeroIs
  <2>7. CASE A[n].start # ZeroPoly
    <3>1. cert.field = q
      BY DEF IsOf
    <3>2. IsRelation(cert, A[n].start)
      BY <2>5, <2>7, <3>1, UniformIsRelation
    <3> QED BY <2>3, <2>4, <3>2
  <2> QED BY <2>6, <2>7
<1>13. \A n \in DOMAIN A :
         LET entry == A[n]
             composed == Composed(cert, entry.key)
         IN  /\ IsZero(entry.start) \/ IsRelation(cert, entry.start)
             /\ entry.start \in {composed, AddPoly(cert.field, <<>>, cert.field - 1, <<>>, composed, <<>>)}
             /\ Replays(cert, entry)
  BY <1>12
<1> QED BY <1>11, <1>13 DEF AmbiguitiesHold, A

-----------------------------------------------------------------------------
(* What the verifier accepts.                                              *)

\* all checks but those of the origins and of the normal words
IsAccepted(cert) ==
  /\ RelationsHold(cert) /\ BasisHolds(cert) /\ MembershipHolds(cert) /\ AmbiguitiesHold(cert)
  /\ AutomatonHolds(cert)

\* The certificate that is emitted is accepted.
LEMMA EmittedIsAccepted ==
  ASSUME IInv, ArePaths, AreTidy, AreRecorded, TracesAreDone, NEW words, NEW finiteness, NEW cert,
         cert = Emitted(words, finiteness)
  PROVE  IsAccepted(cert)
<1>1. phase = "ambiguities" /\ work.idle /\ queue = {}
  BY DEF TracesAreDone
<1>2. /\ cert.field = p /\ cert.quiver = Quiver /\ cert.input_relations = relations
      /\ cert.basis = [k \in DOMAIN basis |-> basis[k].poly]
      /\ cert.membership = SubSeq(traces, 1, Len(relations))
      /\ cert.ambiguities = SubSeq(traces, Len(relations) + 1, Len(traces))
      /\ cert.automaton.states = States(presentation, Leads)
      /\ cert.automaton.transitions = Transitions(presentation, Leads)
  BY DEF Emitted, Quiver
<1>3. /\ cert.quiver.vertices = presentation.vertices /\ cert.quiver.arrows = presentation.arrows
  BY <1>2 DEF Quiver
<1>4. /\ IsModulus(p) /\ BasisIs(p, Ideal(p, Inputs(relations)), basis)
      /\ DOMAIN relations = 1 .. Len(relations) /\ Len(relations) \in Nat
      /\ IsPresentation(presentation)
  BY Known DEF IInv, InIdeal
<1>5. IsOf(cert, p, cert.quiver, basis) /\ IsOf(cert, p, Quiver, basis)
  BY <1>2 DEF IsOf
<1>6. AllUniform(cert.quiver, basis) /\ Tidy(basis, Len(basis) + 1)
  BY <1>1, <1>2 DEF ArePaths, AreTidy
<1>7. /\ IsSeq(traces) /\ \A n \in DOMAIN traces : IsShown(Sketch(p, cert.quiver, basis), traces[n])
      /\ EntriesAre(p, basis, relations, traces, {}, work)
  BY <1>1, <1>2 DEF AreRecorded, TracesAre
<1>8. BasisHolds(cert)
  BY <1>4, <1>5, <1>6, BasisPasses
<1>9. AmbiguitiesHold(cert)
  BY <1>1, <1>2, <1>4, <1>5, <1>6, <1>7, AmbiguitiesPass
<1>10. MembershipHolds(cert)
  <2>1. relations = [n \in 1 .. Len(relations) |-> relations[n]]
    BY <1>4 DEF IsPresentation, IsSeq, relations
  <2>2. Len(relations) <= Len(traces) /\ \A n \in DOMAIN relations : traces[n].start = relations[n]
    BY <1>7 DEF EntriesAre
  <2> QED BY <1>2, <1>4, <1>5, <1>7, <2>1, <2>2, MembershipPasses, SMTT(30)
<1>11. AutomatonHolds(cert)
  <2>1. Leads = {LeadAt(basis, k) : k \in DOMAIN basis}
    BY DEF Leads, LeadWord, LeadAt, LeadOf
  <2>2. DOMAIN presentation.arrows \subseteq Nat
    BY <1>4 DEF IsPresentation
  <2>3. PICK F : F = Leads
    OBVIOUS
  <2>4. PICK pr : pr = presentation
    OBVIOUS
  <2>5. PICK J : J = Ideal(p, Inputs(relations))
    OBVIOUS
  <2>6. /\ cert.quiver.vertices = pr.vertices /\ cert.quiver.arrows = pr.arrows
        /\ DOMAIN pr.arrows \subseteq Nat
        /\ AreLeads(F, basis)
        /\ cert.automaton.states = States(pr, F) /\ cert.automaton.transitions = Transitions(pr, F)
        /\ IsModulus(p) /\ BasisIs(p, J, basis) /\ IsOf(cert, p, cert.quiver, basis)
        /\ AllUniform(cert.quiver, basis) /\ Tidy(basis, Len(basis) + 1)
    BY <1>2, <1>3, <1>4, <1>5, <1>6, <2>1, <2>2, <2>3, <2>4, <2>5 DEF AreLeads
  <2> QED BY ONLY <2>6, AutomatonPasses
<1>12. RelationsHold(cert)
  <2> SUFFICES ASSUME NEW n \in DOMAIN relations PROVE IsRelation(cert, relations[n])
    BY <1>2 DEF RelationsHold
  <2>1. IsRelation([field |-> p, quiver |-> Quiver], relations[n])
    BY <1>4, RelationsAreUniform
  <2>2. PICK c : c = [field |-> p, quiver |-> Quiver]
    OBVIOUS
  <2>3. c.field = cert.field /\ c.quiver = cert.quiver /\ IsRelation(c, relations[n])
    BY <1>2, <2>1, <2>2
  <2> QED BY <2>3 DEF IsRelation
<1> QED BY <1>8, <1>9, <1>10, <1>11, <1>12 DEF IsAccepted

-----------------------------------------------------------------------------
(* What an origin keeps.                                                   *)

\* a polynomial is what its origin expands to; its words, and those of every term of
\* the origin, are paths with the same ends
KeptAt(q, rels, Q, e, o, f) ==
  /\ IsOrigin(q, rels, o) /\ f = Expanded(q, rels, o) /\ DOMAIN f \subseteq Paths(Q, e)
  /\ \A t \in DOMAIN o : DOMAIN OriginTerms(rels)[t] \subseteq Paths(Q, e)

IsKept(q, rels, Q, o, f) == \E e : KeptAt(q, rels, Q, e, o, f)

\* A multiple by words, one path of which is known, has paths with the same ends.
LEMMA PathsBetween ==
  ASSUME NEW q, IsModulus(q), NEW Q, NEW d, NEW e, NEW g \in Polys(q), DOMAIN g \subseteq Paths(Q, d),
         NEW l \in Words, NEW r \in Words, NEW u \in Paths(Q, d), Put(l, u, r) \in Paths(Q, e)
  PROVE  DOMAIN Between(l, g, r) \subseteq Paths(Q, e)
<1> SUFFICES ASSUME NEW w \in DOMAIN Between(l, g, r) PROVE w \in Paths(Q, e)
  OBVIOUS
<1>1. PICK v \in DOMAIN g : w = Put(l, v, r)
  BY BetweenDomain
<1>2. v \in Paths(Q, d)
  BY <1>1
<1> QED BY <1>1, <1>2, PutPath

\* Zero is kept by the origin without terms.
LEMMA KeptZero ==
  ASSUME NEW q, IsModulus(q), NEW rels, ArePolys(q, rels), NEW Q, NEW e
  PROVE  KeptAt(q, rels, Q, e, ZeroPoly, ZeroPoly)
<1>1. IsOrigin(q, rels, ZeroPoly) /\ DOMAIN ZeroPoly = {}
  BY NoOrigin DEF IsOrigin
<1>2. Expanded(q, rels, ZeroPoly) = ZeroPoly
  BY <1>1, OriginExpands, ExpansionType DEF Expanded
<1> QED BY <1>1, <1>2 DEF KeptAt

\* The terms of an origin between words.
LEMMA OriginBetweenTerm ==
  ASSUME NEW l, NEW r, NEW o, NEW k \in DOMAIN OriginBetween(l, o, r)
  PROVE  \E t \in DOMAIN o : k = Shift(l, t, r)
<1> DEFINE D == {Shift(l, t, r) : t \in DOMAIN o}
<1>1. DOMAIN OriginBetween(l, o, r) = D
  <2>1. D = {<<t[1], l \o t[2], t[3] \o r>> : t \in DOMAIN o}
    BY DEF Shift, Cat
  <2> QED BY <2>1 DEF OriginBetween
<1> QED BY <1>1

\* A multiple of what is kept, added to what is kept with the same ends, is kept.
LEMMA KeptSum ==
  ASSUME NEW q, IsModulus(q), NEW rels, ArePolys(q, rels), NEW Q,
         NEW e, NEW o, NEW f, KeptAt(q, rels, Q, e, o, f),
         NEW d, NEW s, NEW g, KeptAt(q, rels, Q, d, s, g),
         NEW c \in Int, NEW l \in Words, NEW r \in Words, NEW u \in Paths(Q, d),
         Put(l, u, r) \in Paths(Q, e)
  PROVE  KeptAt(q, rels, Q, e, AddOrigin(q, o, c, l, s, r), AddPoly(q, f, c, l, g, r))
<1>1. /\ IsOrigin(q, rels, o) /\ f = Expanded(q, rels, o) /\ DOMAIN f \subseteq Paths(Q, e)
      /\ IsOrigin(q, rels, s) /\ g = Expanded(q, rels, s) /\ DOMAIN g \subseteq Paths(Q, d)
      /\ \A t \in DOMAIN o : DOMAIN OriginTerms(rels)[t] \subseteq Paths(Q, e)
      /\ \A t \in DOMAIN s : DOMAIN OriginTerms(rels)[t] \subseteq Paths(Q, d)
  BY DEF KeptAt
<1>2. PICK a, b : a = AddOrigin(q, o, c, l, s, r) /\ b = AddPoly(q, f, c, l, g, r)
  OBVIOUS
<1>3. f \in Polys(q) /\ g \in Polys(q)
  BY <1>1, OriginExpands
<1>4. IsOrigin(q, rels, a) /\ DOMAIN a \subseteq DOMAIN o \cup DOMAIN OriginBetween(l, s, r)
  BY <1>1, <1>2, AddOriginIs
<1>5. b = Expanded(q, rels, a)
  BY <1>1, <1>2, ExpansionShifts
<1>6. DOMAIN b \subseteq Paths(Q, e)
  <2>1. DOMAIN Between(l, g, r) \subseteq Paths(Q, e) /\ Between(l, g, r) \in Polys(q)
    BY <1>1, <1>3, PathsBetween, BetweenType
  <2>2. b = AddScaled(q, f, c, Between(l, g, r))
    BY <1>2, AddPolyIs
  <2> QED BY <1>1, <1>3, <2>1, <2>2, UniformSum
<1>7. ASSUME NEW t \in DOMAIN a PROVE DOMAIN OriginTerms(rels)[t] \subseteq Paths(Q, e)
  <2>1. CASE t \in DOMAIN o
    BY <1>1, <2>1
  <2>2. CASE t \in DOMAIN OriginBetween(l, s, r)
    <3>2. PICK v \in DOMAIN s : t = Shift(l, v, r)
      BY <2>2, OriginBetweenTerm
    <3>3. v \in Triples(rels)
      BY <1>1, <3>2 DEF IsOrigin
    <3>4. OriginTerms(rels)[v] \in Polys(q) /\ OriginTerms(rels)[t] = Between(l, OriginTerms(rels)[v], r)
      BY <3>2, <3>3, TermShifts
    <3>5. DOMAIN OriginTerms(rels)[v] \subseteq Paths(Q, d)
      BY <1>1, <3>2
    <3>6. DOMAIN Between(l, OriginTerms(rels)[v], r) \subseteq Paths(Q, e)
      BY <3>4, <3>5, PathsBetween
    <3> QED BY <3>4, <3>6
  <2> QED BY <1>4, <2>1, <2>2
<1>8. KeptAt(q, rels, Q, e, a, b)
  BY <1>4, <1>5, <1>6, <1>7 DEF KeptAt
<1> QED BY <1>2, <1>8

\* What an input relation is kept by.
LEMMA KeptInput ==
  ASSUME NEW q, IsModulus(q), NEW rels, ArePolys(q, rels), NEW Q, NEW n \in DOMAIN rels,
         IsUniform(Q, rels[n])
  PROVE  IsKept(q, rels, Q, InputOrigin(n), rels[n])
<1>1. PICK e : DOMAIN rels[n] \subseteq Paths(Q, e)
  BY DEF IsUniform
<1>2. PICK t : t = <<n, EmptyWord, EmptyWord>>
  OBVIOUS
<1>3. rels[n] \in Polys(q) /\ EmptyWord \in Words
  BY CatWithEmpty DEF ArePolys
<1>4. t \in Triples(rels) /\ t[1] = n /\ t[2] = EmptyWord /\ t[3] = EmptyWord
  BY <1>2, <1>3, TripleIs
<1>5. OriginTerms(rels)[t] = rels[n]
  <2>1. OriginTerms(rels)[t] = Between(t[2], rels[t[1]], t[3])
    BY <1>4 DEF OriginTerms
  <2> QED BY <1>3, <1>4, <2>1, BetweenNothing
<1>6. PICK o : o = InputOrigin(n)
  OBVIOUS
<1>7. o = [k \in {t} |-> 1]
  BY <1>2, <1>6 DEF InputOrigin, EmptyWord
<1>8. IsOrigin(q, rels, o)
  <2>1. IsFiniteSet({t}) /\ DOMAIN o = {t} /\ o[t] = 1
    BY <1>7, FS_Singleton
  <2>2. 1 \in 1 .. q - 1
    BY DEF IsModulus
  <2>3. o = [k \in DOMAIN o |-> o[k]]
    BY <1>7
  <2> QED BY <1>4, <2>1, <2>2, <2>3 DEF IsOrigin, IsSparse
<1>9. Expandable(q, Triples(rels), o, OriginTerms(rels))
  BY <1>8, OriginExpands
<1>10. /\ Expandable(q, Triples(rels), Without(o, t), OriginTerms(rels))
       /\ Expanded(q, rels, o) = AddScaled(q, Expansion(q, Without(o, t), OriginTerms(rels)), Coef(o, t),
            rels[n])
  BY <1>4, <1>5, <1>9, ExpansionWithout DEF Expanded
<1>11. Expansion(q, Without(o, t), OriginTerms(rels)) = ZeroPoly
  <2>1. DOMAIN Without(o, t) = {}
    BY <1>7 DEF Without, Only
  <2> QED BY <1>10, <2>1, ExpansionType
<1>12. Expanded(q, rels, o) = rels[n]
  <2>1. Coef(o, t) = 1
    BY <1>7 DEF Coef
  <2> QED BY <1>3, <1>10, <1>11, <2>1, OnePlus
<1>13. \A k \in DOMAIN o : DOMAIN OriginTerms(rels)[k] \subseteq Paths(Q, e)
  <2>1. DOMAIN o = {t}
    BY <1>7
  <2> QED BY <1>1, <1>5, <2>1
<1>14. KeptAt(q, rels, Q, e, o, rels[n])
  BY <1>1, <1>8, <1>12, <1>13 DEF KeptAt
<1> QED BY <1>6, <1>14 DEF IsKept

\* A multiple by a number of what is kept is kept.
LEMMA KeptMultiple ==
  ASSUME NEW q, IsModulus(q), NEW rels, ArePolys(q, rels), NEW Q, NEW o, NEW f, IsKept(q, rels, Q, o, f),
         f # ZeroPoly, NEW c \in Int
  PROVE  IsKept(q, rels, Q, AddOrigin(q, ZeroPoly, c, EmptyWord, o, EmptyWord),
                AddPoly(q, ZeroPoly, c, EmptyWord, f, EmptyWord))
<1>1. PICK e : KeptAt(q, rels, Q, e, o, f)
  BY DEF IsKept
<1>2. DOMAIN f \subseteq Paths(Q, e) /\ f \in Polys(q)
  BY <1>1, OriginExpands DEF KeptAt
<1>3. PICK u \in DOMAIN f : TRUE
  BY <1>2, LeadIs
<1>4. u \in Paths(Q, e) /\ u \in Words
  BY <1>2, <1>3 DEF Paths
<1>5. Put(EmptyWord, u, EmptyWord) \in Paths(Q, e) /\ EmptyWord \in Words
  BY <1>4, PutEmpty, CatWithEmpty
<1>6. KeptAt(q, rels, Q, e, ZeroPoly, ZeroPoly)
  BY KeptZero
<1>7. KeptAt(q, rels, Q, e, AddOrigin(q, ZeroPoly, c, EmptyWord, o, EmptyWord),
             AddPoly(q, ZeroPoly, c, EmptyWord, f, EmptyWord))
  BY <1>1, <1>4, <1>5, <1>6, KeptSum
<1> QED BY <1>7 DEF IsKept

\* MakeMonic keeps what it is given.
LEMMA KeptMonic ==
  ASSUME NEW q, IsModulus(q), Invertible(q), NEW rels, ArePolys(q, rels), NEW Q,
         NEW e, IsKept(q, rels, Q, e.origin, e.poly), e.poly \in Polys(q), e.poly # ZeroPoly
  PROVE  IsKept(q, rels, Q, MakeMonic(q, e).origin, MakeMonic(q, e).poly)
<1> DEFINE w == LeadOf(e.poly)
           c == CHOOSE b \in 1 .. q - 1 : (b * e.poly[w]) % q = 1
<1>1. e.poly[w] \in 1 .. q - 1
  BY LeadIs
<1>2. c \in Int
  BY <1>1 DEF Invertible
<1>3. w = LeadWord(e)
  BY DEF LeadOf, LeadWord
<1>4. /\ MakeMonic(q, e).poly = AddPoly(q, <<>>, c, <<>>, e.poly, <<>>)
      /\ MakeMonic(q, e).origin = AddOrigin(q, <<>>, c, <<>>, e.origin, <<>>)
  BY <1>3 DEF MakeMonic
<1> HIDE DEF c
<1>5. IsKept(q, rels, Q, AddOrigin(q, ZeroPoly, c, EmptyWord, e.origin, EmptyWord),
             AddPoly(q, ZeroPoly, c, EmptyWord, e.poly, EmptyWord))
  BY <1>2, KeptMultiple
<1>6. ZeroPoly = <<>> /\ EmptyWord = <<>>
  BY DEF ZeroPoly, EmptyWord
<1> QED BY <1>4, <1>5, <1>6

AllKept(q, rels, Q, b) == \A k \in DOMAIN b : IsKept(q, rels, Q, b[k].origin, b[k].poly)

WorkKept(q, rels, Q, w) == ~w.idle => IsKept(q, rels, Q, w.origin, w.poly)

\* a reduction keeps what is kept
LEMMA ReduceKept ==
  ASSUME NEW q, IsModulus(q), NEW rels, ArePolys(q, rels), NEW Q, NEW J, NEW b, BasisIs(q, J, b),
         AllKept(q, rels, Q, b), NEW o, NEW f, IsKept(q, rels, Q, o, f),
         NEW k \in DOMAIN b, NEW c \in Int, NEW l \in Words, NEW r \in Words,
         Put(l, LeadAt(b, k), r) \in DOMAIN f
  PROVE  IsKept(q, rels, Q, AddOrigin(q, o, c, l, b[k].origin, r), AddPoly(q, f, c, l, b[k].poly, r))
<1>1. PICK e : KeptAt(q, rels, Q, e, o, f)
  BY DEF IsKept
<1>2. PICK s, g : s = b[k].origin /\ g = b[k].poly
  OBVIOUS
<1>3. PICK d : KeptAt(q, rels, Q, d, s, g)
  BY <1>2 DEF AllKept, IsKept
<1>4. PICK u : u = LeadAt(b, k)
  OBVIOUS
<1>5. u \in DOMAIN g
  <2>1. g \in Polys(q) /\ g # ZeroPoly /\ u = LeadOf(g)
    BY <1>2, <1>4, ElementIs
  <2> QED BY <2>1, LeadIs
<1>6. u \in Paths(Q, d) /\ Put(l, u, r) \in Paths(Q, e)
  BY <1>1, <1>3, <1>4, <1>5 DEF KeptAt
<1>7. KeptAt(q, rels, Q, e, AddOrigin(q, o, c, l, s, r), AddPoly(q, f, c, l, g, r))
  BY <1>1, <1>3, <1>6, KeptSum
<1> QED BY <1>2, <1>7 DEF IsKept

\* The composition of a key.
LEMMA CompositionKept ==
  ASSUME NEW q, IsModulus(q), NEW rels, ArePolys(q, rels), NEW Q, NEW J, NEW b, BasisIs(q, J, b),
         AllKept(q, rels, Q, b), AllUniform(Q, b), NEW key \in AllKeys(b), NEW vi, NEW u, NEW vj,
         vi = ContextsAt(b, key).vi, u = ContextsAt(b, key).u, vj = ContextsAt(b, key).vj,
         NEW o, NEW f, o = AddOrigin(q, ZeroPoly, 1, EmptyWord, b[key[1]].origin, vi),
         f = AddPoly(q, ZeroPoly, 1, EmptyWord, b[key[1]].poly, vi)
  PROVE  IsKept(q, rels, Q, AddOrigin(q, o, q - 1, u, b[key[2]].origin, vj),
                AddPoly(q, f, q - 1, u, b[key[2]].poly, vj))
<1>1. /\ key[1] \in DOMAIN b /\ key[2] \in DOMAIN b /\ vi \in Words /\ u \in Words /\ vj \in Words
      /\ TopAt(b, key) = Put(u, LeadAt(b, key[2]), vj)
  BY KeyAt
<1>2. TopAt(b, key) = Put(EmptyWord, LeadAt(b, key[1]), vi)
  BY DEF TopAt
<1>3. PICK e : TopAt(b, key) \in Paths(Q, e)
  BY TopIsPath
<1>4. \A k \in DOMAIN b : LeadAt(b, k) \in DOMAIN b[k].poly
  BY ElementIs, LeadIs
<1>5. ASSUME NEW k \in DOMAIN b
      PROVE  \E d : KeptAt(q, rels, Q, d, b[k].origin, b[k].poly) /\ LeadAt(b, k) \in Paths(Q, d)
  <2>1. PICK d : KeptAt(q, rels, Q, d, b[k].origin, b[k].poly)
    BY DEF AllKept, IsKept
  <2>2. LeadAt(b, k) \in Paths(Q, d)
    BY <1>4, <2>1 DEF KeptAt
  <2> QED BY <2>1, <2>2
<1>6. PICK i, j : i = key[1] /\ j = key[2]
  OBVIOUS
<1>7. PICK d : KeptAt(q, rels, Q, d, b[i].origin, b[i].poly) /\ LeadAt(b, i) \in Paths(Q, d)
  BY <1>1, <1>5, <1>6
<1>8. PICK d2 : KeptAt(q, rels, Q, d2, b[j].origin, b[j].poly) /\ LeadAt(b, j) \in Paths(Q, d2)
  BY <1>1, <1>5, <1>6
<1>9. KeptAt(q, rels, Q, e, ZeroPoly, ZeroPoly) /\ 1 \in Int /\ q - 1 \in Int /\ EmptyWord \in Words
  BY KeptZero, CatWithEmpty DEF IsModulus
<1>10. KeptAt(q, rels, Q, e, o, f)
  <2>1. o = AddOrigin(q, ZeroPoly, 1, EmptyWord, b[i].origin, vi)
        /\ f = AddPoly(q, ZeroPoly, 1, EmptyWord, b[i].poly, vi)
    BY <1>6
  <2>2. Put(EmptyWord, LeadAt(b, i), vi) \in Paths(Q, e)
    BY <1>2, <1>3, <1>6
  <2> QED BY <1>1, <1>7, <1>9, <2>1, <2>2, KeptSum
<1>11. Put(u, LeadAt(b, j), vj) \in Paths(Q, e)
  BY <1>1, <1>3, <1>6
<1>12. KeptAt(q, rels, Q, e, AddOrigin(q, o, q - 1, u, b[j].origin, vj),
              AddPoly(q, f, q - 1, u, b[j].poly, vj))
  BY <1>1, <1>8, <1>9, <1>10, <1>11, KeptSum
<1> QED BY <1>6, <1>12 DEF IsKept

\* each element, and what is reduced to become one, is what its origin expands to
OriginsKept ==
  /\ AllKept(p, relations, Quiver, basis)
  /\ KeepsOrigin => WorkKept(p, relations, Quiver, work)

\* The relations are polynomials.
LEMMA RelationsArePolys ==
  ASSUME IInv
  PROVE  IsModulus(p) /\ Invertible(p) /\ ArePolys(p, relations)
BY Known DEF ArePolys

\* What a reduction makes of the origin.
LEMMA OriginReduced ==
  ASSUME IInv, Reduce, KeepsOrigin
  PROVE  /\ work'.poly = AddPoly(p, work.poly, Target.factor, Target.left, Target.element.poly, Target.right)
         /\ work'.origin = AddOrigin(p, work.origin, Target.factor, Target.left, Target.element.origin,
                                     Target.right)
<1>1. IsWork(work)
  BY WorkIs DEF Reduce
<1>2. PICK f, o, s :
        /\ f = AddPoly(p, work.poly, Target.factor, Target.left, Target.element.poly, Target.right)
        /\ o = AddOrigin(p, work.origin, Target.factor, Target.left, Target.element.origin, Target.right)
        /\ work' = Changed(work, f, o, s)
  BY DEF Reduce, Changed
<1>3. work'.poly = f
  BY <1>1, <1>2, WorkChanges
<1>4. work'.origin = o
  <2>1. "origin" \in DOMAIN work
    BY <1>1, WorkHas
  <2> QED BY <1>2, <2>1 DEF Changed
<1> QED BY <1>2, <1>3, <1>4

\* The reduction keeps the origin.
LEMMA ReduceOrigins ==
  ASSUME IInv, OriginsKept, Reduce, KeepsOrigin
  PROVE  WorkKept(p, relations, Quiver, work')
<1>1. ~work.idle /\ Reducible # {}
  BY DEF Reduce
<1>2. /\ IsModulus(p) /\ BasisIs(p, Ideal(p, Inputs(relations)), basis) /\ ArePolys(p, relations)
      /\ work.poly \in Polys(p)
  BY <1>1, Known, WorkIs, RelationsArePolys
<1>3. /\ Target.word \in Reducible /\ Target.basis_index \in DOMAIN basis
      /\ Target.left \in Words /\ Target.right \in Words
      /\ Target.word = Put(Target.left, LeadAt(basis, Target.basis_index), Target.right)
      /\ Target.element = basis[Target.basis_index] /\ Target.factor \in Int
  BY <1>1, <1>2, TargetIs
<1>4. Target.word \in DOMAIN work.poly
  BY <1>3 DEF Reducible
<1>5. PICK k, c : k = Target.basis_index /\ c = Target.factor
  OBVIOUS
<1>6. PICK l, r : l = Target.left /\ r = Target.right
  OBVIOUS
<1>7. PICK o, f : o = work.origin /\ f = work.poly
  OBVIOUS
<1>8. /\ work'.poly = AddPoly(p, f, c, l, basis[k].poly, r)
      /\ work'.origin = AddOrigin(p, o, c, l, basis[k].origin, r)
  BY <1>3, <1>5, <1>6, <1>7, OriginReduced
<1>9. /\ k \in DOMAIN basis /\ c \in Int /\ l \in Words /\ r \in Words
      /\ Put(l, LeadAt(basis, k), r) \in DOMAIN f
  BY <1>3, <1>4, <1>5, <1>6, <1>7
<1>10. AllKept(p, relations, Quiver, basis) /\ IsKept(p, relations, Quiver, o, f)
  BY <1>1, <1>7 DEF OriginsKept, WorkKept
<1>11. IsKept(p, relations, Quiver, AddOrigin(p, o, c, l, basis[k].origin, r),
              AddPoly(p, f, c, l, basis[k].poly, r))
  BY ONLY <1>2, <1>9, <1>10, ReduceKept
<1> QED BY <1>8, <1>11 DEF WorkKept

\* So does the composition of the first key.
LEMMA FirstKeyKept ==
  ASSUME IInv, ArePaths, OriginsKept, phase = "drain", queue # {}
  PROVE  IsKept(p, relations, Quiver, CompositionOrigin(FirstKey), CompositionPoly(FirstKey))
<1>1. PICK key : key = FirstKey
  OBVIOUS
<1>2. key \in AllKeys(basis)
  BY <1>1, FirstKeyIs
<1>3. /\ IsModulus(p) /\ BasisIs(p, Ideal(p, Inputs(relations)), basis) /\ ArePolys(p, relations)
      /\ AllUniform(Quiver, basis) /\ AllKept(p, relations, Quiver, basis)
  BY Known, RelationsArePolys DEF ArePaths, OriginsKept
<1>4. PICK vi : vi = ContextsAt(basis, key).vi
  OBVIOUS
<1>5. PICK u, vj : u = ContextsAt(basis, key).u /\ vj = ContextsAt(basis, key).vj
  OBVIOUS
<1>6. PICK o, f : /\ o = AddOrigin(p, ZeroPoly, 1, EmptyWord, basis[key[1]].origin, vi)
                  /\ f = AddPoly(p, ZeroPoly, 1, EmptyWord, basis[key[1]].poly, vi)
  OBVIOUS
<1>7. IsKept(p, relations, Quiver, AddOrigin(p, o, p - 1, u, basis[key[2]].origin, vj),
             AddPoly(p, f, p - 1, u, basis[key[2]].poly, vj))
  BY ONLY <1>2, <1>3, <1>4, <1>5, <1>6, CompositionKept
<1>8. ContextsOf(key) = ContextsAt(basis, key)
  BY DEF ContextsOf, ContextsAt, Lead, LeadWord, LeadAt, LeadOf
<1>9. CompositionPoly(key) = AddPoly(p, f, p - 1, u, basis[key[2]].poly, vj)
  BY <1>4, <1>5, <1>6, <1>8 DEF CompositionPoly, ZeroPoly, EmptyWord
<1>10. CompositionOrigin(key) = AddOrigin(p, o, p - 1, u, basis[key[2]].origin, vj)
  BY <1>4, <1>5, <1>6, <1>8 DEF CompositionOrigin, FirstOrigin, ZeroPoly, EmptyWord
<1> QED BY <1>1, <1>7, <1>9, <1>10

\* So does an element that is taken into the basis.
LEMMA GrowKept ==
  ASSUME IInv, OriginsKept, Grow, phase \in {"relations", "drain"}
  PROVE  AllKept(p, relations, Quiver, basis')
<1>1. PICK e : e = Element(work.poly, work.origin)
  OBVIOUS
<1>2. /\ basis' = Append(basis, MakeMonic(p, e)) /\ e.poly = work.poly /\ e.origin = work.origin
      /\ work.poly # ZeroPoly /\ ~work.idle
  <2>1. e.origin = work.origin
    BY <1>1 DEF Element
  <2> QED BY <1>1, <2>1, GrowIs
<1>3. work.poly \in Polys(p) /\ IsModulus(p) /\ Invertible(p) /\ ArePolys(p, relations)
  BY <1>2, WorkIs, RelationsArePolys
<1>4. IsKept(p, relations, Quiver, e.origin, e.poly)
  BY <1>2 DEF OriginsKept, WorkKept, KeepsOrigin
<1>5. PICK m : m = MakeMonic(p, e)
  OBVIOUS
<1>6. IsKept(p, relations, Quiver, m.origin, m.poly)
  BY <1>2, <1>3, <1>4, <1>5, KeptMonic
<1>7. IsSeq(basis)
  BY Known DEF BasisIs
<1>8. /\ DOMAIN basis' = DOMAIN basis \cup {Len(basis) + 1} /\ basis'[Len(basis) + 1] = m
      /\ \A k \in DOMAIN basis : basis'[k] = basis[k]
  BY <1>2, <1>5, <1>7, AppendIs
<1> QED BY <1>6, <1>8 DEF AllKept, OriginsKept

\* Every step keeps the origins.
LEMMA OriginsStep ==
  ASSUME IInv, ArePaths, OriginsKept, [Next]_vars
  PROVE  OriginsKept'
<1>1. presentation' = presentation
  BY DEF Next, vars, Reduce, ExhaustSteps, ExhaustOrigin, TakeRelation, RefuseRelation, DropZero, RefuseElement,
         KeepRelation, StartRound, RefuseRound, TakeAmbiguity, RefuseAmbiguity, KeepComposition, RefusePairs,
         Interreduce, TakeTail, KeepTail, TakeMember, EndMembership, TakeEntry, RecordTrace, EmitWitness,
         EmitWords, RefuseWords, Truncate
<1> DEFINE Basis(b) == AllKept(p, relations, Quiver, b)
           Worked(w) == WorkKept(p, relations, Quiver, w)
<1>2. Quiver' = Quiver /\ p' = p /\ relations' = relations
  BY <1>1 DEF Quiver, p, relations
<1>3. Basis(basis) /\ (KeepsOrigin => Worked(work))
  BY DEF OriginsKept
<1>4. ASSUME Basis(basis'), KeepsOrigin' => Worked(work') PROVE OriginsKept'
  BY <1>2, <1>4 DEF OriginsKept
<1>5. \A w : w.idle => Worked(w)
  BY DEF WorkKept
<1>6. Worked(NoWork)
  BY <1>5, IdleWork
<1> HIDE DEF Basis, Worked
<1>7. CASE Reduce
  <2>1. UNCHANGED <<basis, phase>>
    BY <1>7 DEF Reduce
  <2>2. KeepsOrigin' <=> KeepsOrigin
    BY <2>1 DEF KeepsOrigin
  <2>3. KeepsOrigin => Worked(work')
    BY <1>7, ReduceOrigins DEF Worked
  <2> QED BY <1>3, <1>4, <2>1, <2>2, <2>3
<1>8. CASE ExhaustSteps \/ ExhaustOrigin \/ RefuseRelation \/ RefuseElement \/ RefuseRound
           \/ RefuseAmbiguity \/ RefuseWords \/ DropZero \/ RecordTrace
  <2>1. basis' = basis /\ work' = NoWork
    BY <1>8 DEF ExhaustSteps, ExhaustOrigin, RefuseRelation, RefuseElement, RefuseRound, RefuseAmbiguity,
       RefuseWords, DropZero, RecordTrace, Truncate
  <2> QED BY <1>3, <1>4, <1>6, <2>1
<1>9. CASE StartRound \/ EndMembership \/ EmitWitness \/ EmitWords
  <2>1. basis' = basis /\ work' = work /\ work.idle
    BY <1>9 DEF StartRound, EndMembership, EmitWitness, EmitWords, BasisIsReady, TailIsDone, TracesAreDone
  <2> QED BY <1>3, <1>4, <1>5, <2>1
<1>10. CASE UNCHANGED vars
  <2>1. basis' = basis /\ work' = work /\ phase' = phase
    BY <1>10 DEF vars, loop
  <2>2. KeepsOrigin' <=> KeepsOrigin
    BY <2>1 DEF KeepsOrigin
  <2> QED BY <1>3, <1>4, <2>1, <2>2
<1>11. CASE KeepRelation \/ KeepComposition \/ RefusePairs
  <2>1. Grow /\ phase \in {"relations", "drain"} /\ work' = NoWork
    BY <1>11 DEF KeepRelation, KeepComposition, RefusePairs, Truncate
  <2>2. Basis(basis')
    BY <2>1, GrowKept DEF Basis
  <2> QED BY <1>4, <1>6, <2>1, <2>2
<1>12. CASE TakeRelation
  <2>1. /\ basis' = basis /\ index \in DOMAIN relations
        /\ work' = Work(relations[index], InputOrigin(index))
    BY <1>12 DEF TakeRelation
  <2>2. work'.poly = relations[index] /\ work'.origin = InputOrigin(index)
    BY <2>1 DEF Work
  <2>3. IsUniform(Quiver, relations[index])
    BY <2>1, RelationsAreUniform DEF IInv, InIdeal
  <2>4. IsKept(p, relations, Quiver, InputOrigin(index), relations[index])
    BY <2>1, <2>3, RelationsArePolys, KeptInput
  <2>5. Worked(work')
    BY <2>2, <2>4 DEF Worked, WorkKept
  <2> QED BY <1>3, <1>4, <2>1, <2>5
<1>13. CASE TakeMember \/ TakeEntry
  <2>1. basis' = basis /\ phase' = phase /\ phase \in {"membership", "ambiguities"}
    BY <1>13 DEF TakeMember, TakeEntry
  <2>2. ~KeepsOrigin'
    BY <2>1 DEF KeepsOrigin
  <2> QED BY <1>3, <1>4, <2>1, <2>2
<1>14. CASE TakeAmbiguity
  <2>1. /\ basis' = basis /\ phase = "drain" /\ queue # {}
        /\ work' = Work(CompositionPoly(FirstKey), CompositionOrigin(FirstKey))
    BY <1>14 DEF TakeAmbiguity
  <2>2. work'.poly = CompositionPoly(FirstKey) /\ work'.origin = CompositionOrigin(FirstKey)
    BY <2>1 DEF Work
  <2>3. Worked(work')
    BY <2>1, <2>2, FirstKeyKept DEF Worked, WorkKept
  <2> QED BY <1>3, <1>4, <2>1, <2>3
<1>15. CASE Interreduce
  <2>1. work' = work /\ work.idle
    BY <1>15 DEF Interreduce
  <2>2. \A n \in DOMAIN basis' : \E k \in DOMAIN basis : basis'[n] = basis[k]
    BY <1>15, InterreduceIs
  <2>3. Basis(basis')
    BY <1>3, <2>2 DEF Basis, AllKept
  <2> QED BY <1>4, <1>5, <2>1, <2>3
<1>16. CASE TakeTail
  <2>1. /\ basis' = basis /\ index \in DOMAIN basis
        /\ work' = Work(basis[index].poly, basis[index].origin)
    BY <1>16 DEF TakeTail
  <2>2. work'.poly = basis[index].poly /\ work'.origin = basis[index].origin
    BY <2>1 DEF Work
  <2>3. Worked(work')
    BY <1>3, <2>1, <2>2 DEF Worked, WorkKept, Basis, AllKept
  <2> QED BY <1>3, <1>4, <2>1, <2>3
<1>17. CASE KeepTail
  <2>1. PICK e : e = Element(work.poly, work.origin)
    OBVIOUS
  <2>2. /\ ~work.idle /\ work' = NoWork /\ KeepsOrigin /\ basis' = [basis EXCEPT ![index] = e]
        /\ e.poly = work.poly /\ e.origin = work.origin
    BY <1>17, <2>1 DEF KeepTail, IsReduced, KeepsOrigin, Element
  <2>3. IsKept(p, relations, Quiver, e.origin, e.poly)
    BY <1>3, <2>2 DEF Worked, WorkKept
  <2>4. \A k \in DOMAIN basis' : k \in DOMAIN basis /\ (basis'[k] = e \/ basis'[k] = basis[k])
    BY <2>2
  <2>5. Basis(basis')
    BY <1>3, <2>3, <2>4 DEF Basis, AllKept
  <2> QED BY <1>4, <1>6, <2>2, <2>5
<1> QED BY <1>7, <1>8, <1>9, <1>10, <1>11, <1>12, <1>13, <1>14, <1>15, <1>16, <1>17 DEF Next

-----------------------------------------------------------------------------
(* The verifier's expansion.                                               *)

\* The origins of a basis pass the verifier's check.
LEMMA OriginsPass ==
  ASSUME NEW q, IsModulus(q), NEW b, IsSeq(b), NEW cert, cert.field = q,
         ArePolys(q, cert.input_relations),
         cert.basis = [k \in DOMAIN b |-> b[k].poly], cert.origin = [k \in DOMAIN b |-> b[k].origin],
         AllKept(q, cert.input_relations, cert.quiver, b)
  PROVE  OriginHolds(cert)
<1> DEFINE rels == cert.input_relations
<1>1. Len(cert.origin) = Len(cert.basis) /\ DOMAIN cert.origin = DOMAIN b
  <2>1. Len(b) \in Nat /\ DOMAIN b = 1 .. Len(b)
    BY DEF IsSeq
  <2>2. PICK n : n = Len(b)
    OBVIOUS
  <2>3. /\ cert.basis = [k \in 1 .. n |-> b[k].poly] /\ cert.origin = [k \in 1 .. n |-> b[k].origin]
        /\ n \in Nat
    BY <2>1, <2>2
  <2>4. Len(cert.basis) = n /\ Len(cert.origin) = n
    BY ONLY <2>3, FunctionIsSeq
  <2> QED BY <2>4
<1>2. ASSUME NEW k \in DOMAIN b
      PROVE  /\ \A t \in DOMAIN cert.origin[k] :
                  /\ cert.origin[k][t] \in 1 .. cert.field - 1
                  /\ t[1] \in DOMAIN rels
                  /\ \A w \in DOMAIN rels[t[1]] : IsPath(cert.quiver, t[2] \o w \o t[3])
             /\ OriginSum(q, rels, cert.origin[k]) = cert.basis[k]
  <2>1. PICK o, f : o = cert.origin[k] /\ f = cert.basis[k]
    OBVIOUS
  <2>2. PICK e : KeptAt(q, rels, cert.quiver, e, o, f)
    BY <2>1 DEF AllKept, IsKept
  <2>3. /\ IsOrigin(q, rels, o) /\ f = Expanded(q, rels, o)
        /\ \A t \in DOMAIN o : DOMAIN OriginTerms(rels)[t] \subseteq Paths(cert.quiver, e)
    BY <2>2 DEF KeptAt
  <2>4. OriginSum(q, rels, o) = f
    BY <2>3, SumIsExpansion
  <2>5. ASSUME NEW t \in DOMAIN o
        PROVE  o[t] \in 1 .. cert.field - 1 /\ t[1] \in DOMAIN rels
               /\ \A w \in DOMAIN rels[t[1]] : IsPath(cert.quiver, t[2] \o w \o t[3])
    <3>1. t \in Triples(rels) /\ o[t] \in 1 .. q - 1
      BY <2>3 DEF IsOrigin, IsSparse
    <3>2. t[1] \in DOMAIN rels /\ t[2] \in Words /\ t[3] \in Words /\ rels[t[1]] \in Polys(q)
      BY <3>1, TripleIs DEF ArePolys
    <3>3. OriginTerms(rels)[t] = Between(t[2], rels[t[1]], t[3])
      BY <3>1 DEF OriginTerms
    <3>4. ASSUME NEW w \in DOMAIN rels[t[1]] PROVE IsPath(cert.quiver, t[2] \o w \o t[3])
      <4>1. Put(t[2], w, t[3]) \in DOMAIN OriginTerms(rels)[t]
        BY <3>2, <3>3, BetweenDomain
      <4>2. Put(t[2], w, t[3]) \in Paths(cert.quiver, e)
        BY <2>3, <4>1
      <4> QED BY <4>2 DEF Paths, Put
    <3> QED BY <3>1, <3>2, <3>4
  <2> QED BY <2>1, <2>4, <2>5
<1>3. \A k : OriginSum(q, rels, cert.origin[k])
        = FoldSet(LAMBDA t, sum : AddPoly(cert.field, sum, 1, <<>>,
                    AddPoly(cert.field, <<>>, cert.origin[k][t], t[2], cert.input_relations[t[1]], t[3]), <<>>),
                  <<>>, DOMAIN cert.origin[k])
  <2>1. \A k : OriginSum(cert.field, rels, cert.origin[k])
          = FoldSet(LAMBDA t, sum : AddPoly(cert.field, sum, 1, <<>>,
                      AddPoly(cert.field, <<>>, cert.origin[k][t], t[2], cert.input_relations[t[1]], t[3]),
                      <<>>),
                    <<>>, DOMAIN cert.origin[k])
    BY Zenon DEF OriginSum, AddTerm, OriginTerm, FoldSet, MapThenFoldSet
  <2> QED BY <2>1
<1> QED BY <1>1, <1>2, <1>3 DEF OriginHolds

-----------------------------------------------------------------------------
(* The certificate the engine emits.                                       *)

\* a run that is complete has an accepted certificate, and nothing under reduction
Accepted == phase = "complete" => work.idle /\ IsAccepted(certificate) /\ OriginHolds(certificate)

\* Only the emission completes a run.
LEMMA CompletesOnce ==
  ASSUME Accepted, [Next]_vars, phase' = "complete"
  PROVE  \/ TracesAreDone /\ work' = work /\ \E words, finiteness : certificate' = Emitted(words, finiteness)
         \/ phase = "complete" /\ work' = work /\ certificate' = certificate
<1>1. CASE Reduce \/ ExhaustSteps \/ ExhaustOrigin
  <2>1. ~work.idle /\ (phase' = phase \/ phase' = "truncated")
    BY <1>1 DEF Reduce, ExhaustSteps, ExhaustOrigin, Truncate
  <2> QED BY <2>1 DEF Accepted
<1>2. CASE RefuseRelation \/ RefuseElement \/ RefuseRound \/ RefuseAmbiguity \/ RefusePairs \/ RefuseWords
  <2>1. phase' = "truncated"
    BY <1>2 DEF RefuseRelation, RefuseElement, RefuseRound, RefuseAmbiguity, RefusePairs, RefuseWords, Truncate
  <2> QED BY <2>1
<1>3. CASE TakeRelation \/ DropZero \/ KeepRelation \/ TakeAmbiguity \/ KeepComposition \/ TakeTail \/ KeepTail
           \/ TakeMember \/ TakeEntry \/ RecordTrace
  <2>1. phase' = phase /\ phase # "complete"
    BY <1>3 DEF TakeRelation, DropZero, KeepRelation, TakeAmbiguity, KeepComposition, TakeTail, KeepTail,
       TakeMember, TakeEntry, RecordTrace
  <2> QED BY <2>1
<1>4. CASE StartRound \/ Interreduce \/ EndMembership
  <2>1. phase' \in {"drain", "membership", "tail", "ambiguities"}
    BY <1>4 DEF StartRound, Interreduce, EndMembership
  <2> QED BY <2>1
<1>5. CASE EmitWitness
  BY <1>5 DEF EmitWitness
<1>6. CASE EmitWords
  BY <1>6 DEF EmitWords
<1>7. CASE UNCHANGED vars
  BY <1>7 DEF vars, loop
<1> QED BY <1>1, <1>2, <1>3, <1>4, <1>5, <1>6, <1>7 DEF Next

\* The origins of the certificate that is emitted are accepted.
LEMMA EmittedOrigins ==
  ASSUME IInv, OriginsKept, NEW words, NEW finiteness, NEW cert, cert = Emitted(words, finiteness)
  PROVE  OriginHolds(cert)
<1>1. /\ cert.field = p /\ cert.quiver = Quiver /\ cert.input_relations = relations
      /\ cert.basis = [k \in DOMAIN basis |-> basis[k].poly]
      /\ cert.origin = [k \in DOMAIN basis |-> basis[k].origin]
  BY DEF Emitted, Quiver
<1>2. IsModulus(p) /\ ArePolys(p, relations) /\ IsSeq(basis) /\ AllKept(p, relations, Quiver, basis)
  BY Known, RelationsArePolys DEF BasisIs, OriginsKept
<1> QED BY <1>1, <1>2, OriginsPass

\* Every step keeps accepted what is, and completes a run with what is accepted.
LEMMA AcceptedStep ==
  ASSUME IInv, ArePaths, AreTidy, AreRecorded, OriginsKept, Accepted, [Next]_vars
  PROVE  Accepted'
<1> SUFFICES ASSUME phase' = "complete"
             PROVE  work'.idle /\ IsAccepted(certificate') /\ OriginHolds(certificate')
  BY DEF Accepted
<1> PICK c : c = certificate'
  OBVIOUS
<1>1. CASE TracesAreDone /\ work' = work /\ \E words, finiteness : certificate' = Emitted(words, finiteness)
  <2>1. IsAccepted(c) /\ OriginHolds(c)
    BY <1>1, EmittedIsAccepted, EmittedOrigins
  <2> QED BY <1>1, <2>1 DEF TracesAreDone
<1>2. CASE phase = "complete" /\ work' = work /\ certificate' = certificate
  BY <1>2 DEF Accepted
<1> QED BY <1>1, <1>2, CompletesOnce

\* what a run keeps, for its certificate to be accepted
AInv == IInv /\ ArePaths /\ AreTidy /\ AreRecorded /\ OriginsKept /\ Accepted

\* The first state keeps it.
LEMMA AcceptedFirst ==
  ASSUME Init
  PROVE  AInv
<1>1. basis = <<>> /\ work = NoWork /\ phase = "relations" /\ traces = <<>>
  BY DEF Init
<1>2. ArePaths
  BY <1>1 DEF ArePaths, AllUniform, NoWork
<1>3. AreTidy /\ Accepted
  BY <1>1 DEF AreTidy, Accepted
<1>4. IsSeq(traces)
  BY <1>1 DEF IsSeq
<1>5. AreRecorded
  BY <1>1, <1>4 DEF AreRecorded
<1>6. OriginsKept
  BY <1>1 DEF OriginsKept, AllKept, WorkKept, NoWork
<1> QED BY <1>2, <1>3, <1>5, <1>6, Initial DEF AInv

\* A complete run has a certificate that passes every check of the verifier but the one
\* of the normal words: each element of the basis is what its origin expands to, too
\* (completion/engine.rs, emit; verify/entry.rs; tests/completion_verify.rs).
THEOREM CertificateIsAccepted ==
  Spec => [](phase = "complete" =>
               /\ RelationsHold(certificate) /\ BasisHolds(certificate) /\ OriginHolds(certificate)
               /\ MembershipHolds(certificate) /\ AmbiguitiesHold(certificate) /\ AutomatonHolds(certificate))
<1>1. Init => AInv
  BY AcceptedFirst
<1>2. AInv /\ [Next]_vars => AInv'
  BY Inductive, PathsStep, TidyStep, RecordedKept, OriginsStep, AcceptedStep DEF AInv
<1>3. AInv => (phase = "complete" =>
                 /\ RelationsHold(certificate) /\ BasisHolds(certificate) /\ OriginHolds(certificate)
                 /\ MembershipHolds(certificate) /\ AmbiguitiesHold(certificate) /\ AutomatonHolds(certificate))
  BY DEF AInv, Accepted, IsAccepted
<1> QED BY <1>1, <1>2, <1>3, PTL DEF Spec

-----------------------------------------------------------------------------
(* The repetitions of a cycle.                                             *)

\* Where a word repeated so often wraps around.
LEMMA Wraps ==
  ASSUME NEW m \in Nat \ {0}, NEW n \in Nat, NEW i \in 0 .. m - 1
  PROVE  n * m \in Nat /\ (n + 1) * m = n * m + m /\ (n * m + i) % m = i
<1>1. n * m \in Nat /\ (n + 1) * m = n * m + m
  OBVIOUS
<1>2. CASE m = 1
  <2>1. (n * m + i) % m \in 0 .. m - 1 /\ i = 0
    BY <1>1, <1>2
  <2> QED BY <1>1, <1>2, <2>1
<1>3. CASE m # 1
  <2>1. IsModulus(m)
    BY <1>3 DEF IsModulus
  <2>2. n * m + i = i + n * m /\ n * m + i \in Int /\ i \in Int /\ n \in Int
    BY <1>1
  <2>3. Congruent(m, n * m + i, i)
    BY <2>2 DEF Congruent
  <2>4. (n * m + i) % m = i % m
    BY <2>1, <2>2, <2>3, CongruentEqual
  <2>5. i % m = i
    BY <2>1, <2>2, Remainder
  <2> QED BY <1>1, <2>4, <2>5
<1> QED BY <1>2, <1>3

\* A word repeated once more.
LEMMA RepeatedIs ==
  ASSUME NEW c \in Words, c # EmptyWord, NEW n \in Nat
  PROVE  /\ Repeated(c, 0) = EmptyWord /\ Repeated(c, n) \in Words
         /\ Repeated(c, n + 1) = Cat(Repeated(c, n), c)
<1> DEFINE m == Len(c)
           R(k) == Repeated(c, k)
<1>1. m \in Nat \ {0} /\ \A i \in 1 .. m : c[i] \in Nat
  <2>1. Len(c) \in Nat /\ Len(c) # 0
    BY EmptySeq, LenProperties DEF Words, EmptyWord
  <2> QED BY <2>1, ElementOfSeq DEF Words
<1>2. ASSUME NEW k \in Nat
      PROVE  /\ R(k) \in Words /\ Len(R(k)) = k * m /\ k * m \in Nat
             /\ \A i \in 1 .. k * m : R(k)[i] = c[((i - 1) % m) + 1]
  <2>1. k * m \in Nat
    BY <1>1
  <2>2. ASSUME NEW i \in 1 .. k * m PROVE c[((i - 1) % m) + 1] \in Nat
    <3>1. (i - 1) % m \in 0 .. m - 1
      BY <1>1, <2>1
    <3>2. ((i - 1) % m) + 1 \in 1 .. m
      BY <1>1, <3>1
    <3> QED BY <1>1, <3>2
  <2>3. R(k) = [i \in 1 .. k * m |-> c[((i - 1) % m) + 1]]
    BY DEF Repeated
  <2> HIDE DEF R, m
  <2>4. R(k) \in [1 .. k * m -> Nat]
    BY <2>2, <2>3
  <2>5. R(k) \in Seq(Nat) /\ Len(R(k)) = k * m
    BY <2>1, <2>4
  <2> QED BY <2>1, <2>3, <2>5 DEF Words
<1>3. R(0) = EmptyWord
  <2>1. 0 * m = 0 /\ Len(R(0)) = 0 * m /\ R(0) \in Words
    BY <1>1, <1>2
  <2> HIDE DEF R
  <2> QED BY <2>1, EmptySeq DEF Words, EmptyWord
<1>4. R(n + 1) = Cat(R(n), c)
  <2>1. PICK k \in Nat : k = n * m
    BY <1>1
  <2>2. n + 1 \in Nat /\ (n + 1) * m = k + m
    BY <1>1, <2>1
  <2>3. /\ R(n) \in Words /\ Len(R(n)) = k /\ \A i \in 1 .. k : R(n)[i] = c[((i - 1) % m) + 1]
        /\ R(n + 1) \in Words /\ Len(R(n + 1)) = k + m
        /\ \A i \in 1 .. k + m : R(n + 1)[i] = c[((i - 1) % m) + 1]
    <3> HIDE DEF R, m
    <3>1. /\ R(n) \in Words /\ Len(R(n)) = n * m /\ \A i \in 1 .. n * m : R(n)[i] = c[((i - 1) % m) + 1]
      BY <1>2
    <3>2. /\ R(n + 1) \in Words /\ Len(R(n + 1)) = (n + 1) * m
          /\ \A i \in 1 .. (n + 1) * m : R(n + 1)[i] = c[((i - 1) % m) + 1]
      BY <1>2, <2>2
    <3> QED BY ONLY <2>1, <2>2, <3>1, <3>2
  <2> DEFINE z == Cat(R(n), c)
  <2>4. z \in Words
    BY <2>3, CatType
  <2>5. /\ Len(z) = k + m /\ (\A i \in 1 .. k : z[i] = R(n)[i]) /\ \A i \in 1 .. m : z[k + i] = c[i]
    <3>1. c \in Seq(Nat) /\ R(n) \in Seq(Nat)
      BY <2>3 DEF Words
    <3> HIDE DEF R
    <3>2. /\ Len(z) = Len(R(n)) + Len(c) /\ \A i \in 1 .. Len(R(n)) : z[i] = R(n)[i]
      BY <3>1, ConcatProperties DEF Cat
    <3>3. \A i \in 1 .. Len(c) : z[Len(R(n)) + i] = c[i]
      BY <3>1, ConcatProperties DEF Cat
    <3> QED BY <2>3, <3>2, <3>3
  <2> HIDE DEF z, R
  <2>6. ASSUME NEW i \in 1 .. Len(z) PROVE z[i] = R(n + 1)[i]
    <3>1. i \in 1 .. k + m /\ i \in Int
      BY <1>1, <2>5
    <3>2. CASE i <= k
      <4>1. i \in 1 .. k
        BY <3>1, <3>2
      <4> QED BY <2>3, <2>5, <3>1, <4>1
    <3>3. CASE ~(i <= k)
      <4>0. m \in Nat
        BY <1>1
      <4>1. PICK j \in Int : j = i - k
        BY <3>1
      <4>2. j \in 1 .. m /\ k + j = i /\ j - 1 \in 0 .. m - 1 /\ i - 1 = k + (j - 1) /\ (j - 1) + 1 = j
        BY <3>1, <3>3, <4>0, <4>1
      <4>3. (n * m + (j - 1)) % m = j - 1
        <5> HIDE DEF m
        <5> QED BY <1>1, <4>2, Wraps
      <4>4. z[i] = c[j]
        BY <2>5, <4>2
      <4>5. R(n + 1)[i] = c[((i - 1) % m) + 1]
        BY <2>3, <3>1
      <4> HIDE DEF m
      <4> QED BY <2>1, <4>2, <4>3, <4>4, <4>5
    <3> QED BY <3>2, <3>3
  <2>7. Len(z) = Len(R(n + 1))
    BY <2>3, <2>5
  <2> QED BY <2>3, <2>4, <2>6, <2>7, WordEqual DEF z
<1> QED BY <1>2, <1>3, <1>4

\* A word that leads back can be read again and again.
LEMMA CycleRepeats ==
  ASSUME NEW cert, NEW s, NEW c \in Words, c # EmptyWord, Follows(cert, s, c, s), NEW n \in Nat
  PROVE  Repeated(c, n) \in Words /\ Follows(cert, s, Repeated(c, n), s)
<1> DEFINE P == {k \in Nat : Repeated(c, k) \in Words /\ Follows(cert, s, Repeated(c, k), s)}
<1>1. 0 \in P
  BY RepeatedIs, FollowsNothing
<1>2. ASSUME NEW k \in Nat, k \in P PROVE k + 1 \in P
  <2>1. k + 1 \in Nat
    OBVIOUS
  <2>2. Repeated(c, k + 1) \in Words /\ Repeated(c, k + 1) = Cat(Repeated(c, k), c)
    BY <2>1, RepeatedIs
  <2>3. Follows(cert, s, Cat(Repeated(c, k), c), s)
    BY <1>2, FollowsBoth
  <2> QED BY <2>1, <2>2, <2>3
<1>3. Nat \subseteq P
  <2> HIDE DEF P
  <2> QED BY <1>1, <1>2, SetInduction
<1> QED BY <1>3

-----------------------------------------------------------------------------
(* The witness of a cycle.                                                 *)

\* The witness of the engine passes, and all the repetitions of its cycle are normal.
LEMMA WitnessPasses ==
  ASSUME NEW cert, NEW pr, NEW F, IsFor(cert, pr, F), NEW witness, IsWitness(cert, pr, F, witness),
         NEW x, x = witness.prefix, NEW c, c = witness.cycle,
         cert.finiteness.prefix = x, cert.finiteness.cycle = c
  PROVE  /\ WitnessHolds(cert) /\ c # EmptyWord
         /\ \A n \in Nat : IsNormal(pr, F, Cat(x, Repeated(c, n)))
<1>1. PICK s \in States(pr, F), v \in 1 .. pr.vertices :
        /\ x \in Words /\ c \in Words /\ c # EmptyWord
        /\ Follows(cert, StartState(v), x, s) /\ Follows(cert, s, c, s)
  BY DEF IsWitness
<1>2. PICK u \in Starts(cert) : u = StartState(v) /\ u \in States(pr, F)
  BY StatesAre
<1>3. ASSUME NEW n \in Nat PROVE IsNormal(pr, F, Cat(x, Repeated(c, n)))
  <2>1. Repeated(c, n) \in Words /\ Follows(cert, s, Repeated(c, n), s)
    BY <1>1, CycleRepeats
  <2>2. Cat(x, Repeated(c, n)) \in Words /\ Follows(cert, u, Cat(x, Repeated(c, n)), s)
    BY <1>1, <1>2, <2>1, FollowsBoth, CatType
  <2> QED BY <2>2, ReadsNormal
<1>4. PICK w \in Words : w = Cat(Cat(x, c), c) /\ Cat(x, c) \in Words
  BY <1>1, CatType
<1>5. Follows(cert, u, w, s)
  <2>1. Follows(cert, u, Cat(x, c), s)
    BY <1>1, <1>2, FollowsBoth
  <2> QED BY <1>1, <1>4, <2>1, FollowsBoth
<1>6. w # EmptyWord
  <2>1. Len(w) = Len(x) + Len(c) + Len(c) /\ Len(x) \in Nat /\ Len(c) \in Nat /\ Len(c) # 0
    <3>1. Len(w) = Len(Cat(x, c)) + Len(c) /\ Len(Cat(x, c)) = Len(x) + Len(c)
      BY <1>1, <1>4, CatIndex
    <3>2. Len(x) \in Nat /\ Len(c) \in Nat /\ Len(c) # 0
      BY <1>1, EmptySeq DEF Words, EmptyWord
    <3> QED BY <3>1, <3>2
  <2>2. Len(EmptyWord) = 0
    BY DEF EmptyWord
  <2>3. Len(w) # 0
    BY ONLY <2>1
  <2> QED BY ONLY <2>2, <2>3
<1>7. IsNormal(pr, F, w) /\ pr.arrows[w[1]][1] = u.vertex
  BY <1>2, <1>5, <1>6, ReadsNormal, FollowsPath
<1>8. IsPath(cert.quiver, w) /\ \A z \in LeadingWords(cert) : Occurrences(w, z) = {}
  BY <1>7 DEF IsNormal, IsPath, IsFor
<1>9. PICK start : start = [vertex |-> cert.quiver.arrows[w[1]][1], word |-> <<>>]
  OBVIOUS
<1>10. start = u
  <2>1. u = [vertex |-> u.vertex, word |-> <<>>]
    BY <1>2 DEF StartState
  <2> QED BY <1>7, <1>9, <2>1 DEF IsFor
<1>11. \A t : t \in ReadFrom(cert, start, x) <=> t = s
  BY <1>1, <1>2, <1>10, ReadFromIs, FollowsOne, SMTT(30)
<1>12. \A t : t \in ReadFrom(cert, s, c) <=> t = s
  BY <1>1, ReadFromIs, FollowsOne, SMTT(30)
<1>13. WitnessHolds(cert)
  <2>1. c # <<>>
    BY <1>1 DEF EmptyWord
  <2>2. ReadFrom(cert, start, x) # {} /\ \A t \in ReadFrom(cert, start, x) : ReadFrom(cert, t, c) = {t}
    BY <1>11, <1>12
  <2>3. w = x \o c \o c
    BY <1>4 DEF Cat
  <2> QED BY <1>8, <1>9, <2>1, <2>2, <2>3 DEF WitnessHolds
<1> QED BY <1>1, <1>3, <1>13

-----------------------------------------------------------------------------
(* The certificate of a complete run.                                      *)

\* what is emitted, of a presentation, a basis and the traces
LeadsOf(b) == {LeadWord(b[k]) : k \in DOMAIN b}

ListOf(pr, F) ==
  LET Before(d, e) ==
        \/ Len(d.word) < Len(e.word)
        \/ Len(d.word) = Len(e.word) /\ d.source < e.source
        \/ Len(d.word) = Len(e.word) /\ d.source = e.source /\ LexLess(d.word, e.word)
      sorted == Sorted(Language(pr, F), Before)
  IN  [n \in DOMAIN sorted |-> sorted[n].word]

WordsOf(pr, F) == IF IsFiniteLanguage(pr, F) THEN ListOf(pr, F) ELSE <<>>

ClaimOf(pr, F) ==
  IF IsFiniteLanguage(pr, F) THEN [kind |-> "finite"]
  ELSE [kind |-> "infinite", prefix |-> CycleWitness(pr, F).prefix, cycle |-> CycleWitness(pr, F).cycle]

CertOf(pr, b, ts, F) ==
  [field           |-> pr.p,
   quiver          |-> [vertices |-> pr.vertices, arrows |-> pr.arrows],
   input_relations |-> pr.relations,
   basis           |-> [k \in DOMAIN b |-> b[k].poly],
   origin          |-> [k \in DOMAIN b |-> b[k].origin],
   membership      |-> SubSeq(ts, 1, Len(pr.relations)),
   ambiguities     |-> SubSeq(ts, Len(pr.relations) + 1, Len(ts)),
   normal_words    |-> WordsOf(pr, F),
   automaton       |-> [states |-> States(pr, F), transitions |-> Transitions(pr, F)],
   finiteness      |-> ClaimOf(pr, F)]

\* a complete run has emitted the certificate of what it has come to
IsEmitted == phase = "complete" => certificate = CertOf(presentation, basis, traces, LeadsOf(basis))

\* What the engine emits is the certificate of the final basis and traces,
\* in the finite case and in the infinite one.
LEMMA EmittedIs ==
  /\ Leads = LeadsOf(basis)
  /\ IsFinite => Emitted(NormalWordList, [kind |-> "finite"])
       = CertOf(presentation, basis, traces, LeadsOf(basis))
  /\ ~IsFinite => Emitted(<<>>, [kind |-> "infinite", prefix |-> CycleWitness(presentation, Leads).prefix,
                                 cycle |-> CycleWitness(presentation, Leads).cycle])
                    = CertOf(presentation, basis, traces, LeadsOf(basis))
<1>1. Leads = LeadsOf(basis)
  BY DEF Leads, LeadsOf
<1>2. NormalWordList = ListOf(presentation, Leads)
  BY DEF NormalWordList, ListOf, NormalWords
<1>3. IsFinite <=> IsFiniteLanguage(presentation, Leads)
  BY DEF IsFinite
<1> QED BY <1>1, <1>2, <1>3 DEF Emitted, CertOf, WordsOf, ClaimOf, p, relations

\* Every step keeps what is emitted.
LEMMA EmittedStep ==
  ASSUME Accepted, IsEmitted, [Next]_vars
  PROVE  IsEmitted'
<1> SUFFICES ASSUME phase' = "complete"
             PROVE  certificate' = CertOf(presentation', basis', traces', LeadsOf(basis'))
  BY DEF IsEmitted
<1>1. CASE EmitWitness
  <2>1. /\ ~IsFinite /\ presentation' = presentation /\ basis' = basis /\ traces' = traces
        /\ certificate' = Emitted(<<>>, [kind |-> "infinite",
             prefix |-> CycleWitness(presentation, Leads).prefix,
                                         cycle |-> CycleWitness(presentation, Leads).cycle])
    BY <1>1 DEF EmitWitness
  <2> QED BY <2>1, EmittedIs
<1>2. CASE EmitWords
  <2>1. /\ IsFinite /\ presentation' = presentation /\ basis' = basis /\ traces' = traces
        /\ certificate' = Emitted(NormalWordList, [kind |-> "finite"])
    BY <1>2 DEF EmitWords
  <2> QED BY <2>1, EmittedIs
<1>3. CASE UNCHANGED vars
  BY <1>3 DEF vars, loop, IsEmitted
<1>4. CASE Reduce \/ ExhaustSteps \/ ExhaustOrigin
  <2>1. ~work.idle /\ (phase' = phase \/ phase' = "truncated")
    BY <1>4 DEF Reduce, ExhaustSteps, ExhaustOrigin, Truncate
  <2> QED BY <2>1 DEF Accepted
<1>5. CASE RefuseRelation \/ RefuseElement \/ RefuseRound \/ RefuseAmbiguity \/ RefusePairs \/ RefuseWords
  <2>1. phase' = "truncated"
    BY <1>5 DEF RefuseRelation, RefuseElement, RefuseRound, RefuseAmbiguity, RefusePairs, RefuseWords, Truncate
  <2> QED BY <2>1
<1>6. CASE TakeRelation \/ DropZero \/ KeepRelation \/ TakeAmbiguity \/ KeepComposition \/ TakeTail \/ KeepTail
           \/ TakeMember \/ TakeEntry \/ RecordTrace
  <2>1. phase' = phase /\ phase # "complete"
    BY <1>6 DEF TakeRelation, DropZero, KeepRelation, TakeAmbiguity, KeepComposition, TakeTail, KeepTail,
       TakeMember, TakeEntry, RecordTrace
  <2> QED BY <2>1
<1>7. CASE StartRound \/ Interreduce \/ EndMembership
  <2>1. phase' \in {"drain", "membership", "tail", "ambiguities"}
    BY <1>7 DEF StartRound, Interreduce, EndMembership
  <2> QED BY <2>1
<1> QED BY <1>1, <1>2, <1>3, <1>4, <1>5, <1>6, <1>7 DEF Next

\* The certificate of a complete run is about the leading words of its basis.
LEMMA CompleteIsFor ==
  ASSUME AInv, IsEmitted, phase = "complete"
  PROVE  IsFor(certificate, presentation, LeadsOf(basis))
<1> DEFINE J == Ideal(p, Inputs(relations))
<1>1. /\ certificate.field = p /\ certificate.quiver = Quiver
      /\ certificate.quiver.vertices = presentation.vertices /\ certificate.quiver.arrows = presentation.arrows
      /\ certificate.basis = [k \in DOMAIN basis |-> basis[k].poly]
  BY DEF IsEmitted, CertOf, Quiver, p
<1>2. IsModulus(p) /\ BasisIs(p, J, basis) /\ IsPresentation(presentation)
  BY Known DEF AInv, IInv, InIdeal
<1> HIDE DEF J
<1>3. /\ presentation.vertices \in Nat
      /\ presentation.arrows \in Seq((1 .. presentation.vertices) \X (1 .. presentation.vertices))
  BY <1>2 DEF IsPresentation
<1>4. /\ DOMAIN certificate.basis = DOMAIN basis
      /\ \A k \in DOMAIN basis : Leading(certificate.basis[k]) = LeadAt(basis, k)
  <2>1. IsOf(certificate, p, Quiver, basis)
    BY <1>1 DEF IsOf
  <2> QED BY <2>1, LeadsOfCertificate
<1>5. LeadsOf(basis) = {LeadAt(basis, k) : k \in DOMAIN basis}
  BY DEF LeadsOf, LeadWord, LeadAt, LeadOf
<1>6. \A k \in DOMAIN basis : LeadAt(basis, k) \in Words /\ LeadAt(basis, k) \in DOMAIN basis[k].poly
  BY <1>2, ElementIs, LeadIs
<1>7. LeadingWords(certificate) = LeadsOf(basis)
  BY <1>4, <1>5 DEF LeadingWords
<1>8. AreApart(LeadsOf(basis))
  <2> SUFFICES ASSUME NEW j \in DOMAIN basis, NEW k \in DOMAIN basis,
                      Occurrences(LeadAt(basis, j), LeadAt(basis, k)) # {}
               PROVE  LeadAt(basis, j) = LeadAt(basis, k)
    BY <1>5 DEF AreApart
  <2>1. BasisHolds(certificate)
    BY DEF AInv, Accepted, IsAccepted
  <2>2. LeadAt(basis, j) \in DOMAIN certificate.basis[j]
    BY <1>1, <1>6
  <2>3. j = k
    BY <1>4, <2>1, <2>2 DEF BasisHolds
  <2> QED BY <2>3
<1>9. IsFiniteSet(LeadsOf(basis))
  <2> DEFINE f == [k \in DOMAIN basis |-> LeadAt(basis, k)]
  <2>1. IsFiniteSet(DOMAIN basis)
    <3>1. DOMAIN basis = 1 .. Len(basis) /\ Len(basis) \in Nat
      BY <1>2, SeqIs DEF BasisIs
    <3> QED BY <3>1, FS_Interval
  <2>2. LeadsOf(basis) = {f[k] : k \in DOMAIN basis} /\ DOMAIN f = DOMAIN basis
    BY <1>5
  <2> HIDE DEF f
  <2> QED BY <2>1, <2>2, ImageIsFinite
<1>10. ASSUME NEW k \in DOMAIN basis PROVE Len(LeadAt(basis, k)) >= 2 /\ IsPath(presentation, LeadAt(basis, k))
  <2>1. PICK e : DOMAIN basis[k].poly \subseteq Paths(Quiver, e)
    BY DEF AInv, ArePaths, AllUniform, IsUniform
  <2>2. Len(LeadAt(basis, k)) >= 2 /\ IsPath(Quiver, LeadAt(basis, k))
    BY <1>6, <2>1 DEF Paths
  <2>3. Quiver.arrows = presentation.arrows
    BY DEF Quiver
  <2> QED BY <2>2, <2>3 DEF IsPath
<1>11. \A w \in LeadsOf(basis) : w \in Words /\ Len(w) >= 2 /\ IsPath(presentation, w)
  BY <1>5, <1>6, <1>10
<1> QED BY <1>1, <1>3, <1>7, <1>8, <1>9, <1>11 DEF IsFor

\* The greatest of finitely many numbers.
LEMMA MaxIs ==
  ASSUME NEW S \in SUBSET Nat, IsFiniteSet(S), S # {}
  PROVE  Max(S) \in S /\ \A x \in S : x <= Max(S)
<1> DEFINE P == {r \in SUBSET S : r = {} \/ \E x \in r : \A y \in r : x >= y}
<1>1. {} \in P
  OBVIOUS
<1>2. ASSUME NEW r \in SUBSET S, r # {}, \A x \in r : r \ {x} \in P PROVE r \in P
  <2>1. PICK x \in r : TRUE
    BY <1>2
  <2>2. CASE r \ {x} = {}
    BY <2>1, <2>2
  <2>3. CASE r \ {x} # {}
    <3>1. r \ {x} \in P
      BY <1>2, <2>1
    <3>2. PICK z \in r \ {x} : \A y \in r \ {x} : z >= y
      BY <2>3, <3>1
    <3>3. x \in Nat /\ z \in Nat /\ \A y \in r : y \in Nat /\ (y = x \/ z >= y)
      BY <3>2
    <3>4. (\A y \in r : z >= y) \/ (\A y \in r : x >= y)
      BY ONLY <3>3
    <3> QED BY <3>2, <3>4
  <2> QED BY <2>2, <2>3
<1>3. S \in P
  <2> HIDE DEF P
  <2>1. SUBSET S \subseteq P
    BY <1>1, <1>2, SubsetInduction
  <2> QED BY <2>1
<1>4. \E x \in S : \A y \in S : x >= y
  BY <1>3
<1> QED BY <1>4 DEF Max

\* what a run keeps, for the verifier to decide as it did
BInv == AInv /\ IsEmitted

\* The invariant with the emitted certificate holds when a run starts.
LEMMA EmittedFirst ==
  ASSUME Init
  PROVE  BInv
<1>1. phase = "relations"
  BY DEF Init
<1> QED BY <1>1, AcceptedFirst DEF BInv, IsEmitted

\* Every step keeps it.
LEMMA BStep ==
  ASSUME BInv, [Next]_vars
  PROVE  BInv'
<1>1. AInv'
  BY Inductive, PathsStep, TidyStep, RecordedKept, OriginsStep, AcceptedStep DEF BInv, AInv
<1>2. IsEmitted'
  BY EmittedStep DEF BInv, AInv
<1> QED BY <1>1, <1>2 DEF BInv

\* The certificate of a complete run, whatever the finiteness.
LEMMA CompleteIs ==
  ASSUME BInv, phase = "complete"
  PROVE  /\ IsFor(certificate, presentation, Leads)
         /\ IsFinite <=> IsFiniteLanguage(presentation, Leads)
         /\ certificate.normal_words = WordsOf(presentation, Leads)
         /\ certificate.finiteness = ClaimOf(presentation, Leads)
         /\ RelationsHold(certificate) /\ BasisHolds(certificate) /\ OriginHolds(certificate)
         /\ MembershipHolds(certificate) /\ AmbiguitiesHold(certificate) /\ AutomatonHolds(certificate)
<1>1. IsFor(certificate, presentation, LeadsOf(basis)) /\ Leads = LeadsOf(basis)
  BY CompleteIsFor, EmittedIs DEF BInv
<1>2. IsFinite <=> IsFiniteLanguage(presentation, Leads)
  BY DEF IsFinite
<1>3. certificate.normal_words = WordsOf(presentation, LeadsOf(basis))
        /\ certificate.finiteness = ClaimOf(presentation, LeadsOf(basis))
  BY DEF BInv, IsEmitted, CertOf
<1>4. /\ RelationsHold(certificate) /\ BasisHolds(certificate) /\ OriginHolds(certificate)
      /\ MembershipHolds(certificate) /\ AmbiguitiesHold(certificate) /\ AutomatonHolds(certificate)
  BY DEF BInv, AInv, Accepted, IsAccepted
<1> QED BY <1>1, <1>2, <1>3, <1>4

\* A run whose normal words do not end claims so, and the verifier agrees.
LEMMA InfiniteIsRight ==
  ASSUME BInv, phase = "complete", ~IsFinite
  PROVE  /\ FinitenessHolds(certificate) /\ WordsAreRight
         /\ Verdict(certificate) = "infinite_dimensional"
         /\ certificate.finiteness.kind = "infinite" /\ certificate.finiteness.cycle # <<>>
         /\ \A n \in Nat : IsNormal(presentation, Leads,
              certificate.finiteness.prefix \o Repeated(certificate.finiteness.cycle, n))
<1>1. /\ IsFor(certificate, presentation, Leads) /\ ~IsFiniteLanguage(presentation, Leads)
      /\ certificate.normal_words = <<>>
      /\ certificate.finiteness = ClaimOf(presentation, Leads)
  BY CompleteIs DEF WordsOf
<1> PICK witness : witness = CycleWitness(presentation, Leads)
  OBVIOUS
<1>2. certificate.finiteness.kind = "infinite" /\ certificate.finiteness.prefix = witness.prefix
      /\ certificate.finiteness.cycle = witness.cycle
  BY <1>1 DEF ClaimOf
<1>3. IsWitness(certificate, presentation, Leads, witness)
  BY <1>1, WitnessIs
<1> PICK x : x = witness.prefix
  OBVIOUS
<1> PICK c : c = witness.cycle
  OBVIOUS
<1>4. /\ WitnessHolds(certificate) /\ c # EmptyWord
      /\ \A n \in Nat : IsNormal(presentation, Leads, Cat(x, Repeated(c, n)))
  BY <1>1, <1>2, <1>3, WitnessPasses
<1>5. HasCycle(certificate)
  BY <1>1, CycleDecided
<1>6. certificate.finiteness.kind # "finite"
  BY <1>2
<1>7. FinitenessHolds(certificate)
  BY <1>1, <1>4, <1>5, <1>6 DEF FinitenessHolds
<1>8. Verdict(certificate) = "infinite_dimensional"
  BY <1>6, <1>7, CompleteIs DEF Verdict
<1>9. c # <<>> /\ \A n \in Nat : IsNormal(presentation, Leads, x \o Repeated(c, n))
  BY <1>4 DEF EmptyWord, Cat
<1>10. WordsAreRight
  <2>1. 1 + Max({Len(w) : w \in Leads} \cup {0}) \in Int
    <3>1. IsFiniteSet(Leads) /\ \A w \in Leads : Len(w) \in Nat
      BY <1>1 DEF IsFor, Words
    <3>2. PICK L : L = {Len(w) : w \in Leads} \cup {0}
      OBVIOUS
    <3>3. IsFiniteSet({Len(w) : w \in Leads})
      <4> DEFINE f == [w \in Leads |-> Len(w)]
      <4>1. {Len(w) : w \in Leads} = {f[w] : w \in Leads} /\ DOMAIN f = Leads
        OBVIOUS
      <4> HIDE DEF f
      <4> QED BY <3>1, <4>1, ImageIsFinite
    <3>4. L \in SUBSET Nat /\ L # {} /\ IsFiniteSet(L)
      <4>1. IsFiniteSet({0})
        BY FS_Singleton
      <4>2. IsFiniteSet(L)
        BY <3>2, <3>3, <4>1, FS_Union
      <4> QED BY <3>1, <3>2, <4>2
    <3>5. Max(L) \in L
      BY <3>4, MaxIs
    <3> QED BY <3>2, <3>4, <3>5
  <2>2. \A n \in 0 .. 1 + Max({Len(w) : w \in Leads} \cup {0}) : n \in Nat
    BY <2>1
  <2> QED BY <1>2, <1>6, <1>9, <2>2 DEF WordsAreRight
<1> QED BY <1>2, <1>6, <1>7, <1>8, <1>9, <1>10

-----------------------------------------------------------------------------
(* The longest walks of the verifier.                                      *)

\* When the language is finite, no word that is followed is as long as the automaton has states.
LEMMA NoLongWord ==
  ASSUME NEW cert, NEW pr, NEW F, IsFor(cert, pr, F), IsFiniteLanguage(pr, F), NEW s \in States(pr, F),
         NEW x \in Words, NEW t, Follows(cert, s, x, t)
  PROVE  Len(x) <= Cardinality(States(pr, F))
<1> PICK S : S = States(pr, F)
  OBVIOUS
<1> PICK n : n = Len(x)
  OBVIOUS
<1>1. n \in Nat /\ Cardinality(S) \in Nat /\ IsFiniteSet(S)
  BY CatLen, StatesAreGraph
<1> SUFFICES ASSUME n > Cardinality(S) PROVE FALSE
  BY <1>1
<1>2. PICK h : IsRunOf(cert, h, x) /\ h[0] = s
  BY DEF Follows
<1>3. \A k \in 0 .. n : h[k] \in S
  BY <1>2, RunIs
<1>4. PICK f : f = [k \in 0 .. n |-> h[k]]
  OBVIOUS
<1>5. f \in [0 .. n -> S] /\ n >= Cardinality(S)
  BY <1>1, <1>3, <1>4
<1>6. PICK j \in 1 .. n : \E i \in 0 .. j - 1 : f[i] = f[j]
  BY <1>1, <1>5, WalkReturns
<1>7. PICK i \in 0 .. j - 1 : f[i] = f[j]
  BY <1>6
<1> PICK C : C = {f[k] : k \in i .. j - 1}
  OBVIOUS
<1>8. C \in SUBSET S /\ f[i] \in C
  BY <1>1, <1>5
<1>9. ASSUME NEW k \in i .. j - 1
      PROVE  f[k] \in S /\ f[k + 1] \in C /\ f[k + 1] \in Successors(cert, f[k])
  <2>1. k \in 0 .. n /\ k + 1 \in 1 .. n /\ k + 1 \in 0 .. n /\ (k + 1) - 1 = k
    BY <1>1
  <2>2. Moves(cert, h[(k + 1) - 1], x[k + 1], h[k + 1])
    BY <1>2, <2>1 DEF IsRunOf
  <2>3. Moves(cert, f[k], x[k + 1], f[k + 1])
    BY <1>4, <2>1, <2>2
  <2>4. f[k + 1] \in Successors(cert, f[k])
    BY <2>3, SuccessorIs
  <2>5. f[k + 1] \in C
    <3>1. CASE k = j - 1
      <4>1. k + 1 = j
        BY <3>1
      <4> QED BY <1>7, <1>8, <4>1
    <3>2. CASE k # j - 1
      <4>1. k + 1 \in i .. j - 1
        BY <3>2
      <4> QED BY <4>1
    <3> QED BY <3>1, <3>2
  <2> QED BY <1>5, <2>1, <2>4, <2>5
<1>10. Thrives(SuccOf(cert, S), C)
  <2> SUFFICES ASSUME NEW u \in C PROVE SuccOf(cert, S)[u] \cap C # {}
    BY DEF Thrives
  <2>1. PICK k \in i .. j - 1 : u = f[k]
    OBVIOUS
  <2>2. SuccOf(cert, S)[u] = Successors(cert, u)
    BY <1>8 DEF SuccOf
  <2> QED BY <1>9, <2>1, <2>2
<1>11. C \subseteq {}
  BY <1>8, <1>10, LiveIsCore DEF IsCore, IsFiniteLanguage
<1> QED BY <1>8, <1>11

\* the lengths of the words that are followed from a state, and the longest
Lengths(cert, s) == {n \in Nat : \E x \in Words : \E t : Len(x) = n /\ Follows(cert, s, x, t)}

LongestOf(cert, s) == Max(Lengths(cert, s))

\* The walks from a state have a longest one, no longer than there are states.
LEMMA LongestIs ==
  ASSUME NEW cert, NEW pr, NEW F, IsFor(cert, pr, F), IsFiniteLanguage(pr, F), NEW s \in States(pr, F)
  PROVE  /\ LongestOf(cert, s) \in Lengths(cert, s) /\ LongestOf(cert, s) \in Nat
         /\ LongestOf(cert, s) <= Cardinality(States(pr, F))
         /\ \A n \in Lengths(cert, s) : n <= LongestOf(cert, s)
<1> PICK L : L = Lengths(cert, s)
  OBVIOUS
<1> PICK c : c = Cardinality(States(pr, F))
  OBVIOUS
<1>1. c \in Nat
  BY StatesAreGraph
<1>2. L \in SUBSET Nat /\ \A n \in L : n <= c
  <2>1. \A n \in L : \E x \in Words : \E t : Len(x) = n /\ Follows(cert, s, x, t)
    BY DEF Lengths
  <2> QED BY <2>1, NoLongWord DEF Lengths
<1>3. 0 \in L
  <2>1. EmptyWord \in Words /\ Len(EmptyWord) = 0 /\ Follows(cert, s, EmptyWord, s)
    BY FollowsNothing, CatEmpty, Zenon DEF EmptyWord
  <2>2. 0 \in Lengths(cert, s)
    BY ONLY <2>1, 0 \in Nat, Zenon DEF Lengths
  <2> QED BY ONLY <2>2, L = Lengths(cert, s)
<1>4. IsFiniteSet(L)
  <2>1. IsFiniteSet(0 .. c)
    BY <1>1, FS_Interval
  <2>2. L \subseteq 0 .. c
    BY <1>1, <1>2
  <2> QED BY <2>1, <2>2, FS_Subset
<1>5. Max(L) \in L /\ \A n \in L : n <= Max(L)
  BY <1>2, <1>3, <1>4, MaxIs
<1> QED BY <1>2, <1>5 DEF LongestOf

\* what longest_walks computes for a state from those after it
FromNext(cert, s, f) == Max({0} \cup {f[t] + 1 : t \in Successors(cert, s)})

Longests(cert, S) == [s \in S |-> LongestOf(cert, s)]

\* The successors of a state are finitely many states.
LEMMA SuccessorsAre ==
  ASSUME NEW cert, NEW pr, NEW F, IsFor(cert, pr, F), NEW s \in States(pr, F)
  PROVE  Successors(cert, s) \subseteq States(pr, F) /\ IsFiniteSet(Successors(cert, s))
<1>1. Successors(cert, s) \subseteq States(pr, F)
  BY StatesAreGraph DEF IsGraph, SuccOf
<1> QED BY <1>1, StatesAreGraph, FS_Subset

\* The longest walk from a state is one more than the best from a successor.
LEMMA LongestStep ==
  ASSUME NEW cert, NEW pr, NEW F, IsFor(cert, pr, F), IsFiniteLanguage(pr, F), NEW S, S = States(pr, F),
         NEW s \in S
  PROVE  /\ LongestOf(cert, s) = FromNext(cert, s, Longests(cert, S))
         /\ \A t \in Successors(cert, s) : LongestOf(cert, t) < LongestOf(cert, s)
<1> PICK g : g = Longests(cert, S)
  OBVIOUS
<1> PICK T : T = Successors(cert, s)
  OBVIOUS
<1> PICK R : R = {0} \cup {g[t] + 1 : t \in T}
  OBVIOUS
<1> PICK m : m = LongestOf(cert, s)
  OBVIOUS
<1>1. T \subseteq S /\ IsFiniteSet(T)
  BY SuccessorsAre
<1>2. \A t \in S : g[t] = LongestOf(cert, t) /\ g[t] \in Nat /\ g[t] \in Lengths(cert, t)
  BY LongestIs DEF Longests
<1>3. m \in Lengths(cert, s) /\ m \in Nat /\ \A n \in Lengths(cert, s) : n <= m
  BY LongestIs
<1>4. R \in SUBSET Nat /\ R # {} /\ IsFiniteSet(R)
  <2>1. IsFiniteSet({g[t] + 1 : t \in T})
    <3> DEFINE f == [t \in T |-> g[t] + 1]
    <3>1. {g[t] + 1 : t \in T} = {f[t] : t \in T} /\ DOMAIN f = T
      OBVIOUS
    <3> HIDE DEF f
    <3> QED BY <1>1, <3>1, ImageIsFinite
  <2>2. IsFiniteSet({0})
    BY FS_Singleton
  <2>3. IsFiniteSet(R)
    BY <2>1, <2>2, FS_Union
  <2> QED BY <1>1, <1>2, <2>3
<1>5. Max(R) \in R /\ \A n \in R : n <= Max(R)
  BY <1>4, MaxIs
<1>6. \A t \in T : g[t] + 1 \in Lengths(cert, s)
  <2> SUFFICES ASSUME NEW t \in T PROVE g[t] + 1 \in Lengths(cert, s)
    OBVIOUS
  <2>1. PICK a : Moves(cert, s, a, t)
    BY SuccessorIs
  <2>2. a \in Nat
    BY <2>1, MoveGives
  <2>3. PICK w \in Words : \E u : Len(w) = g[t] /\ Follows(cert, t, w, u)
    BY <1>1, <1>2 DEF Lengths
  <2>4. PICK u : Len(w) = g[t] /\ Follows(cert, t, w, u)
    BY <2>3
  <2>5. Follows(cert, s, Prefixed(a, w), u)
    BY <2>1, <2>2, <2>4, FollowsWith
  <2>6. Prefixed(a, w) \in Words /\ Len(Prefixed(a, w)) = g[t] + 1
    BY <2>2, <2>4, WithIs DEF IsWith
  <2>7. g[t] + 1 \in Nat
    BY <1>1, <1>2
  <2> QED BY <2>5, <2>6, <2>7 DEF Lengths
<1>7. \A n \in R : n <= m
  <2>1. 0 <= m
    BY <1>3
  <2> QED BY <1>3, <1>6, <2>1
<1>8. \E n \in R : m <= n
  <2>1. PICK x \in Words : \E t : Len(x) = m /\ Follows(cert, s, x, t)
    BY <1>3 DEF Lengths
  <2>2. PICK t : Len(x) = m /\ Follows(cert, s, x, t)
    BY <2>1
  <2>3. CASE x = EmptyWord
    BY <1>3, <2>2, <2>3, CatEmpty DEF EmptyWord
  <2>4. CASE x # EmptyWord
    <3>1. PICK a \in Nat, w \in Words : x = Prefixed(a, w)
      BY <2>4, WithExists
    <3>2. PICK u : Moves(cert, s, a, u) /\ Follows(cert, u, w, t)
      BY <2>2, <3>1, FollowsWith
    <3>3. u \in T
      BY <3>2, SuccessorIs
    <3>4. Len(w) \in Nat /\ m = Len(w) + 1
      BY <2>2, <3>1, WithIs DEF IsWith
    <3>5. u \in S /\ Len(w) \in Lengths(cert, u)
      BY <1>1, <3>2, <3>3, <3>4 DEF Lengths
    <3>6. Len(w) <= g[u]
      BY <1>2, <3>5, LongestIs
    <3>7. g[u] + 1 \in R
      BY <3>3
    <3>8. m <= g[u] + 1
      BY <1>2, <3>4, <3>5, <3>6
    <3> QED BY <3>7, <3>8
  <2> QED BY <2>3, <2>4
<1>9. m = Max(R)
  <2>1. Max(R) \in Nat
    BY <1>4, <1>5
  <2>2. Max(R) <= m
    BY <1>5, <1>7
  <2>3. PICK n \in R : m <= n
    BY <1>8
  <2>4. n <= Max(R) /\ n \in Nat
    BY <1>4, <1>5
  <2> QED BY ONLY <1>3, <2>1, <2>2, <2>3, <2>4
<1>10. \A t \in T : g[t] < m
  <2> SUFFICES ASSUME NEW t \in T PROVE g[t] < m
    OBVIOUS
  <2>1. g[t] + 1 <= m /\ g[t] \in Nat
    BY <1>1, <1>2, <1>7
  <2> QED BY <1>3, <2>1
<1> QED BY <1>1, <1>2, <1>9, <1>10 DEF FromNext

AreLongest(cert, S, f) == f = [s \in S |-> FromNext(cert, s, f)]

\* longest_walks finds the longest words of an automaton without a cycle.
LEMMA LongestWalksAre ==
  ASSUME NEW cert, NEW pr, NEW F, IsFor(cert, pr, F), IsFiniteLanguage(pr, F), NEW S, S = States(pr, F)
  PROVE  LongestWalks(cert) = Longests(cert, S)
<1> PICK g : g = Longests(cert, S)
  OBVIOUS
<1>1. \A s \in S : g[s] = FromNext(cert, s, g) /\ g[s] = LongestOf(cert, s) /\ g[s] \in Nat
  BY LongestStep, LongestIs DEF Longests
<1>2. AreLongest(cert, S, g)
  <2>1. g = [s \in S |-> g[s]]
    BY DEF Longests
  <2> QED BY <1>1, <2>1 DEF AreLongest
<1>3. PICK f : f = CHOOSE h : AreLongest(cert, S, h)
  OBVIOUS
<1>4. AreLongest(cert, S, f)
  BY <1>2, <1>3
<1>5. LongestWalks(cert) = f
  BY <1>3, StatesAre DEF LongestWalks, AreLongest, FromNext
<1> DEFINE P == {n \in Nat : \A s \in S : g[s] < n => f[s] = g[s]}
<1>6. 0 \in P
  BY <1>1
<1>7. ASSUME NEW n \in Nat, n \in P PROVE n + 1 \in P
  <2> SUFFICES ASSUME NEW s \in S, g[s] < n + 1 PROVE f[s] = g[s]
    OBVIOUS
  <2>1. \A t \in Successors(cert, s) : t \in S /\ g[t] < g[s]
    BY <1>1, SuccessorsAre, LongestStep
  <2>2. \A t \in Successors(cert, s) : f[t] = g[t]
    <3> SUFFICES ASSUME NEW t \in Successors(cert, s) PROVE f[t] = g[t]
      OBVIOUS
    <3>1. t \in S /\ g[t] < n
      <4>1. t \in S /\ g[t] < g[s]
        BY <2>1
      <4>2. g[t] \in Nat /\ g[s] \in Nat
        BY <1>1, <4>1
      <4> QED BY <4>1, <4>2
    <3> QED BY <1>7, <3>1
  <2>3. FromNext(cert, s, f) = FromNext(cert, s, g)
    <3>1. {f[t] + 1 : t \in Successors(cert, s)} = {g[t] + 1 : t \in Successors(cert, s)}
      BY <2>2
    <3> QED BY <3>1 DEF FromNext
  <2>4. f[s] = FromNext(cert, s, f)
    BY <1>4 DEF AreLongest
  <2> QED BY <1>1, <2>3, <2>4
<1>8. Nat \subseteq P
  <2> HIDE DEF P
  <2> QED BY <1>6, <1>7, SetInduction
<1>9. \A s \in S : f[s] = g[s]
  <2> SUFFICES ASSUME NEW s \in S PROVE f[s] = g[s]
    OBVIOUS
  <2>1. g[s] + 1 \in P /\ g[s] < g[s] + 1
    BY <1>1, <1>8
  <2> QED BY <2>1
<1>10. f = [s \in S |-> f[s]] /\ g = [s \in S |-> g[s]]
  BY <1>4 DEF AreLongest, Longests
<1> QED BY <1>5, <1>9, <1>10

-----------------------------------------------------------------------------
(* The walks of one length.                                                *)

\* the edges of a state in the order of their arrows
EdgesInOrder(E) == Sorted(E, LAMBDA d, e : d[1] < e[1])

EdgesListed(order, E) ==
  /\ DOMAIN order = 1 .. Len(order) /\ Len(order) \in Nat
  /\ \A k \in DOMAIN order : order[k] \in E
  /\ \A e \in E : \E k \in DOMAIN order : order[k] = e
  /\ \A j, k \in DOMAIN order : j < k => order[j][1] < order[k][1]

\* The edges of a state are moves to successors, one for an arrow.
LEMMA EdgeIs ==
  ASSUME NEW cert, NEW pr, NEW F, IsFor(cert, pr, F), NEW s \in States(pr, F)
  PROVE  /\ IsFiniteSet(Edges(cert, s))
         /\ \A e \in Edges(cert, s) : /\ e[1] \in Nat /\ e[2] \in States(pr, F) /\ e[2] \in Successors(cert, s)
                                      /\ Moves(cert, s, e[1], e[2])
         /\ \A d, e \in Edges(cert, s) : d[1] = e[1] => d = e
<1>1. ASSUME NEW e \in Edges(cert, s)
      PROVE  /\ e = <<e[1], e[2]>> /\ e[1] \in DOMAIN pr.arrows /\ e[1] \in Nat /\ e[2] \in States(pr, F)
             /\ e[2] \in Successors(cert, s) /\ Moves(cert, s, e[1], e[2])
  <2>1. e = <<e[1], e[2]>>
    BY MoveIs
  <2>2. Moves(cert, s, e[1], e[2])
    BY <2>1 DEF Moves
  <2>3. e[1] \in DOMAIN pr.arrows /\ e[1] \in Nat /\ e[2] \in States(pr, F)
    BY <2>2, MoveGives
  <2>4. e[2] \in Successors(cert, s)
    BY <2>2, SuccessorIs
  <2> QED BY <2>1, <2>2, <2>3, <2>4
<1>2. IsFiniteSet(Edges(cert, s))
  <2>1. IsFiniteSet(DOMAIN pr.arrows) /\ IsFiniteSet(States(pr, F))
    <3>1. Len(pr.arrows) \in Nat /\ DOMAIN pr.arrows = 1 .. Len(pr.arrows)
      BY DEF IsFor
    <3>2. IsFiniteSet(1 .. Len(pr.arrows))
      BY <3>1, FS_Interval
    <3> QED BY <3>1, <3>2, StatesAreGraph
  <2>2. IsFiniteSet((DOMAIN pr.arrows) \X States(pr, F))
    BY <2>1, FS_Product
  <2>3. Edges(cert, s) \subseteq (DOMAIN pr.arrows) \X States(pr, F)
    BY <1>1
  <2> QED BY <2>2, <2>3, FS_Subset
<1>3. ASSUME NEW d \in Edges(cert, s), NEW e \in Edges(cert, s), d[1] = e[1] PROVE d = e
  <2>1. Moves(cert, s, d[1], d[2]) /\ Moves(cert, s, d[1], e[2]) /\ d = <<d[1], d[2]>> /\ e = <<d[1], e[2]>>
    BY <1>1, <1>3
  <2>2. d[2] = e[2]
    BY <2>1, MoveGives
  <2> QED BY <2>1, <2>2
<1> QED BY <1>1, <1>2, <1>3

\* Words of one arrow are in the order of their arrows.
LEMMA ArrowOrder ==
  ASSUME NEW a \in Nat, NEW b \in Nat
  PROVE  /\ <<a>> \in Words /\ (<<a>> = <<b>> => a = b)
         /\ WordLess(<<a>>, <<b>>) <=> a < b
<1>1. <<a>> \in Words /\ <<b>> \in Words /\ Len(<<a>>) = 1 /\ Len(<<b>>) = 1 /\ <<a>>[1] = a /\ <<b>>[1] = b
  BY DEF Words
<1>2. WordLess(<<a>>, <<b>>) <=> LexLess(<<a>>, <<b>>)
  BY <1>1 DEF WordLess
<1>3. LexLess(<<a>>, <<b>>) <=> \E k \in 1 .. 1 : <<a>>[k] < <<b>>[k]
        /\ \A j \in 1 .. k - 1 : <<a>>[j] = <<b>>[j]
  BY <1>1, LexAtFirst
<1>4. (\E k \in 1 .. 1 : <<a>>[k] < <<b>>[k] /\ \A j \in 1 .. k - 1 : <<a>>[j] = <<b>>[j]) <=> a < b
  <2>1. 1 .. 1 = {1} /\ 1 .. 1 - 1 = {}
    OBVIOUS
  <2> QED BY <1>1, <2>1
<1> QED BY <1>1, <1>2, <1>3, <1>4

\* Edges put in order come in the order of their arrows, each once.
LEMMA EdgesAreListed ==
  ASSUME NEW cert, NEW pr, NEW F, IsFor(cert, pr, F), NEW s \in States(pr, F), NEW E \in SUBSET Edges(cert, s),
         NEW order, order = EdgesInOrder(E)
  PROVE  EdgesListed(order, E)
<1> PICK L : L = [e \in E |-> <<e[1]>>]
  OBVIOUS
<1>1. /\ IsFiniteSet(E) /\ \A e \in E : e[1] \in Nat
      /\ \A d, e \in E : d[1] = e[1] => d = e
  BY EdgeIs, FS_Subset
<1>2. HaveDistinctWords(E, L)
  BY <1>1, ArrowOrder DEF HaveDistinctWords
<1>3. \A d, e \in E : d[1] < e[1] <=> WordLess(L[d], L[e])
  BY <1>1, ArrowOrder
<1> DEFINE Less1(x) == {y \in E : y[1] < x[1]}
           Less2(x) == {y \in E : WordLess(L[y], L[x])}
<1>4. \A x \in E : Less1(x) = Less2(x)
  BY <1>3
<1>5. /\ DOMAIN order = 1 .. Cardinality(E)
      /\ \A n \in DOMAIN order : order[n] = CHOOSE x \in E : Cardinality(Less1(x)) = n - 1
  BY DEF EdgesInOrder, Sorted
<1>6. ASSUME NEW n \in DOMAIN order, NEW x \in E, Cardinality(Less2(x)) = n - 1
      PROVE  order[n] \in E /\ Cardinality(Less2(order[n])) = n - 1
  <2>1. order[n] = CHOOSE y \in E : Cardinality(Less1(y)) = n - 1
    BY <1>5
  <2>2. Cardinality(Less1(x)) = n - 1
    BY <1>4, <1>6
  <2> HIDE DEF Less1, Less2
  <2>3. order[n] \in E /\ Cardinality(Less1(order[n])) = n - 1
    BY <2>1, <2>2
  <2> QED BY <1>4, <2>3
<1>7. IsSorting(E, L, order)
  BY <1>5, <1>6 DEF IsSorting
<1>8. Cardinality(E) \in Nat /\ Lists(order, Cardinality(E), E)
  BY <1>1, <1>2, <1>7, SortedIs
<1> PICK q : q = [k \in DOMAIN order |-> L[order[k]]]
  OBVIOUS
<1>9. (\A k \in DOMAIN order : order[k] \in E) /\ IsListing(q, {L[x] : x \in E})
  BY <1>1, <1>2, <1>7, SortedLists, SMTT(30)
<1>10. ASSUME NEW j \in DOMAIN order, NEW k \in DOMAIN order, j < k PROVE order[j][1] < order[k][1]
  <2>1. WordLess(q[j], q[k])
    BY <1>9, <1>10 DEF IsListing
  <2>2. order[j] \in E /\ order[k] \in E /\ q[j] = L[order[j]] /\ q[k] = L[order[k]]
    BY <1>9
  <2> QED BY <1>3, <2>1, <2>2
<1>11. Len(order) = Cardinality(E)
  BY <1>5, <1>8
<1> QED BY <1>5, <1>8, <1>9, <1>10, <1>11 DEF EdgesListed, Lists

\* the words of a length that are followed from a state
FollowedFrom(cert, s, n) == {w \in Words : Len(w) = n /\ \E t : Follows(cert, s, w, t)}

LongEnough(cert, g, s, n) == {e \in Edges(cert, s) : g[e[2]] + 1 >= n}

WalksFrom(cert, g, f, s, n) ==
  LET edges == EdgesInOrder(LongEnough(cert, g, s, n)) IN
       FlattenSeq([k \in DOMAIN edges |->
         LET rest == f[edges[k][2]] IN
         [m \in DOMAIN rest |-> <<edges[k][1]>> \o rest[m]]])

\* Only the empty word is followed in no arrow.
LEMMA FollowedNone ==
  ASSUME NEW cert, NEW s
  PROVE  FollowedFrom(cert, s, 0) = {EmptyWord}
<1>1. \A w \in Words : Len(w) = 0 => w = EmptyWord
  BY DEF Words, EmptyWord
<1>2. EmptyWord \in Words /\ Len(EmptyWord) = 0
  BY CatEmpty DEF EmptyWord
<1>3. Follows(cert, s, EmptyWord, s)
  BY FollowsNothing
<1> QED BY <1>1, <1>2, <1>3 DEF FollowedFrom

\* From the words one arrow shorter that are followed from the next states, the walk lists
\* those of a state: what it leaves out has no word that long.
LEMMA WalksGrow ==
  ASSUME NEW cert, NEW pr, NEW F, IsFor(cert, pr, F), IsFiniteLanguage(pr, F), NEW S, S = States(pr, F),
         NEW g, g = Longests(cert, S), NEW s \in S, NEW n \in Nat \ {0}, NEW f,
         \A t \in Successors(cert, s) : IsListing(f[t], FollowedFrom(cert, t, n - 1))
  PROVE  IsListing(WalksFrom(cert, g, f, s, n), FollowedFrom(cert, s, n))
<1> PICK E : E = LongEnough(cert, g, s, n)
  OBVIOUS
<1> PICK order : order = EdgesInOrder(E)
  OBVIOUS
<1> PICK D : D = DOMAIN order
  OBVIOUS
<1>1. E \in SUBSET Edges(cert, s)
  BY DEF LongEnough
<1>2. EdgesListed(order, E)
  BY <1>1, EdgesAreListed
<1>3. \A k \in D : order[k] \in E /\ order[k][1] \in Nat /\ order[k][2] \in S
        /\ order[k][2] \in Successors(cert, s)
        /\ Moves(cert, s, order[k][1], order[k][2])
  BY <1>1, <1>2, EdgeIs DEF EdgesListed
<1> PICK l : l = Len(order)
  OBVIOUS
<1>4. D = 1 .. l /\ l \in Nat
  BY <1>2 DEF EdgesListed
<1> PICK A : A = [k \in D |-> order[k][1]]
  OBVIOUS
<1> PICK R : R = [k \in D |-> f[order[k][2]]]
  OBVIOUS
<1> PICK W : W = [k \in D |-> FollowedFrom(cert, order[k][2], n - 1)]
  OBVIOUS
<1>5. \A k \in D : A[k] \in Nat /\ IsListing(R[k], W[k]) /\ R[k] \in Seq(Words)
  BY <1>3 DEF IsListing
<1> PICK qs : qs = [k \in D |-> MapOf(PrefixedAll(A[k]), R[k])]
  OBVIOUS
<1> PICK T : T = [k \in D |-> {Prefixed(A[k], w) : w \in W[k]}]
  OBVIOUS
<1>6. \A k \in D : IsListing(qs[k], T[k])
  <2> SUFFICES ASSUME NEW k \in D PROVE IsListing(qs[k], T[k])
    OBVIOUS
  <2>1. IsListing(MapOf(PrefixedAll(A[k]), R[k]), {Prefixed(A[k], w) : w \in W[k]})
    BY <1>5, ListingWith
  <2> QED BY <2>1
<1>7. qs \in Seq(Seq(Words)) /\ DOMAIN qs = D /\ DOMAIN T = D
  <2>0. \A k \in D : qs[k] \in Seq(Words)
    BY ONLY <1>6 DEF IsListing
  <2>1. qs \in [1 .. l -> Seq(Words)]
    BY <1>4, <2>0
  <2> QED BY <1>4, <2>1
<1>8. \A w \in Words : \A k \in D : w \in W[k] => Len(w) = n - 1
  BY DEF FollowedFrom
<1>9. \A k \in D : W[k] \subseteq Words
  BY DEF FollowedFrom
<1>10. ASSUME NEW j \in D, NEW k \in D, j < k, NEW u \in T[j], NEW w \in T[k] PROVE WordLess(u, w)
  <2>1. PICK x \in W[j] : u = Prefixed(A[j], x)
    OBVIOUS
  <2>2. PICK y \in W[k] : w = Prefixed(A[k], y)
    OBVIOUS
  <2>3. A[j] < A[k]
    BY <1>2, <1>10 DEF EdgesListed
  <2>4. x \in Words /\ y \in Words /\ Len(x) = Len(y)
    BY <1>8, <1>9
  <2> QED BY <1>5, <2>1, <2>2, <2>3, <2>4, WithFirst
<1>11. AreBlocks(qs, T)
  BY ONLY <1>6, <1>7, <1>10 DEF AreBlocks
<1>12. IsListing(FlattenSeq(qs), UNION {T[k] : k \in D})
  <2>1. IsListing(FlattenSeq(qs), UNION {T[k] : k \in DOMAIN qs})
    BY ONLY <1>11, ListingBlocks
  <2> QED BY ONLY <1>7, <2>1
<1>13. WalksFrom(cert, g, f, s, n) = FlattenSeq(qs)
  <2>1. \A k \in D : qs[k] = [m \in DOMAIN R[k] |-> <<A[k]>> \o R[k][m]]
    <3> SUFFICES ASSUME NEW k \in D PROVE qs[k] = [m \in DOMAIN R[k] |-> <<A[k]>> \o R[k][m]]
      OBVIOUS
    <3>1. \A m \in DOMAIN R[k] : R[k][m] \in Words
      BY <1>5, ListIs
    <3>2. \A m \in DOMAIN R[k] : PrefixedAll(A[k])[R[k][m]] = <<A[k]>> \o R[k][m]
      BY <3>1 DEF PrefixedAll, Prefixed, Cat
    <3>3. qs[k] = MapOf(PrefixedAll(A[k]), R[k])
      OBVIOUS
    <3>4. MapOf(PrefixedAll(A[k]), R[k]) = [m \in DOMAIN R[k] |-> PrefixedAll(A[k])[R[k][m]]]
      BY ONLY DEF MapOf
    <3> QED BY ONLY <3>2, <3>3, <3>4
  <2>2. \A k \in D : qs[k] = [m \in DOMAIN f[order[k][2]] |-> <<order[k][1]>> \o f[order[k][2]][m]]
    BY <2>1
  <2>3. qs = [k \in D |-> [m \in DOMAIN f[order[k][2]] |-> <<order[k][1]>> \o f[order[k][2]][m]]]
    <3> PICK h : h = [k \in D |-> [m \in DOMAIN f[order[k][2]] |-> <<order[k][1]>> \o f[order[k][2]][m]]]
      OBVIOUS
    <3>1. qs = [k \in D |-> qs[k]] /\ h = [k \in D |-> h[k]]
      OBVIOUS
    <3>2. \A k \in D : h[k] = qs[k]
      BY <2>2
    <3>3. qs = h
      BY ONLY <3>1, <3>2
    <3> QED BY <3>3
  <2> QED BY <2>3, ZenonT(30) DEF WalksFrom
<1>14. ASSUME NEW k \in D, NEW w \in W[k] PROVE Prefixed(A[k], w) \in FollowedFrom(cert, s, n)
  <2>1. w \in Words /\ Len(w) = n - 1
    BY <1>8, <1>9
  <2>2. PICK t : Follows(cert, order[k][2], w, t)
    BY DEF FollowedFrom
  <2> PICK a \in Nat : a = A[k] /\ Moves(cert, s, a, order[k][2])
    BY <1>3
  <2>3. Follows(cert, s, Prefixed(a, w), t)
    BY <2>1, <2>2, FollowsWith
  <2>4. IsWith(Prefixed(a, w), a, w)
    BY <2>1, WithIs
  <2>5. Prefixed(a, w) \in Words /\ Len(Prefixed(a, w)) = n
    BY ONLY <2>1, <2>4, n \in Nat DEF IsWith
  <2>6. Prefixed(a, w) \in FollowedFrom(cert, s, n)
    BY ONLY <2>3, <2>5 DEF FollowedFrom
  <2> QED BY <2>6
<1>15. ASSUME NEW x \in FollowedFrom(cert, s, n) PROVE \E k \in D : x \in T[k]
  <2>1. x \in Words /\ Len(x) = n
    BY DEF FollowedFrom
  <2>2. x # EmptyWord
    BY <2>1, CatEmpty DEF EmptyWord
  <2>3. PICK a \in Nat, w \in Words : x = Prefixed(a, w)
    BY <2>1, <2>2, WithExists
  <2>4. PICK t : Follows(cert, s, Prefixed(a, w), t)
    BY <2>3 DEF FollowedFrom
  <2>5. PICK u : Moves(cert, s, a, u) /\ Follows(cert, u, w, t)
    BY <2>4, FollowsWith
  <2>6. Len(w) = n - 1
    <3>1. Len(w) \in Nat /\ n = Len(w) + 1
      BY <2>1, <2>3, WithIs DEF IsWith
    <3> QED BY ONLY <3>1
  <2>7. u \in S
    BY <2>5, MoveGives
  <2>8. n - 1 <= g[u]
    <3>1. n - 1 \in Lengths(cert, u)
      BY <2>5, <2>6 DEF Lengths
    <3>2. n - 1 <= LongestOf(cert, u)
      BY <2>7, <3>1, LongestIs
    <3> QED BY <2>7, <3>2 DEF Longests
  <2>9. g[u] \in Nat
    BY <2>7, LongestIs DEF Longests
  <2>10. <<a, u>> \in E
    <3>1. <<a, u>> \in Edges(cert, s)
      BY <2>5 DEF Moves
    <3>2. g[u] + 1 >= n
      BY <2>8, <2>9
    <3> QED BY <3>1, <3>2 DEF LongEnough
  <2>11. PICK k \in D : order[k] = <<a, u>>
    BY <1>2, <2>10 DEF EdgesListed
  <2>12. w \in W[k]
    BY <2>5, <2>6, <2>11 DEF FollowedFrom
  <2>13. A[k] = a
    BY <2>11
  <2>14. T[k] = {Prefixed(A[k], v) : v \in W[k]}
    OBVIOUS
  <2> QED BY ONLY <2>3, <2>12, <2>13, <2>14
<1>16. UNION {T[k] : k \in D} = FollowedFrom(cert, s, n)
  <2>0. \A k \in D : T[k] = {Prefixed(A[k], w) : w \in W[k]}
    OBVIOUS
  <2>1. \A k \in D : \A x \in T[k] : x \in FollowedFrom(cert, s, n)
    BY ONLY <1>14, <2>0
  <2>2. \A x \in FollowedFrom(cert, s, n) : \E k \in D : x \in T[k]
    BY ONLY <1>15
  <2> QED BY ONLY <2>1, <2>2
<1> QED BY <1>12, <1>13, <1>16

AreWalks(cert, g, S, n, f) ==
  f = [k \in 0 .. n |-> IF k = 0 THEN [s \in S |-> <<<<>>>>]
                        ELSE [s \in S |-> WalksFrom(cert, g, f[k - 1], s, k)]]

ListsAll(cert, S, n, q) == \A s \in S : IsListing(q[s], FollowedFrom(cert, s, n))

\* The list of the walks of length n + 1, from the lists of those of length n.
LEMMA WalksMore ==
  ASSUME NEW cert, NEW pr, NEW F, IsFor(cert, pr, F), IsFiniteLanguage(pr, F), NEW S, S = States(pr, F),
         NEW g, g = Longests(cert, S), NEW n \in Nat \ {0}, NEW q, ListsAll(cert, S, n - 1, q), NEW s \in S
  PROVE  IsListing(WalksFrom(cert, g, q, s, n), FollowedFrom(cert, s, n))
<1>1. Successors(cert, s) \subseteq S
  BY SuccessorsAre
<1>2. \A t \in Successors(cert, s) : IsListing(q[t], FollowedFrom(cert, t, n - 1))
  BY <1>1 DEF ListsAll
<1> QED BY <1>2, WalksGrow

\* The lists of the walks of length 0.
LEMMA WalksNone ==
  ASSUME NEW cert, NEW S
  PROVE  ListsAll(cert, S, 0, [s \in S |-> <<<<>>>>])
<1> SUFFICES ASSUME NEW s \in S PROVE IsListing(<<<<>>>>, FollowedFrom(cert, s, 0))
  BY DEF ListsAll
<1>1. <<>> \in Words
  BY CatEmpty
<1>2. IsListing(<<<<>>>>, {<<>>})
  BY <1>1, ShortListings
<1> QED BY <1>2, FollowedNone DEF EmptyWord

\* The walk of the verifier lists the words of each length that are followed from each state.
LEMMA WalksAre ==
  ASSUME NEW cert, NEW pr, NEW F, IsFor(cert, pr, F), IsFiniteLanguage(pr, F), NEW S, S = States(pr, F),
         NEW g, g = Longests(cert, S), NEW n \in Nat, NEW h, h = CHOOSE f : AreWalks(cert, g, S, n, f)
  PROVE  \A k \in 0 .. n : ListsAll(cert, S, k, h[k])
<1> DEFINE Chosen(k) == [s \in S |-> CHOOSE q : IsListing(q, FollowedFrom(cert, s, k))]
           none == [s \in S |-> <<<<>>>>]
           P == {k \in Nat : ListsAll(cert, S, k, Chosen(k))}
           Q == {k \in Nat : k <= n => ListsAll(cert, S, k, h[k])}
<1>1. \A k \in Nat : \A c : ListsAll(cert, S, k, c) => ListsAll(cert, S, k, Chosen(k))
  <2> SUFFICES ASSUME NEW k \in Nat, NEW c, ListsAll(cert, S, k, c), NEW s \in S
               PROVE  IsListing(Chosen(k)[s], FollowedFrom(cert, s, k))
    BY DEF ListsAll
  <2>1. IsListing(c[s], FollowedFrom(cert, s, k))
    BY DEF ListsAll
  <2>2. Chosen(k)[s] = CHOOSE q : IsListing(q, FollowedFrom(cert, s, k))
    OBVIOUS
  <2> HIDE DEF Chosen
  <2> QED BY <2>1, <2>2
<1>2. ListsAll(cert, S, 0, none)
  BY WalksNone
<1>3. 0 \in P
  <2> HIDE DEF Chosen, none
  <2> QED BY <1>1, <1>2
<1>4. ASSUME NEW k \in Nat, NEW q, ListsAll(cert, S, k, q)
      PROVE  ListsAll(cert, S, k + 1, [s \in S |-> WalksFrom(cert, g, q, s, k + 1)])
  <2> SUFFICES ASSUME NEW s \in S PROVE IsListing(WalksFrom(cert, g, q, s, k + 1), FollowedFrom(cert, s, k + 1))
    BY DEF ListsAll
  <2>1. k + 1 \in Nat \ {0} /\ (k + 1) - 1 = k
    OBVIOUS
  <2> PICK m \in Nat \ {0} : m = k + 1 /\ m - 1 = k
    BY <2>1
  <2>2. ListsAll(cert, S, m - 1, q)
    BY <1>4
  <2>3. IsListing(WalksFrom(cert, g, q, s, m), FollowedFrom(cert, s, m))
    BY <2>2, WalksMore
  <2> QED BY <2>3
<1>5. ASSUME NEW k \in Nat, k \in P PROVE k + 1 \in P
  <2>1. ListsAll(cert, S, k, Chosen(k)) /\ k + 1 \in Nat
    BY <1>5
  <2> HIDE DEF Chosen
  <2> QED BY <1>1, <1>4, <2>1
<1>6. Nat \subseteq P
  <2> HIDE DEF P
  <2> QED BY <1>3, <1>5, SetInduction
<1>7. \A k \in Nat : ListsAll(cert, S, k, Chosen(k))
  BY <1>6
<1> PICK w : w = [k \in 0 .. n |-> Chosen(k)]
  OBVIOUS
<1>8. \A k \in 0 .. n : w[k] = Chosen(k) /\ ListsAll(cert, S, k, w[k])
  <2> HIDE DEF Chosen, P
  <2>1. \A k \in 0 .. n : k \in Nat
    OBVIOUS
  <2> QED BY <1>7, <2>1
<1>9. \A k \in Nat : \A q, r \in [S -> Seq(Words)] : ListsAll(cert, S, k, q) /\ ListsAll(cert, S, k, r) => q = r
  <2> SUFFICES ASSUME NEW k \in Nat, NEW q \in [S -> Seq(Words)], NEW r \in [S -> Seq(Words)],
                      ListsAll(cert, S, k, q), ListsAll(cert, S, k, r)
               PROVE  q = r
    OBVIOUS
  <2>1. \A s \in S : IsListing(q[s], FollowedFrom(cert, s, k)) /\ IsListing(r[s], FollowedFrom(cert, s, k))
    BY DEF ListsAll
  <2>2. \A s \in S : q[s] = r[s]
    BY <2>1, ListedOnce
  <2> QED BY <2>2
<1>10. \A k \in Nat : \A q : ListsAll(cert, S, k, [s \in S |-> q[s]]) =>
         [s \in S |-> q[s]] \in [S -> Seq(Words)]
  BY DEF ListsAll, IsListing
<1>11. AreWalks(cert, g, S, n, w)
  <2> SUFFICES ASSUME NEW k \in 0 .. n
               PROVE  w[k] = IF k = 0 THEN none ELSE [s \in S |-> WalksFrom(cert, g, w[k - 1], s, k)]
    BY DEF AreWalks
  <2>1. w[k] = [s \in S |-> w[k][s]] /\ ListsAll(cert, S, k, w[k])
    BY <1>8
  <2>2. CASE k = 0
    <3>1. none = [s \in S |-> none[s]]
      OBVIOUS
    <3>2. none \in [S -> Seq(Words)] /\ w[k] \in [S -> Seq(Words)]
      <4> HIDE DEF none, Chosen
      <4> QED BY <1>2, <2>1, <2>2, <3>1 DEF ListsAll, IsListing
    <3> HIDE DEF none, Chosen
    <3> QED BY <1>2, <1>9, <2>1, <2>2, <3>2
  <2>3. CASE k # 0
    <3> PICK j : j = k - 1
      OBVIOUS
    <3>1. j \in Nat /\ j \in 0 .. n /\ j + 1 = k
      BY <2>3
    <3>2. ListsAll(cert, S, j, w[j])
      BY <1>8, <3>1
    <3> PICK q : q = [s \in S |-> WalksFrom(cert, g, w[j], s, k)]
      OBVIOUS
    <3>3. ListsAll(cert, S, k, q)
      BY <1>4, <3>1, <3>2
    <3>4. q \in [S -> Seq(Words)] /\ w[k] \in [S -> Seq(Words)]
      <4> HIDE DEF Chosen
      <4>1. q = [s \in S |-> q[s]]
        OBVIOUS
      <4> QED BY <2>1, <3>3, <4>1 DEF ListsAll, IsListing
    <3>5. w[k] = q
      <4> HIDE DEF none, Chosen
      <4> QED BY <1>9, <2>1, <3>3, <3>4
    <3>6. w[k] = [s \in S |-> WalksFrom(cert, g, w[k - 1], s, k)]
      BY ONLY <3>5, q = [s \in S |-> WalksFrom(cert, g, w[j], s, k)], j = k - 1
    <3> QED BY ONLY <2>3, <3>6
  <2> QED BY <2>2, <2>3
<1>12. AreWalks(cert, g, S, n, h)
  <2> HIDE DEF Chosen
  <2> QED BY <1>11
<1>13. 0 \in Q
  <2>1. 0 \in 0 .. n
    OBVIOUS
  <2>2. h[0] = none
    BY <1>12, <2>1 DEF AreWalks
  <2> HIDE DEF none
  <2> QED BY <1>2, <2>2
<1>14. ASSUME NEW k \in Nat, k \in Q PROVE k + 1 \in Q
  <2> SUFFICES ASSUME k + 1 <= n PROVE ListsAll(cert, S, k + 1, h[k + 1])
    OBVIOUS
  <2>1. k + 1 \in 0 .. n /\ k <= n /\ (k + 1) - 1 = k /\ k + 1 # 0
    OBVIOUS
  <2>2. h[k + 1] = [s \in S |-> WalksFrom(cert, g, h[k], s, k + 1)]
    <3> PICK m \in 0 .. n : m = k + 1 /\ m - 1 = k /\ m # 0
      BY <2>1
    <3>1. h[m] = [s \in S |-> WalksFrom(cert, g, h[m - 1], s, m)]
      BY ONLY <1>12, m # 0, m \in 0 .. n DEF AreWalks
    <3> QED BY ONLY <3>1, m = k + 1, m - 1 = k
  <2>3. ListsAll(cert, S, k, h[k])
    BY <1>14, <2>1
  <2> QED BY <1>4, <2>2, <2>3
<1>15. Nat \subseteq Q
  <2> HIDE DEF Q
  <2> QED BY <1>13, <1>14, SetInduction
<1> QED BY <1>15

-----------------------------------------------------------------------------
(* The order of the normal words.                                          *)

\* the order of the normal words: by length, source and arrows
ComesBefore(a, u, b, w) ==
  \/ Len(u) < Len(w)
  \/ Len(u) = Len(w) /\ a < b
  \/ Len(u) = Len(w) /\ a = b /\ LexLess(u, w)

\* It is the order of the words with their source before them.
LEMMA KeyedOrder ==
  ASSUME NEW a \in Nat, NEW u \in Words, NEW b \in Nat, NEW w \in Words
  PROVE  WordLess(Prefixed(a, u), Prefixed(b, w)) <=> ComesBefore(a, u, b, w)
<1>1. ASSUME NEW c \in Nat, NEW x \in Words, NEW d \in Nat, NEW y \in Words, ComesBefore(c, x, d, y)
      PROVE  WordLess(Prefixed(c, x), Prefixed(d, y))
  <2>1. CASE Len(x) < Len(y)
    <3>1. IsWith(Prefixed(c, x), c, x) /\ IsWith(Prefixed(d, y), d, y)
      BY WithIs
    <3>2. Len(Prefixed(c, x)) < Len(Prefixed(d, y))
      BY ONLY <2>1, <3>1 DEF IsWith
    <3> QED BY <3>2 DEF WordLess
  <2>2. CASE Len(x) = Len(y) /\ c < d
    BY <2>2, WithFirst
  <2>3. CASE Len(x) = Len(y) /\ c = d /\ LexLess(x, y)
    <3>1. WordLess(x, y)
      BY <2>3 DEF WordLess
    <3>2. WordLess(Prefixed(c, x), Prefixed(c, y))
      BY <3>1, WithOrder
    <3> QED BY <2>3, <3>2
  <2> QED BY <1>1, <2>1, <2>2, <2>3 DEF ComesBefore
<1>2. ASSUME WordLess(Prefixed(a, u), Prefixed(b, w)), ~ComesBefore(a, u, b, w)
      PROVE  FALSE
  <2> PICK x \in Words : x = Prefixed(a, u)
    BY WithIs DEF IsWith
  <2> PICK y \in Words : y = Prefixed(b, w)
    BY WithIs DEF IsWith
  <2>1. x # y /\ ~WordLess(y, x)
    BY <1>2, WordOrder
  <2>2. ~ComesBefore(b, w, a, u)
    BY <1>1, <2>1
  <2>3. Len(u) \in Nat /\ Len(w) \in Nat
    BY CatLen
  <2>4. Len(u) = Len(w)
    BY <1>2, <2>2, <2>3 DEF ComesBefore
  <2>5. a = b
    BY <1>2, <2>2, <2>4 DEF ComesBefore
  <2>6. u # w
    BY <2>1, <2>5
  <2>7. LexLess(u, w) \/ LexLess(w, u)
    BY <2>4, <2>6, LexIsOrder
  <2> QED BY <1>2, <2>2, <2>4, <2>5, <2>7 DEF ComesBefore
<1> QED BY <1>1, <1>2

\* a word without its first arrow
Rest == [x \in Words |-> SubSeq(x, 2, Len(x))]

\* A word without the number put before it.
LEMMA RestIs ==
  ASSUME NEW a \in Nat, NEW w \in Words
  PROVE  Rest \in [Words -> Words] /\ Rest[Prefixed(a, w)] = w
<1>1. ASSUME NEW x \in Words PROVE SubSeq(x, 2, Len(x)) \in Words
  BY DEF Words
<1>2. Rest \in [Words -> Words]
  BY <1>1 DEF Rest
<1> PICK x : x = Prefixed(a, w)
  OBVIOUS
<1>3. x \in Words /\ Len(w) \in Nat /\ Len(x) = Len(w) + 1 /\ \A i \in 1 .. Len(w) : x[i + 1] = w[i]
  BY WithIs DEF IsWith
<1> PICK n \in Nat : n = Len(w)
  BY <1>3
<1>4. SubSeq(x, 2, n + 1) \in Words /\ Len(SubSeq(x, 2, n + 1)) = n
      /\ \A i \in 1 .. n : SubSeq(x, 2, n + 1)[i] = x[i + 1]
  <2>1. x \in Seq(Nat) /\ Len(x) = n + 1
    BY <1>3 DEF Words
  <2>2. 2 \in 1 .. Len(x) + 1 /\ n + 1 \in 1 .. Len(x)
    BY <2>1
  <2>3. Len(SubSeq(x, 2, n + 1)) = n
    BY <2>1
  <2>4. SubSeq(x, 2, n + 1) \in Seq(Nat)
    BY <2>1
  <2>5. ASSUME NEW i \in 1 .. n PROVE SubSeq(x, 2, n + 1)[i] = x[i + 1]
    <3>1. SubSeq(x, 2, n + 1)[i] = x[2 + i - 1]
      BY <2>1
    <3>2. 2 + i - 1 = i + 1
      OBVIOUS
    <3> QED BY <3>1, <3>2
  <2> QED BY <2>3, <2>4, <2>5 DEF Words
<1> PICK y : y = SubSeq(x, 2, n + 1)
  OBVIOUS
<1>5. y = w
  <2>1. y \in Words /\ w \in Words /\ Len(y) = Len(w) /\ \A i \in 1 .. Len(y) : y[i] = w[i]
    BY <1>3, <1>4
  <2> QED BY ONLY <2>1, WordEqual
<1>6. Rest[x] = SubSeq(x, 2, Len(x))
  BY <1>3 DEF Rest
<1> QED BY <1>2, <1>3, <1>5, <1>6

\* A list of words is what is left of it without the source that was put before them.
LEMMA RestOfList ==
  ASSUME NEW a \in Nat, NEW q \in Seq(Words)
  PROVE  MapOf(Rest, MapOf(PrefixedAll(a), q)) = q /\ MapOf(PrefixedAll(a), q) \in Seq(Words)
<1>1. PrefixedAll(a) \in [Words -> Words]
  BY WithIs DEF PrefixedAll, IsWith
<1>2. Rest \in [Words -> Words]
  BY RestIs, CatEmpty
<1> PICK r : r = MapOf(PrefixedAll(a), q)
  OBVIOUS
<1>3. r \in Seq(Words) /\ IsMapped(r, PrefixedAll(a), q)
  BY <1>1, MapIs
<1> PICK c : c = MapOf(Rest, r)
  OBVIOUS
<1>4. c \in Seq(Words) /\ IsMapped(c, Rest, r)
  BY <1>2, <1>3, MapIs
<1>5. Len(c) = Len(q) /\ Len(r) = Len(q) /\ Len(q) \in Nat
  BY <1>3, <1>4, ListIs DEF IsMapped
<1>6. \A m \in 1 .. Len(q) : c[m] = q[m]
  <2> SUFFICES ASSUME NEW m \in 1 .. Len(q) PROVE c[m] = q[m]
    OBVIOUS
  <2>1. c[m] = Rest[r[m]] /\ r[m] = PrefixedAll(a)[q[m]]
    BY <1>3, <1>4, <1>5 DEF IsMapped
  <2>2. q[m] \in Words
    BY ListIs
  <2>3. PrefixedAll(a)[q[m]] = Prefixed(a, q[m])
    BY <2>2 DEF PrefixedAll
  <2> QED BY <2>1, <2>2, <2>3, RestIs
<1>7. c = q
  BY <1>4, <1>5, <1>6, ListsEqual
<1> QED BY <1>3, <1>7

\* the source and the length of the words of a block
SourceAt(v, k) == ((k - 1) % v) + 1

LengthAt(v, k) == (k - 1) \div v

ArePlaces(v, m, n) ==
  /\ n \in Nat
  /\ \A k \in 1 .. n : SourceAt(v, k) \in 1 .. v /\ LengthAt(v, k) \in 0 .. m
  /\ \A a \in 1 .. v : \A l \in 0 .. m : \E k \in 1 .. n : SourceAt(v, k) = a /\ LengthAt(v, k) = l
  /\ \A j, k \in 1 .. n : j < k =>
       LengthAt(v, j) < LengthAt(v, k) \/ (LengthAt(v, j) = LengthAt(v, k) /\ SourceAt(v, j) < SourceAt(v, k))

\* The blocks go through the lengths, and through the sources of each length.
LEMMA PlacesAre ==
  ASSUME NEW v \in Nat, NEW m \in Nat, NEW n, n = v * (m + 1)
  PROVE  ArePlaces(v, m, n)
<1>1. n \in Nat
  OBVIOUS
<1>2. CASE v = 0
  <2>1. n = 0
    BY <1>2
  <2> QED BY <1>2, <2>1 DEF ArePlaces
<1>3. CASE v # 0
  <2>1. v > 0
    BY <1>3
  <2>2. ASSUME NEW k \in 1 .. n
        PROVE  \E d \in 0 .. m : \E r \in 0 .. v - 1 :
                 k - 1 = d * v + r /\ LengthAt(v, k) = d /\ SourceAt(v, k) = r + 1
    <3> PICK b : b = k - 1
      OBVIOUS
    <3>1. b \in Nat /\ b < n
      BY <1>1
    <3>2. b % v \in 0 .. v - 1 /\ b \div v \in Nat /\ b = v * (b \div v) + (b % v)
      BY <2>1, <3>1
    <3> PICK d \in Nat : d = b \div v
      BY <3>2
    <3> PICK r \in 0 .. v - 1 : r = b % v
      BY <3>2
    <3>3. b = d * v + r
      BY <3>2
    <3>4. d <= m
      <4> SUFFICES ASSUME d >= m + 1 PROVE FALSE
        OBVIOUS
      <4>1. v * d >= v * (m + 1) /\ v * d \in Nat /\ v * d = d * v
        OBVIOUS
      <4> QED BY <1>1, <3>1, <3>3, <4>1
    <3>5. LengthAt(v, k) = d /\ SourceAt(v, k) = r + 1
      BY DEF LengthAt, SourceAt
    <3> QED BY <3>3, <3>4, <3>5
  <2>3. ASSUME NEW a \in 1 .. v, NEW l \in 0 .. m
        PROVE  \E k \in 1 .. n : SourceAt(v, k) = a /\ LengthAt(v, k) = l
    <3> PICK r \in 0 .. v - 1 : r = a - 1
      OBVIOUS
    <3> PICK c : c = l * v
      OBVIOUS
    <3>1. c \in Nat /\ c <= m * v /\ m * v + v = n
      BY <2>1
    <3>2. m * v \in Nat
      OBVIOUS
    <3> PICK k : k = c + r + 1
      OBVIOUS
    <3>3. k \in 1 .. n /\ k - 1 = c + r
      BY <1>1, <3>1, <3>2
    <3>4. (c + r) \div v = l /\ (c + r) % v = r
      BY <2>1, Quotient
    <3>5. SourceAt(v, k) = r + 1 /\ LengthAt(v, k) = l
      BY <3>3, <3>4 DEF SourceAt, LengthAt
    <3> QED BY <3>3, <3>5
  <2>4. ASSUME NEW j \in 1 .. n, NEW k \in 1 .. n, j < k
        PROVE  LengthAt(v, j) < LengthAt(v, k)
                 \/ (LengthAt(v, j) = LengthAt(v, k) /\ SourceAt(v, j) < SourceAt(v, k))
    <3>1. PICK d \in 0 .. m : \E r \in 0 .. v - 1 : j - 1 = d * v + r /\ LengthAt(v, j) = d
                 /\ SourceAt(v, j) = r + 1
      BY <2>2
    <3>2. PICK r \in 0 .. v - 1 : j - 1 = d * v + r /\ LengthAt(v, j) = d /\ SourceAt(v, j) = r + 1
      BY <3>1
    <3>3. PICK e \in 0 .. m : \E q \in 0 .. v - 1 : k - 1 = e * v + q /\ LengthAt(v, k) = e
                 /\ SourceAt(v, k) = q + 1
      BY <2>2
    <3>4. PICK q \in 0 .. v - 1 : k - 1 = e * v + q /\ LengthAt(v, k) = e /\ SourceAt(v, k) = q + 1
      BY <3>3
    <3>5. CASE e < d
      <4>1. e + 1 <= d /\ e + 1 \in Nat /\ d \in Nat
        BY <3>5
      <4>2. (e + 1) * v <= d * v /\ (e + 1) * v = e * v + v
        BY <4>1
      <4>3. e * v \in Nat /\ d * v \in Nat
        OBVIOUS
      <4> QED BY <1>1, <2>4, <3>2, <3>4, <4>2, <4>3
    <3>6. CASE e = d
      <4>1. d * v \in Nat
        OBVIOUS
      <4>2. r < q
        BY <1>1, <2>4, <3>2, <3>4, <3>6, <4>1
      <4> QED BY <3>2, <3>4, <3>6, <4>2
    <3>7. CASE d < e
      BY <3>2, <3>4, <3>7
    <3> QED BY <3>5, <3>6, <3>7
  <2>5. \A k \in 1 .. n : SourceAt(v, k) \in 1 .. v /\ LengthAt(v, k) \in 0 .. m
    <3> SUFFICES ASSUME NEW k \in 1 .. n PROVE SourceAt(v, k) \in 1 .. v /\ LengthAt(v, k) \in 0 .. m
      OBVIOUS
    <3>1. PICK d \in 0 .. m : \E r \in 0 .. v - 1 : k - 1 = d * v + r /\ LengthAt(v, k) = d
                 /\ SourceAt(v, k) = r + 1
      BY <2>2
    <3> QED BY <3>1
  <2> QED BY <1>1, <2>3, <2>4, <2>5 DEF ArePlaces
<1> QED BY <1>2, <1>3

\* the normal words with their source before them
KeyedWords(cert, pr) ==
  UNION {{Prefixed(v, w) : w \in {x \in Words : \E t : Follows(cert, StartState(v), x, t)}} :
    v \in 1 .. pr.vertices}

\* the words of a block, with their source and without
BlockOf(cert, pr, k) ==
  FollowedFrom(cert, StartState(SourceAt(pr.vertices, k)), LengthAt(pr.vertices, k))

KeyedBlock(cert, pr, k) == {Prefixed(SourceAt(pr.vertices, k), w) : w \in BlockOf(cert, pr, k)}

\* The blocks by length and source make up the words with their sources
\* before them, a block before the next in the order of words.
LEMMA BlocksAreKeyed ==
  ASSUME NEW cert, NEW pr, pr.vertices \in Nat, NEW m \in Nat, NEW n, ArePlaces(pr.vertices, m, n),
         \A v \in 1 .. pr.vertices : \A w \in Words : \A t :
           Follows(cert, StartState(v), w, t) => Len(w) <= m
  PROVE  /\ UNION {KeyedBlock(cert, pr, k) : k \in 1 .. n} = KeyedWords(cert, pr)
         /\ \A j, k \in 1 .. n : j < k =>
              \A u \in KeyedBlock(cert, pr, j) : \A w \in KeyedBlock(cert, pr, k) : WordLess(u, w)
<1> PICK V \in Nat : V = pr.vertices
  OBVIOUS
<1>1. /\ n \in Nat
      /\ \A k \in 1 .. n : SourceAt(V, k) \in 1 .. V /\ SourceAt(V, k) \in Nat /\ LengthAt(V, k) \in 0 .. m
  BY DEF ArePlaces
<1>2. \A a \in 1 .. V : \A l \in 0 .. m : \E k \in 1 .. n : SourceAt(V, k) = a /\ LengthAt(V, k) = l
  BY DEF ArePlaces
<1>3. \A k \in 1 .. n : \A x : x \in KeyedBlock(cert, pr, k) <=>
        \E w \in Words : /\ x = Prefixed(SourceAt(V, k), w) /\ Len(w) = LengthAt(V, k)
                         /\ \E t : Follows(cert, StartState(SourceAt(V, k)), w, t)
  BY DEF KeyedBlock, BlockOf, FollowedFrom
<1>4. \A x : x \in KeyedWords(cert, pr) <=>
        \E v \in 1 .. V : \E w \in Words : x = Prefixed(v, w) /\ \E t : Follows(cert, StartState(v), w, t)
  BY DEF KeyedWords
<1>5. ASSUME NEW k \in 1 .. n, NEW x \in KeyedBlock(cert, pr, k) PROVE x \in KeyedWords(cert, pr)
  BY <1>1, <1>3, <1>4
<1>6. ASSUME NEW x \in KeyedWords(cert, pr) PROVE \E k \in 1 .. n : x \in KeyedBlock(cert, pr, k)
  <2>1. PICK v \in 1 .. V, w \in Words : x = Prefixed(v, w) /\ \E t : Follows(cert, StartState(v), w, t)
    BY <1>4
  <2>2. Len(w) \in 0 .. m
    <3>1. Len(w) \in Nat /\ Len(w) <= m
      BY <2>1, CatLen
    <3> QED BY <3>1
  <2>3. PICK k \in 1 .. n : SourceAt(V, k) = v /\ LengthAt(V, k) = Len(w)
    BY <1>2, <2>2
  <2> QED BY <1>3, <2>1, <2>3
<1>7. ASSUME NEW j \in 1 .. n, NEW k \in 1 .. n, j < k,
             NEW x \in KeyedBlock(cert, pr, j), NEW y \in KeyedBlock(cert, pr, k)
      PROVE  WordLess(x, y)
  <2> PICK a \in Nat : a = SourceAt(V, j)
    BY <1>1
  <2> PICK b \in Nat : b = SourceAt(V, k)
    BY <1>1
  <2>1. PICK u \in Words : x = Prefixed(a, u) /\ Len(u) = LengthAt(V, j)
    BY <1>3
  <2>2. PICK w \in Words : y = Prefixed(b, w) /\ Len(w) = LengthAt(V, k)
    BY <1>3
  <2>3. Len(u) < Len(w) \/ (Len(u) = Len(w) /\ a < b)
    BY <1>7, <2>1, <2>2 DEF ArePlaces
  <2> QED BY <2>1, <2>2, <2>3, KeyedOrder DEF ComesBefore
<1> QED BY <1>5, <1>6, <1>7

\* the words of a block, unless none is that long
BlockWords(g, h, v, k) ==
  IF g[StartState(SourceAt(v, k))] >= LengthAt(v, k)
  THEN h[LengthAt(v, k)][StartState(SourceAt(v, k))] ELSE <<>>

LongestStart(cert, g) == Max({0} \cup {g[t] : t \in Starts(cert)})

\* The verifier lists the normal words block by block.
LEMMA OrderUnfolds ==
  ASSUME NEW cert, NEW g, g = LongestWalks(cert), NEW S, S = AutomatonStates(cert),
         NEW v, v = cert.quiver.vertices, NEW m, m = LongestStart(cert, g),
         NEW h, h = CHOOSE f : AreWalks(cert, g, S, m, f)
  PROVE  NormalWordOrder(cert) = FlattenSeq([k \in 1 .. v * (m + 1) |-> BlockWords(g, h, v, k)])
<1> DEFINE G == LongestWalks(cert)
           M == LongestStart(cert, G)
           V == cert.quiver.vertices
           H == CHOOSE f : AreWalks(cert, G, AutomatonStates(cert), M, f)
<1>1. NormalWordOrder(cert) = FlattenSeq([k \in 1 .. V * (M + 1) |-> BlockWords(G, H, V, k)])
  BY Zenon DEF NormalWordOrder, LongestStart, AreWalks, WalksFrom, EdgesInOrder, LongEnough, BlockWords,
               StartState, SourceAt, LengthAt
<1>2. G = g /\ M = m /\ V = v
  OBVIOUS
<1> HIDE DEF G, M, V
<1>3. H = h
  BY <1>2
<1> HIDE DEF H
<1> QED BY <1>1, <1>2, <1>3

\* The longest walk from a start state bounds those from the others.
LEMMA LongestStartIs ==
  ASSUME NEW cert, NEW pr, NEW F, IsFor(cert, pr, F), IsFiniteLanguage(pr, F),
         NEW g, g = Longests(cert, States(pr, F)), NEW m, m = LongestStart(cert, g)
  PROVE  m \in Nat /\ \A s \in Starts(cert) : g[s] \in Nat /\ g[s] <= m
<1> PICK T : T = Starts(cert)
  OBVIOUS
<1> PICK R : R = {0} \cup {g[t] : t \in T}
  OBVIOUS
<1>1. T \subseteq States(pr, F) /\ IsFiniteSet(T)
  BY StatesAre, StatesAreGraph, FS_Subset
<1>2. \A t \in T : g[t] \in Nat
  BY <1>1, LongestIs DEF Longests
<1>3. IsFiniteSet({g[t] : t \in T})
  <2> DEFINE f == [t \in T |-> g[t]]
  <2>1. {g[t] : t \in T} = {f[t] : t \in T} /\ DOMAIN f = T
    OBVIOUS
  <2> HIDE DEF f
  <2> QED BY <1>1, <2>1, ImageIsFinite
<1>4. R \in SUBSET Nat /\ R # {} /\ IsFiniteSet(R)
  <2>1. IsFiniteSet({0})
    BY FS_Singleton
  <2>2. IsFiniteSet(R)
    BY <1>3, <2>1, FS_Union
  <2> QED BY <1>2, <2>2
<1>5. Max(R) \in R /\ \A n \in R : n <= Max(R)
  BY <1>4, MaxIs
<1>6. m = Max(R)
  BY DEF LongestStart
<1> QED BY <1>2, <1>4, <1>5, <1>6

\* The verifier goes through the normal words by length, source and arrows.
LEMMA NormalWordOrderIs ==
  ASSUME NEW cert, NEW pr, NEW F, IsFor(cert, pr, F), IsFiniteLanguage(pr, F)
  PROVE  \E z : IsListing(z, KeyedWords(cert, pr)) /\ NormalWordOrder(cert) = MapOf(Rest, z)
<1> PICK S : S = States(pr, F)
  OBVIOUS
<1> PICK g : g = Longests(cert, S)
  OBVIOUS
<1> PICK m : m = LongestStart(cert, g)
  OBVIOUS
<1> PICK h : h = CHOOSE f : AreWalks(cert, g, S, m, f)
  OBVIOUS
<1> PICK V : V = pr.vertices
  OBVIOUS
<1> PICK n : n = V * (m + 1)
  OBVIOUS
<1>1. g = LongestWalks(cert) /\ S = AutomatonStates(cert) /\ V = cert.quiver.vertices /\ V \in Nat
  BY LongestWalksAre, StatesAre DEF IsFor
<1>2. m \in Nat /\ \A s \in Starts(cert) : g[s] \in Nat /\ g[s] <= m
  BY LongestStartIs
<1> PICK qs : qs = [k \in 1 .. n |-> BlockWords(g, h, V, k)]
  OBVIOUS
<1>3. NormalWordOrder(cert) = FlattenSeq(qs)
  BY <1>1, OrderUnfolds
<1>4. \A k \in 0 .. m : ListsAll(cert, S, k, h[k])
  BY <1>2, WalksAre
<1>5. ArePlaces(V, m, n)
  BY <1>1, <1>2, PlacesAre
<1>6. \A k \in 1 .. n : /\ StartState(SourceAt(V, k)) \in Starts(cert) /\ StartState(SourceAt(V, k)) \in S
                        /\ SourceAt(V, k) \in 1 .. V /\ SourceAt(V, k) \in Nat /\ LengthAt(V, k) \in 0 .. m
  <2>1. \A v \in 1 .. V : StartState(v) \in Starts(cert) /\ StartState(v) \in S /\ v \in Nat
    <3> SUFFICES ASSUME NEW v \in 1 .. V
          PROVE StartState(v) \in Starts(cert) /\ StartState(v) \in S /\ v \in Nat
      OBVIOUS
    <3> QED BY <1>1, StatesAre DEF Starts, StartState
  <2> QED BY <1>5, <2>1 DEF ArePlaces
<1>7. \A v \in 1 .. V : \A w \in Words : \A t : Follows(cert, StartState(v), w, t) => Len(w) <= m
  <2> SUFFICES ASSUME NEW v \in 1 .. V, NEW w \in Words, NEW t, Follows(cert, StartState(v), w, t)
               PROVE  Len(w) <= m
    OBVIOUS
  <2> PICK s : s = StartState(v)
    OBVIOUS
  <2>1. s \in Starts(cert) /\ s \in S
    BY <1>1, StatesAre
  <2>2. Len(w) \in Lengths(cert, s)
    BY CatLen DEF Lengths
  <2>3. Len(w) <= g[s]
    BY <2>1, <2>2, LongestIs DEF Longests
  <2>4. Len(w) \in Nat /\ g[s] \in Nat /\ g[s] <= m
    BY <1>2, <2>1, CatLen
  <2> QED BY <1>2, <2>3, <2>4
<1> PICK B : B = [k \in 1 .. n |-> BlockOf(cert, pr, k)]
  OBVIOUS
<1>8. ASSUME NEW k \in 1 .. n PROVE IsListing(qs[k], B[k])
  <2> PICK s : s = StartState(SourceAt(V, k))
    OBVIOUS
  <2> PICK l \in 0 .. m : l = LengthAt(V, k)
    BY <1>6
  <2>1. s \in Starts(cert) /\ s \in S
    BY <1>6
  <2>2. B[k] = FollowedFrom(cert, s, l)
    BY DEF BlockOf
  <2>3. qs[k] = IF g[s] >= l THEN h[l][s] ELSE <<>>
    BY DEF BlockWords
  <2>4. CASE g[s] >= l
    <3>1. IsListing(h[l][s], FollowedFrom(cert, s, l))
      BY <1>4, <2>1 DEF ListsAll
    <3> QED BY <2>2, <2>3, <2>4, <3>1
  <2>5. CASE ~(g[s] >= l)
    <3>1. FollowedFrom(cert, s, l) = {}
      <4> SUFFICES ASSUME NEW w \in FollowedFrom(cert, s, l) PROVE FALSE
        OBVIOUS
      <4>1. l \in Lengths(cert, s)
        BY DEF FollowedFrom, Lengths
      <4>2. l <= g[s] /\ g[s] \in Nat
        BY <1>2, <2>1, <4>1, LongestIs DEF Longests
      <4> QED BY <2>5, <4>2
    <3> QED BY <2>2, <2>3, <2>5, <3>1, ShortListings
  <2> QED BY <2>4, <2>5
<1>9. \A k \in 1 .. n : qs[k] \in Seq(Words)
  BY ONLY <1>8 DEF IsListing
<1> PICK ks : ks = [k \in 1 .. n |-> MapOf(PrefixedAll(SourceAt(V, k)), qs[k])]
  OBVIOUS
<1> PICK T : T = [k \in 1 .. n |-> KeyedBlock(cert, pr, k)]
  OBVIOUS
<1>10. \A k \in 1 .. n : IsListing(ks[k], T[k])
  <2> SUFFICES ASSUME NEW k \in 1 .. n PROVE IsListing(ks[k], T[k])
    OBVIOUS
  <2> PICK a \in Nat : a = SourceAt(V, k)
    BY <1>6
  <2>1. IsListing(MapOf(PrefixedAll(a), qs[k]), {Prefixed(a, w) : w \in B[k]})
    BY <1>8, ListingWith
  <2>2. T[k] = {Prefixed(a, w) : w \in B[k]}
    BY DEF KeyedBlock
  <2> QED BY <2>1, <2>2
<1>11. ks \in Seq(Seq(Words)) /\ DOMAIN ks = 1 .. n
  <2>1. \A k \in 1 .. n : ks[k] \in Seq(Words)
    BY ONLY <1>10 DEF IsListing
  <2>2. ks \in [1 .. n -> Seq(Words)] /\ n \in Nat
    BY <1>5, <2>1 DEF ArePlaces
  <2> QED BY ONLY <2>2
<1>12. /\ UNION {KeyedBlock(cert, pr, k) : k \in 1 .. n} = KeyedWords(cert, pr)
       /\ \A j, k \in 1 .. n : j < k =>
            \A u \in KeyedBlock(cert, pr, j) : \A w \in KeyedBlock(cert, pr, k) : WordLess(u, w)
  <2>1. pr.vertices \in Nat /\ m \in Nat /\ ArePlaces(pr.vertices, m, n)
    BY <1>1, <1>2, <1>5
  <2>2. \A v \in 1 .. pr.vertices : \A w \in Words : \A t : Follows(cert, StartState(v), w, t) => Len(w) <= m
    BY <1>7
  <2> QED BY ONLY <2>1, <2>2, BlocksAreKeyed
<1>13. /\ UNION {T[k] : k \in 1 .. n} = KeyedWords(cert, pr)
       /\ \A j, k \in 1 .. n : j < k => \A u \in T[j], w \in T[k] : WordLess(u, w)
  <2>1. \A k \in 1 .. n : T[k] = KeyedBlock(cert, pr, k)
    OBVIOUS
  <2>2. {T[k] : k \in 1 .. n} = {KeyedBlock(cert, pr, k) : k \in 1 .. n}
    BY <2>1
  <2> QED BY ONLY <1>12, <2>1, <2>2
<1>14. AreBlocks(ks, T)
  <2>1. DOMAIN T = DOMAIN ks
    BY <1>11
  <2> QED BY ONLY <1>10, <1>11, <1>13, <2>1 DEF AreBlocks
<1> PICK z : z = FlattenSeq(ks)
  OBVIOUS
<1>15. IsListing(z, KeyedWords(cert, pr))
  <2>1. IsListing(FlattenSeq(ks), UNION {T[k] : k \in DOMAIN ks})
    BY ONLY <1>14, ListingBlocks
  <2> QED BY <1>11, <1>13, <2>1
<1>16. qs = [k \in DOMAIN ks |-> MapOf(Rest, ks[k])]
  <2>1. \A k \in 1 .. n : qs[k] = MapOf(Rest, ks[k])
    <3> SUFFICES ASSUME NEW k \in 1 .. n PROVE qs[k] = MapOf(Rest, ks[k])
      OBVIOUS
    <3> PICK a \in Nat : a = SourceAt(V, k)
      BY <1>6
    <3>1. MapOf(Rest, MapOf(PrefixedAll(a), qs[k])) = qs[k]
      BY <1>9, RestOfList
    <3> QED BY <3>1
  <2>2. qs = [k \in 1 .. n |-> qs[k]]
    OBVIOUS
  <2> QED BY <1>11, <2>1, <2>2
<1>17. FlattenSeq(qs) = MapOf(Rest, z)
  <2>1. Rest \in [Words -> Words]
    BY RestIs, CatEmpty
  <2>2. FlattenSeq(qs) = MapOf(Rest, FlattenSeq(ks))
    BY ONLY <1>11, <1>16, <2>1, FlattenMap
  <2> QED BY <2>2
<1> QED BY <1>3, <1>15, <1>17

-----------------------------------------------------------------------------
(* The engine's list of the normal words.                                  *)

WordFrom(v, w) == [source |-> v, word |-> w]

IsFollowed(cert, v, w) == \E t : Follows(cert, StartState(v), w, t)

\* The language is what the automaton reads from the vertices, whatever its length.
LanguageOf(cert, pr, D) ==
  /\ \A r \in D : \E v \in 1 .. pr.vertices, w \in Words : r = WordFrom(v, w) /\ IsFollowed(cert, v, w)
  /\ \A v \in 1 .. pr.vertices, w \in Words : IsFollowed(cert, v, w) => WordFrom(v, w) \in D

\* The language is what the automaton follows from the start states.
LEMMA LanguageIs ==
  ASSUME NEW cert, NEW pr, NEW F, IsFor(cert, pr, F), IsFiniteLanguage(pr, F)
  PROVE  LanguageOf(cert, pr, Language(pr, F))
<1> PICK D : D = Language(pr, F)
  OBVIOUS
<1> PICK c : c = Cardinality(States(pr, F))
  OBVIOUS
<1>1. c \in Nat
  BY StatesAreGraph, FS_CardinalityType
<1>2. \A n \in 0 .. c : n \in Nat
  BY <1>1
<1>3. \A r : r \in D <=> \E n \in 0 .. c : \E q \in Readings(pr, F, n) : r = WordFrom(q.source, q.word)
  BY DEF Language, WordFrom
<1>4. ASSUME NEW r \in D
      PROVE  \E v \in 1 .. pr.vertices, w \in Words : r = WordFrom(v, w) /\ IsFollowed(cert, v, w)
  <2>1. PICK n \in 0 .. c : \E q \in Readings(pr, F, n) : r = WordFrom(q.source, q.word)
    BY <1>3
  <2>2. PICK q \in Readings(pr, F, n) : r = WordFrom(q.source, q.word)
    BY <2>1
  <2>3. q \in ReadsOf(cert, pr, F, n)
    BY <1>2, ReadingsAre
  <2>4. q.source \in 1 .. pr.vertices /\ q.word \in Words
          /\ Follows(cert, StartState(q.source), q.word, q.state)
    BY <2>3 DEF ReadsOf
  <2> QED BY <2>2, <2>4 DEF IsFollowed
<1>5. ASSUME NEW v \in 1 .. pr.vertices, NEW w \in Words, IsFollowed(cert, v, w)
      PROVE  WordFrom(v, w) \in D
  <2>1. PICK t : Follows(cert, StartState(v), w, t)
    BY <1>5 DEF IsFollowed
  <2>2. PICK s \in States(pr, F) : s = StartState(v)
    BY StatesAre
  <2>3. t \in States(pr, F)
    BY <2>1, <2>2, FollowsPath
  <2> PICK n : n = Len(w)
    OBVIOUS
  <2>4. n \in Nat /\ n <= c
    BY <2>1, <2>2, NoLongWord, CatLen
  <2>5. n \in 0 .. c
    BY <1>1, <2>4
  <2> PICK q : q = [source |-> v, word |-> w, state |-> t]
    OBVIOUS
  <2>6. q \in ReadsOf(cert, pr, F, n)
    BY <2>1, <2>3 DEF ReadsOf
  <2>7. q \in Readings(pr, F, n)
    BY <2>4, <2>6, ReadingsAre
  <2> QED BY <1>3, <2>5, <2>7
<1> QED BY <1>4, <1>5 DEF LanguageOf

\* by length, source and arrows
Precedes(d, e) ==
  \/ Len(d.word) < Len(e.word)
  \/ Len(d.word) = Len(e.word) /\ d.source < e.source
  \/ Len(d.word) = Len(e.word) /\ d.source = e.source /\ LexLess(d.word, e.word)

InListOrder(D) == Sorted(D, Precedes)

\* The engine's list is the words of the language in the order of the list.
LEMMA ListUnfolds ==
  ASSUME NEW pr, NEW F, NEW sorted, sorted = InListOrder(Language(pr, F))
  PROVE  ListOf(pr, F) = [n \in DOMAIN sorted |-> sorted[n].word]
BY DEF ListOf, InListOrder, Precedes

SpelledOut(r) == Prefixed(r.source, r.word)

\* what is followed from a vertex has a word of its own, in the order of the list
AreKeyed(cert, pr, D) ==
  /\ \A r \in D : SpelledOut(r) \in Words /\ Rest[SpelledOut(r)] = r.word
  /\ \A r, q \in D : r # q => SpelledOut(r) # SpelledOut(q)
  /\ \A r, q \in D : Precedes(r, q) <=> WordLess(SpelledOut(r), SpelledOut(q))
  /\ {SpelledOut(r) : r \in D} = KeyedWords(cert, pr)

\* The engine's order is that of the words with their sources before them.
LEMMA SpelledIs ==
  ASSUME NEW cert, NEW pr, pr.vertices \in Nat, NEW D, LanguageOf(cert, pr, D)
  PROVE  AreKeyed(cert, pr, D)
<1>0. \A r \in D : \E v \in 1 .. pr.vertices, w \in Words : r = WordFrom(v, w) /\ IsFollowed(cert, v, w)
  BY DEF LanguageOf
<1>1. \A v \in 1 .. pr.vertices, w \in Words : IsFollowed(cert, v, w) => WordFrom(v, w) \in D
  BY DEF LanguageOf
<1>2. ASSUME NEW r \in D
      PROVE  /\ r.source \in 1 .. pr.vertices /\ r.source \in Nat /\ r.word \in Words
                  /\ r = WordFrom(r.source, r.word)
             /\ IsFollowed(cert, r.source, r.word)
  <2>1. PICK v \in 1 .. pr.vertices, w \in Words : r = WordFrom(v, w) /\ IsFollowed(cert, v, w)
    BY <1>0
  <2>2. r.source = v /\ r.word = w
    BY <2>1 DEF WordFrom
  <2> QED BY <2>1, <2>2
<1>3. ASSUME NEW r \in D PROVE SpelledOut(r) \in Words /\ Rest[SpelledOut(r)] = r.word
  BY <1>2, RestIs, WithIs DEF SpelledOut, IsWith
<1>4. ASSUME NEW r \in D, NEW q \in D, SpelledOut(r) = SpelledOut(q) PROVE r = q
  <2>1. r.source = q.source /\ r.word = q.word
    BY <1>2, <1>4, WithSame DEF SpelledOut
  <2> QED BY <1>2, <2>1
<1>5. ASSUME NEW r \in D, NEW q \in D PROVE Precedes(r, q) <=> WordLess(SpelledOut(r), SpelledOut(q))
  <2>1. WordLess(SpelledOut(r), SpelledOut(q)) <=> ComesBefore(r.source, r.word, q.source, q.word)
    BY <1>2, KeyedOrder DEF SpelledOut
  <2> QED BY <2>1 DEF Precedes, ComesBefore
<1>6. {SpelledOut(r) : r \in D} = KeyedWords(cert, pr)
  <2>1. ASSUME NEW r \in D PROVE SpelledOut(r) \in KeyedWords(cert, pr)
    <3>1. r.source \in 1 .. pr.vertices /\ r.word \in {x \in Words : \E t :
            Follows(cert, StartState(r.source), x, t)}
      BY <1>2 DEF IsFollowed
    <3> QED BY <3>1 DEF SpelledOut, KeyedWords
  <2>2. ASSUME NEW x \in KeyedWords(cert, pr) PROVE x \in {SpelledOut(r) : r \in D}
    <3>1. PICK v \in 1 .. pr.vertices, w \in Words : x = Prefixed(v, w)
                 /\ \E t : Follows(cert, StartState(v), w, t)
      BY DEF KeyedWords
    <3>2. WordFrom(v, w) \in D
      BY <1>1, <3>1 DEF IsFollowed
    <3>3. SpelledOut(WordFrom(v, w)) = x
      BY <3>1 DEF WordFrom, SpelledOut
    <3> QED BY <3>2, <3>3
  <2> QED BY <2>1, <2>2
<1> QED BY <1>3, <1>4, <1>5, <1>6 DEF AreKeyed

\* Whatever is listed is finite.
LEMMA ListedIsFinite ==
  ASSUME NEW S, NEW q, IsListing(q, S)
  PROVE  IsFiniteSet(S)
<1>1. Len(q) \in Nat /\ DOMAIN q = 1 .. Len(q)
  BY ListIs DEF IsListing
<1>2. S = {q[k] : k \in DOMAIN q}
  BY DEF IsListing
<1>3. IsFiniteSet(DOMAIN q)
  BY <1>1, FS_Interval
<1> QED BY <1>2, <1>3, ImageIsFinite

\* The engine lists the words in the order in which the verifier goes through them.
LEMMA ListIsOrder ==
  ASSUME NEW cert, NEW pr, NEW F, IsFor(cert, pr, F), IsFiniteLanguage(pr, F)
  PROVE  ListOf(pr, F) = NormalWordOrder(cert)
<1> PICK D : D = Language(pr, F)
  OBVIOUS
<1> PICK z : IsListing(z, KeyedWords(cert, pr)) /\ NormalWordOrder(cert) = MapOf(Rest, z)
  BY NormalWordOrderIs
<1>1. LanguageOf(cert, pr, D) /\ pr.vertices \in Nat
  BY LanguageIs DEF IsFor
<1>0. AreKeyed(cert, pr, D)
  BY <1>1, SpelledIs
<1>2. \A r \in D : SpelledOut(r) \in Words /\ Rest[SpelledOut(r)] = r.word
  BY <1>0 DEF AreKeyed
<1>3. \A r, q \in D : r # q => SpelledOut(r) # SpelledOut(q)
  BY <1>0 DEF AreKeyed
<1>4. \A r, q \in D : Precedes(r, q) <=> WordLess(SpelledOut(r), SpelledOut(q))
  BY <1>0 DEF AreKeyed
<1>5. {SpelledOut(r) : r \in D} = KeyedWords(cert, pr)
  BY <1>0 DEF AreKeyed
<1>6. IsFiniteSet(D)
  <2>1. IsFiniteSet(KeyedWords(cert, pr))
    BY ListedIsFinite
  <2> DEFINE f == [x \in KeyedWords(cert, pr) |-> CHOOSE r \in D : SpelledOut(r) = x]
  <2>2. \A r \in D : SpelledOut(r) \in KeyedWords(cert, pr)
    BY <1>5
  <2>3. \A r \in D : f[SpelledOut(r)] = r
    BY <1>3, <2>2
  <2>4. \A x \in KeyedWords(cert, pr) : f[x] \in D
    BY <1>5
  <2>5. D = {f[x] : x \in DOMAIN f} /\ DOMAIN f = KeyedWords(cert, pr)
    BY <2>2, <2>3, <2>4
  <2> HIDE DEF f
  <2> QED BY <2>1, <2>5, ImageIsFinite
<1> PICK sorted : sorted = InListOrder(D)
  OBVIOUS
<1> PICK L : L = [r \in D |-> SpelledOut(r)]
  OBVIOUS
<1>7. HaveDistinctWords(D, L)
  BY <1>2, <1>3 DEF HaveDistinctWords
<1> DEFINE Less1(x) == {y \in D : Precedes(y, x)}
           Less2(x) == {y \in D : WordLess(L[y], L[x])}
<1>8. \A x \in D : Less1(x) = Less2(x)
  BY <1>4
<1>9. /\ DOMAIN sorted = 1 .. Cardinality(D)
      /\ \A n \in DOMAIN sorted : sorted[n] = CHOOSE x \in D : Cardinality(Less1(x)) = n - 1
  BY DEF InListOrder, Sorted
<1>10. ASSUME NEW n \in DOMAIN sorted, NEW x \in D, Cardinality(Less2(x)) = n - 1
       PROVE  sorted[n] \in D /\ Cardinality(Less2(sorted[n])) = n - 1
  <2>1. sorted[n] = CHOOSE y \in D : Cardinality(Less1(y)) = n - 1
    BY <1>9
  <2>2. Cardinality(Less1(x)) = n - 1
    BY <1>8, <1>10
  <2> HIDE DEF Less1, Less2
  <2>3. sorted[n] \in D /\ Cardinality(Less1(sorted[n])) = n - 1
    BY <2>1, <2>2
  <2> QED BY <1>8, <2>3
<1>11. IsSorting(D, L, sorted)
  BY <1>9, <1>10 DEF IsSorting
<1> PICK q : q = [k \in DOMAIN sorted |-> L[sorted[k]]]
  OBVIOUS
<1>12. (\A k \in DOMAIN sorted : sorted[k] \in D) /\ IsListing(q, {L[x] : x \in D})
  BY <1>6, <1>7, <1>11, SortedLists
<1>13. {L[x] : x \in D} = KeyedWords(cert, pr)
  BY <1>5
<1>14. q = z
  BY <1>12, <1>13, ListedOnce
<1>15. ListOf(pr, F) = [n \in DOMAIN sorted |-> sorted[n].word]
  BY ListUnfolds
<1>16. MapOf(Rest, q) = [n \in DOMAIN sorted |-> sorted[n].word]
  <2>1. DOMAIN q = DOMAIN sorted
    OBVIOUS
  <2>2. \A n \in DOMAIN sorted : Rest[q[n]] = sorted[n].word
    BY <1>2, <1>12
  <2> QED BY <2>1, <2>2 DEF MapOf
<1> QED BY <1>14, <1>15, <1>16

\* a listing of the normal words, each of them written without its source
IsListOf(q, cert, pr) ==
  \E z : /\ IsListing(z, KeyedWords(cert, pr)) /\ DOMAIN q = DOMAIN z
         /\ \A n \in DOMAIN z : \E v \in 1 .. pr.vertices, w \in Words :
              z[n] = Prefixed(v, w) /\ q[n] = w /\ v \in Nat /\ IsFollowed(cert, v, w)

\* The engine's list spells the words that are followed, each at its source.
LEMMA ListOfIs ==
  ASSUME NEW cert, NEW pr, NEW F, IsFor(cert, pr, F), IsFiniteLanguage(pr, F), NEW q, q = ListOf(pr, F)
  PROVE  IsListOf(q, cert, pr)
<1> PICK z : IsListing(z, KeyedWords(cert, pr)) /\ NormalWordOrder(cert) = MapOf(Rest, z)
  BY NormalWordOrderIs
<1>1. q = MapOf(Rest, z)
  BY ListIsOrder
<1>2. DOMAIN q = DOMAIN z /\ \A n \in DOMAIN z : q[n] = Rest[z[n]]
  BY <1>1 DEF MapOf
<1>3. ASSUME NEW n \in DOMAIN z
      PROVE  \E v \in 1 .. pr.vertices, w \in Words :
               z[n] = Prefixed(v, w) /\ q[n] = w /\ v \in Nat /\ IsFollowed(cert, v, w)
  <2>1. z[n] \in KeyedWords(cert, pr)
    BY DEF IsListing
  <2>2. PICK v \in 1 .. pr.vertices, w \in Words : z[n] = Prefixed(v, w)
               /\ \E t : Follows(cert, StartState(v), w, t)
    BY <2>1 DEF KeyedWords
  <2>3. pr.vertices \in Nat
    BY DEF IsFor
  <2>4. v \in Nat
    BY <2>3
  <2>5. Rest[z[n]] = w
    BY <2>2, <2>4, RestIs
  <2> QED BY <1>2, <2>2, <2>4, <2>5 DEF IsFollowed
<1> QED BY <1>2, <1>3 DEF IsListOf

\* what is followed from a vertex is normal, and starts there
LEMMA FollowedIsNormal ==
  ASSUME NEW cert, NEW pr, NEW F, IsFor(cert, pr, F), NEW v \in 1 .. pr.vertices, NEW w \in Words
  PROVE  /\ IsFollowed(cert, v, w) => IsNormal(pr, F, w) /\ (w # EmptyWord => pr.arrows[w[1]][1] = v)
         /\ IsNormal(pr, F, w) /\ (w # EmptyWord => pr.arrows[w[1]][1] = v) => IsFollowed(cert, v, w)
<1>1. PICK s \in Starts(cert) : s = StartState(v) /\ s \in States(pr, F)
  BY StatesAre
<1>2. s.vertex = v
  BY <1>1 DEF StartState
<1>3. ASSUME IsFollowed(cert, v, w) PROVE IsNormal(pr, F, w) /\ (w # EmptyWord => pr.arrows[w[1]][1] = v)
  <2>1. PICK t : Follows(cert, s, w, t)
    BY <1>1, <1>3 DEF IsFollowed
  <2> QED BY <1>1, <1>2, <2>1, ReadsNormal, FollowsPath
<1>4. ASSUME IsNormal(pr, F, w) /\ (w # EmptyWord => pr.arrows[w[1]][1] = v) PROVE IsFollowed(cert, v, w)
  BY <1>1, <1>2, <1>4, NormalIsRead DEF IsFollowed
<1> QED BY <1>3, <1>4

\* Every normal word that is not empty is listed, once.
NormalAreListed(q, pr, F) ==
  /\ \A n \in DOMAIN q : q[n] \in Words /\ IsNormal(pr, F, q[n])
  /\ \A x \in Words : x # EmptyWord /\ IsNormal(pr, F, x) => \E n \in DOMAIN q : q[n] = x
  /\ \A m, n \in DOMAIN q : q[m] = q[n] => m = n \/ q[n] = EmptyWord

\* The entries of such a list are the normal words.
LEMMA NormalListed ==
  ASSUME NEW cert, NEW pr, NEW F, IsFor(cert, pr, F), NEW q, IsListOf(q, cert, pr)
  PROVE  NormalAreListed(q, pr, F)
<1> PICK z : /\ IsListing(z, KeyedWords(cert, pr)) /\ DOMAIN q = DOMAIN z
             /\ \A n \in DOMAIN z : \E v \in 1 .. pr.vertices, w \in Words :
                  z[n] = Prefixed(v, w) /\ q[n] = w /\ v \in Nat /\ IsFollowed(cert, v, w)
  BY DEF IsListOf
<1>1. ASSUME NEW n \in DOMAIN q PROVE q[n] \in Words /\ IsNormal(pr, F, q[n])
  <2>1. PICK v \in 1 .. pr.vertices, w \in Words : z[n] = Prefixed(v, w) /\ q[n] = w /\ IsFollowed(cert, v, w)
    OBVIOUS
  <2> QED BY <2>1, FollowedIsNormal
<1>2. ASSUME NEW x \in Words, x # EmptyWord, IsNormal(pr, F, x) PROVE \E n \in DOMAIN q : q[n] = x
  <2>1. x[1] \in DOMAIN pr.arrows
    <3>1. 1 \in DOMAIN x
      BY <1>2, EmptySeq DEF Words, EmptyWord
    <3> QED BY <1>2, <3>1 DEF IsNormal, IsPath
  <2>2. PICK v \in 1 .. pr.vertices : v = pr.arrows[x[1]][1]
    BY <2>1, ArrowIs
  <2>3. IsFollowed(cert, v, x)
    BY <1>2, <2>2, FollowedIsNormal
  <2>4. Prefixed(v, x) \in KeyedWords(cert, pr)
    <3>1. x \in {y \in Words : \E t : Follows(cert, StartState(v), y, t)}
      BY <2>3 DEF IsFollowed
    <3> QED BY <3>1 DEF KeyedWords
  <2>5. PICK n \in DOMAIN z : z[n] = Prefixed(v, x)
    BY <2>4 DEF IsListing
  <2>6. PICK u \in Nat, w \in Words : z[n] = Prefixed(u, w) /\ q[n] = w
    OBVIOUS
  <2>7. v \in Nat
    BY DEF IsFor
  <2>8. Prefixed(u, w) = Prefixed(v, x)
    BY <2>5, <2>6
  <2>9. w = x
    BY ONLY <2>7, <2>8, WithSame
  <2> QED BY <2>6, <2>9
<1>3. ASSUME NEW m \in DOMAIN q, NEW n \in DOMAIN q, q[m] = q[n], q[n] # EmptyWord PROVE m = n
  <2>1. PICK u \in 1 .. pr.vertices, x \in Words : z[m] = Prefixed(u, x) /\ q[m] = x /\ IsFollowed(cert, u, x)
    OBVIOUS
  <2>2. PICK v \in 1 .. pr.vertices, w \in Words : z[n] = Prefixed(v, w) /\ q[n] = w /\ IsFollowed(cert, v, w)
    OBVIOUS
  <2>3. u = v /\ x = w
    <3>1. x # EmptyWord => pr.arrows[x[1]][1] = u
      BY <2>1, FollowedIsNormal
    <3>2. w # EmptyWord => pr.arrows[w[1]][1] = v
      BY <2>2, FollowedIsNormal
    <3> QED BY <1>3, <2>1, <2>2, <3>1, <3>2
  <2>4. z[m] = z[n]
    BY <2>1, <2>2, <2>3
  <2>5. ~(m < n) /\ ~(n < m)
    <3>1. z[n] \in Words /\ \A j, k \in DOMAIN z : j < k => WordLess(z[j], z[k])
      BY ListIs DEF IsListing
    <3> QED BY <2>4, <3>1, WordOrder
  <2>6. m \in Nat /\ n \in Nat
    <3>1. DOMAIN z = 1 .. Len(z) /\ Len(z) \in Nat
      BY ListIs DEF IsListing
    <3> QED BY <3>1
  <2> QED BY <2>5, <2>6
<1> QED BY <1>1, <1>2, <1>3 DEF NormalAreListed

\* The empty word is listed once for every vertex.
LEMMA EmptyListed ==
  ASSUME NEW cert, NEW pr, NEW F, IsFor(cert, pr, F), NEW q, IsListOf(q, cert, pr)
  PROVE  Cardinality({n \in DOMAIN q : q[n] = EmptyWord}) = pr.vertices
<1> PICK z : /\ IsListing(z, KeyedWords(cert, pr)) /\ DOMAIN q = DOMAIN z
             /\ \A n \in DOMAIN z : \E v \in 1 .. pr.vertices, w \in Words :
                  z[n] = Prefixed(v, w) /\ q[n] = w /\ v \in Nat /\ IsFollowed(cert, v, w)
  BY DEF IsListOf
<1> PICK V : V = pr.vertices /\ V \in Nat
  BY DEF IsFor
<1> PICK E : E = {n \in DOMAIN q : q[n] = EmptyWord}
  OBVIOUS
<1>1. \A n \in E : \E v \in 1 .. V : v \in Nat /\ z[n] = Prefixed(v, EmptyWord)
  OBVIOUS
<1>2. \A v \in 1 .. V : \E n \in E : z[n] = Prefixed(v, EmptyWord)
  <2> SUFFICES ASSUME NEW v \in 1 .. V PROVE \E n \in E : z[n] = Prefixed(v, EmptyWord)
    OBVIOUS
  <2>1. EmptyWord \in Words /\ v \in Nat
    BY CatWithEmpty
  <2>2. EmptyWord \in {y \in Words : \E t : Follows(cert, StartState(v), y, t)}
    BY <2>1, FollowsNothing
  <2>3. Prefixed(v, EmptyWord) \in KeyedWords(cert, pr)
    BY <2>2 DEF KeyedWords
  <2>4. PICK n \in DOMAIN z : z[n] = Prefixed(v, EmptyWord)
    BY <2>3 DEF IsListing
  <2>5. PICK u \in Nat, w \in Words : z[n] = Prefixed(u, w) /\ q[n] = w
    OBVIOUS
  <2>6. w = EmptyWord
    <3>1. Prefixed(u, w) = Prefixed(v, EmptyWord)
      BY <2>4, <2>5
    <3> QED BY ONLY <2>1, <3>1, WithSame
  <2> QED BY <2>4, <2>5, <2>6
<1>3. ASSUME NEW m \in DOMAIN z, NEW n \in DOMAIN z, z[m] = z[n] PROVE m = n
  <2>1. ~(m < n) /\ ~(n < m)
    <3>1. z[n] \in Words /\ \A j, k \in DOMAIN z : j < k => WordLess(z[j], z[k])
      BY ListIs DEF IsListing
    <3> QED BY <1>3, <3>1, WordOrder
  <2>2. m \in Nat /\ n \in Nat
    <3>1. DOMAIN z = 1 .. Len(z) /\ Len(z) \in Nat
      BY ListIs DEF IsListing
    <3> QED BY <3>1
  <2> QED BY <2>1, <2>2
<1> DEFINE f == [v \in 1 .. V |-> CHOOSE n \in E : z[n] = Prefixed(v, EmptyWord)]
<1>4. \A v \in 1 .. V : f[v] \in E /\ z[f[v]] = Prefixed(v, EmptyWord)
  BY <1>2
<1>5. f \in [1 .. V -> E]
  BY <1>4
<1>6. \A u, v \in 1 .. V : f[u] = f[v] => u = v
  <2> HIDE DEF f
  <2> SUFFICES ASSUME NEW u \in 1 .. V, NEW v \in 1 .. V, f[u] = f[v] PROVE u = v
    OBVIOUS
  <2>1. Prefixed(u, EmptyWord) = Prefixed(v, EmptyWord)
    BY <1>4
  <2>2. u \in Nat /\ v \in Nat /\ EmptyWord \in Words
    BY CatWithEmpty
  <2> QED BY <2>1, <2>2, WithSame
<1>7. \A n \in E : \E v \in 1 .. V : f[v] = n
  <2> HIDE DEF f
  <2> SUFFICES ASSUME NEW n \in E PROVE \E v \in 1 .. V : f[v] = n
    OBVIOUS
  <2>1. PICK v \in 1 .. V : z[n] = Prefixed(v, EmptyWord)
    BY <1>1
  <2>2. f[v] \in DOMAIN z /\ n \in DOMAIN z /\ z[f[v]] = z[n]
    BY <1>4, <2>1
  <2> QED BY <1>3, <2>2
<1>8. ExistsBijection(1 .. V, E)
  <2> HIDE DEF f
  <2> QED BY <1>5, <1>6, <1>7 DEF ExistsBijection, Bijection, Injection, Surjection, IsInjective
<1>9. Cardinality(E) = V
  BY <1>8, FS_CountingElements
<1> QED BY <1>9

-----------------------------------------------------------------------------
(* The claim of finiteness is right.                                       *)

\* A word with an arrow after it is a word, and not empty.
LEMMA AppendWord == \A x \in Words : \A a \in Nat : Append(x, a) \in Words /\ Append(x, a) # EmptyWord
<1> SUFFICES ASSUME NEW x \in Words, NEW a \in Nat PROVE Append(x, a) \in Words /\ Append(x, a) # EmptyWord
  OBVIOUS
<1> QED BY AppendProperties, EmptySeq DEF Words, EmptyWord

\* A run with finitely many normal words lists them all, and the verifier agrees.
LEMMA FiniteIsRight ==
  ASSUME BInv, phase = "complete", IsFinite
  PROVE  /\ FinitenessHolds(certificate) /\ WordsAreRight
         /\ Verdict(certificate) = "verified"
         /\ certificate.finiteness = [kind |-> "finite"]
         /\ certificate.normal_words = NormalWordOrder(certificate)
<1> PICK F : F = Leads
  OBVIOUS
<1> PICK pr : pr = presentation
  OBVIOUS
<1>1. /\ IsFor(certificate, pr, F) /\ IsFiniteLanguage(pr, F)
      /\ certificate.normal_words = ListOf(pr, F)
      /\ certificate.finiteness = [kind |-> "finite"]
  BY CompleteIs DEF WordsOf, ClaimOf
<1> PICK q : q = ListOf(pr, F)
  OBVIOUS
<1>2. q = NormalWordOrder(certificate)
  BY <1>1, ListIsOrder
<1>3. ~HasCycle(certificate)
  BY <1>1, CycleDecided
<1>4. certificate.finiteness.kind = "finite"
  BY <1>1
<1>5. FinitenessHolds(certificate)
  BY <1>1, <1>2, <1>3, <1>4 DEF FinitenessHolds
<1>6. Verdict(certificate) = "verified"
  BY <1>4, <1>5, CompleteIs DEF Verdict
<1>7. IsListOf(q, certificate, pr)
  BY <1>1, ListOfIs
<1>8. NormalAreListed(q, pr, F)
  BY <1>1, <1>7, NormalListed
<1>9. Cardinality({n \in DOMAIN q : q[n] = EmptyWord}) = pr.vertices
  BY <1>1, <1>7, EmptyListed
<1>10. ASSUME NEW n \in DOMAIN q, NEW a \in DOMAIN pr.arrows, IsNormal(pr, F, Append(q[n], a))
       PROVE  \E m \in DOMAIN q : q[m] = Append(q[n], a)
  <2>1. a \in Nat
    BY <1>1, ArrowIs
  <2>2. q[n] \in Words
    BY <1>8 DEF NormalAreListed
  <2>3. Append(q[n], a) \in Words /\ Append(q[n], a) # EmptyWord
    BY <2>1, <2>2, AppendWord
  <2> QED BY <1>8, <1>10, <2>3 DEF NormalAreListed
<1>11. WordsAreRight
  <2>1. certificate.normal_words = q /\ presentation = pr /\ Leads = F
    BY <1>1
  <2>2. Cardinality({n \in DOMAIN q : q[n] = <<>>}) = pr.vertices
    BY <1>9 DEF EmptyWord
  <2>3. \A m, n \in DOMAIN q : q[m] = q[n] => m = n \/ q[n] = <<>>
    BY <1>8 DEF NormalAreListed, EmptyWord
  <2>4. \A n \in DOMAIN q : IsNormal(pr, F, q[n])
    BY <1>8 DEF NormalAreListed
  <2> QED BY <1>4, <1>10, <2>1, <2>2, <2>3, <2>4 DEF WordsAreRight
<1> QED BY <1>1, <1>2, <1>5, <1>6, <1>11

-----------------------------------------------------------------------------
(* Replays that fail.                                                      *)

Leaves(cert, trace, L) ==
  /\ L[0] = trace.start
  /\ \A n \in 1 .. Len(trace.steps) : L[n] = Left(cert, trace.steps[n], L[n - 1])

AllHold(cert, trace, L) == \A n \in 1 .. Len(trace.steps) : StepHolds(cert, trace.steps[n], L[n - 1])

\* A replay goes through what the steps leave, whether they hold or not.
LEMMA ReplayIs ==
  ASSUME NEW cert, NEW trace, IsSeq(trace.steps), NEW K, Leaves(cert, trace, K)
  PROVE  Replays(cert, trace) <=> AllHold(cert, trace, K) /\ IsZero(K[Len(trace.steps)])
<1> DEFINE n == Len(trace.steps)
           Next1(i, f) == Left(cert, trace.steps[i], f)
           AreLeft(f) == f = [i \in 0 .. n |-> IF i = 0 THEN trace.start ELSE Next1(i, f[i - 1])]
           left == CHOOSE f : AreLeft(f)
<1>2. n \in Nat /\ DOMAIN trace.steps = 1 .. n
  BY SeqIs
<1> PICK L : L = [i \in 0 .. n |-> K[i]]
  OBVIOUS
<1>1. \A i \in 0 .. n : L[i] = K[i]
  OBVIOUS
<1>3. /\ L = [i \in 0 .. n |-> L[i]] /\ L[0] = trace.start
      /\ \A i \in 1 .. n : L[i] = Next1(i, L[i - 1])
  <2>1. K[0] = trace.start /\ \A i \in 1 .. n : K[i] = Next1(i, K[i - 1])
    BY DEF Leaves
  <2> HIDE DEF n, Next1
  <2>2. 0 \in 0 .. n /\ \A i \in 1 .. n : i \in 0 .. n /\ i - 1 \in 0 .. n
    BY <1>2
  <2> QED BY <1>1, <2>1, <2>2
<1> HIDE DEF n, Next1
<1>4. AreLeft(L)
  <2>1. \A i \in 0 .. n : L[i] = IF i = 0 THEN trace.start ELSE Next1(i, L[i - 1])
    <3> SUFFICES ASSUME NEW i \in 0 .. n PROVE L[i] = IF i = 0 THEN trace.start ELSE Next1(i, L[i - 1])
      OBVIOUS
    <3>1. i # 0 => i \in 1 .. n
      BY <1>2
    <3> QED BY <1>3, <3>1
  <2> QED BY <1>3, <2>1
<1>5. AreLeft(left)
  <2> HIDE DEF AreLeft
  <2> QED BY <1>4
<1>6. left = L
  <2> DEFINE S == {i \in 0 .. n : left[i] = L[i]}
  <2> HIDE DEF left
  <2>1. \A i \in 0 .. n : left[i] = IF i = 0 THEN trace.start ELSE Next1(i, left[i - 1])
    BY <1>5
  <2>2. 0 \in S
    <3>1. 0 \in 0 .. n
      BY <1>2
    <3> QED BY <1>3, <2>1, <3>1
  <2>3. ASSUME NEW i \in 1 .. n, i - 1 \in S PROVE i \in S
    <3>1. i \in 0 .. n /\ i # 0 /\ left[i - 1] = L[i - 1]
      BY <1>2, <2>3
    <3>2. left[i] = Next1(i, left[i - 1])
      BY <2>1, <3>1
    <3>3. left[i] = L[i]
      BY <1>3, <3>1, <3>2
    <3> QED BY <3>1, <3>3
  <2>4. 0 .. n \subseteq S
    <3> HIDE DEF S
    <3> QED BY <1>2, <2>2, <2>3, IntervalInduction
  <2>5. left = [i \in 0 .. n |-> left[i]]
    BY <1>5
  <2>6. \A i \in 0 .. n : left[i] = L[i]
    BY <2>4
  <2> HIDE DEF S, AreLeft
  <2> QED BY <1>3, <2>5, <2>6
<1>7. Replays(cert, trace) <=>
        /\ \A i \in DOMAIN trace.steps : StepHolds(cert, trace.steps[i], left[i - 1])
        /\ IsZero(left[n])
  BY DEF Replays, Next1, Left, n
<1> HIDE DEF left
<1>8. \A i \in 1 .. n : i - 1 \in 0 .. n
  BY <1>2
<1>9. n \in 0 .. n
  BY <1>2
<1>10. left[n] = K[n] /\ \A i \in 1 .. n : left[i - 1] = K[i - 1]
  BY <1>1, <1>6, <1>8, <1>9
<1> QED BY <1>2, <1>7, <1>10 DEF AllHold, n

\* what a finished trace is
LEMMA ShownIs ==
  ASSUME NEW cert, NEW trace, IsShown(cert, trace)
  PROVE  /\ IsSeq(trace.steps) /\ Len(trace.steps) \in Nat /\ DOMAIN trace.steps = 1 .. Len(trace.steps)
         /\ \A n \in 1 .. Len(trace.steps) : IsMove(cert.field, trace.steps[n])
         /\ \E L : Leaves(cert, trace, L) /\ AllHold(cert, trace, L)
<1>1. IsSeq(trace.steps) /\ Len(trace.steps) \in Nat /\ DOMAIN trace.steps = 1 .. Len(trace.steps)
  BY SeqIs DEF IsShown, AreCounted
<1>2. PICK L : IsTrail(cert, trace.start, trace.steps, ZeroPoly, L)
  BY DEF IsShown, Traced
<1>3. Leaves(cert, trace, L) /\ AllHold(cert, trace, L)
  BY <1>1, <1>2 DEF IsTrail, Leaves, AllHold
<1> QED BY <1>1, <1>3 DEF IsShown, AreCounted

IsSameStep(s, t) ==
  s.word = t.word /\ s.left = t.left /\ s.right = t.right /\ s.basis_index = t.basis_index

\* What a step leaves of a word does not depend on its coefficient.
LEMMA SameStepLeaves ==
  ASSUME NEW cert, NEW s, NEW t, IsSameStep(s, t), NEW f
  PROVE  Left(cert, s, f) = Left(cert, t, f)
BY DEF IsSameStep, Left

\* A trace that stops one step early leaves a word.
LEMMA ShortenedFails ==
  ASSUME NEW cert, NEW trace, IsShown(cert, trace), NEW cut, cut.start = trace.start, IsSeq(cut.steps),
         Len(cut.steps) + 1 = Len(trace.steps), \A n \in 1 .. Len(cut.steps) : cut.steps[n] = trace.steps[n]
  PROVE  ~Replays(cert, cut)
<1> PICK m : m = Len(cut.steps)
  OBVIOUS
<1>1. m \in Nat /\ Len(trace.steps) = m + 1
  BY SeqIs
<1>2. PICK L : Leaves(cert, trace, L) /\ AllHold(cert, trace, L)
  BY ShownIs
<1>3. Leaves(cert, cut, L)
  <2>1. \A n \in 1 .. m : n \in 1 .. m + 1
    BY <1>1
  <2> QED BY <1>1, <1>2, <2>1 DEF Leaves
<1>4. ~IsZero(L[m])
  <2>1. m + 1 \in 1 .. m + 1 /\ (m + 1) - 1 = m
    BY <1>1
  <2>2. StepHolds(cert, trace.steps[m + 1], L[m])
    <3>1. \A n \in 1 .. m + 1 : StepHolds(cert, trace.steps[n], L[n - 1])
      BY <1>1, <1>2, ZenonT(40) DEF AllHold
    <3> QED BY ONLY <2>1, <3>1
  <2>3. trace.steps[m + 1].word \in DOMAIN L[m]
    BY <2>2 DEF StepHolds
  <2> QED BY <2>3 DEF IsZero
<1> QED BY <1>3, <1>4, ReplayIs

\* A trace whose last step takes another coefficient away does not hold.
LEMMA MiscountedFails ==
  ASSUME NEW cert, NEW trace, IsShown(cert, trace), NEW other, other.start = trace.start, IsSeq(other.steps),
         Len(other.steps) = Len(trace.steps), Len(trace.steps) # 0,
         \A n \in 1 .. Len(trace.steps) : IsSameStep(other.steps[n], trace.steps[n]),
         other.steps[Len(trace.steps)].coeff # trace.steps[Len(trace.steps)].coeff
  PROVE  ~Replays(cert, other)
<1> PICK m : m = Len(trace.steps)
  OBVIOUS
<1>1. m \in Nat /\ m \in 1 .. m
  <2>1. m \in Nat /\ m # 0
    BY ShownIs
  <2> QED BY <2>1
<1>2. PICK L : Leaves(cert, trace, L) /\ AllHold(cert, trace, L)
  BY ShownIs
<1>3. Leaves(cert, other, L)
  <2>1. L[0] = other.start
    BY <1>2, Zenon DEF Leaves
  <2>2. ASSUME NEW n \in 1 .. Len(other.steps) PROVE L[n] = Left(cert, other.steps[n], L[n - 1])
    <3>1. n \in 1 .. Len(trace.steps) /\ IsSameStep(other.steps[n], trace.steps[n])
      OBVIOUS
    <3>2. L[n] = Left(cert, trace.steps[n], L[n - 1])
      BY <1>2, <3>1, Zenon DEF Leaves
    <3>3. Left(cert, other.steps[n], L[n - 1]) = Left(cert, trace.steps[n], L[n - 1])
      BY ONLY <3>1, SameStepLeaves, SMTT(30)
    <3> QED BY ONLY <3>2, <3>3
  <2> QED BY <2>1, <2>2, Zenon DEF Leaves
<1>4. trace.steps[m].coeff = L[m - 1][trace.steps[m].word]
  <2>1. StepHolds(cert, trace.steps[m], L[m - 1])
    BY <1>1, <1>2 DEF AllHold
  <2> QED BY <2>1 DEF StepHolds
<1>5. SUFFICES ASSUME Replays(cert, other) PROVE FALSE
  OBVIOUS
<1>6. AllHold(cert, other, L)
  BY <1>3, <1>5, ReplayIs, ZenonT(40)
<1>7. other.steps[m].coeff = L[m - 1][other.steps[m].word]
  <2>1. StepHolds(cert, other.steps[m], L[m - 1])
    BY <1>1, <1>6 DEF AllHold
  <2> QED BY <2>1 DEF StepHolds
<1>8. other.steps[m].word = trace.steps[m].word
  BY <1>1 DEF IsSameStep
<1> QED BY <1>4, <1>7, <1>8

-----------------------------------------------------------------------------
(* What a certificate was made of.                                         *)

\* the traces that a complete run has put into its certificate
Retained ==
  phase = "complete" =>
    /\ TracesAre(Sketch(p, Quiver, basis), traces, work)
    /\ EntriesAre(p, basis, relations, traces, {}, work)

\* Every step keeps them.
LEMMA RetainedStep ==
  ASSUME AreRecorded, Accepted, Retained, [Next]_vars
  PROVE  Retained'
<1> SUFFICES ASSUME phase' = "complete" PROVE Retained'
  BY DEF Retained
<1>1. CASE TracesAreDone
  <2>1. EmitWitness \/ EmitWords \/ UNCHANGED vars
    <3>1. phase = "ambiguities" /\ work.idle /\ queue = {}
      BY <1>1 DEF TracesAreDone
    <3>2. CASE Reduce \/ ExhaustSteps \/ ExhaustOrigin \/ DropZero \/ RefuseElement \/ KeepComposition
                 \/ RefusePairs
               \/ KeepTail \/ RecordTrace \/ KeepRelation
      BY <3>1, <3>2 DEF Reduce, ExhaustSteps, ExhaustOrigin, DropZero, RefuseElement, KeepComposition,
           RefusePairs, Grow,
        KeepTail, RecordTrace, KeepRelation, IsReduced
    <3>3. CASE TakeRelation \/ RefuseRelation \/ StartRound \/ RefuseRound \/ TakeAmbiguity \/ RefuseAmbiguity
               \/ Interreduce \/ TakeTail \/ TakeMember \/ EndMembership \/ TakeEntry \/ RefuseWords
      BY <3>1, <3>3 DEF TakeRelation, RefuseRelation, StartRound, RefuseRound, BasisIsReady, TailIsDone,
           TakeAmbiguity,
        RefuseAmbiguity, Interreduce, TakeTail, TakeMember, EndMembership, TakeEntry, RefuseWords, Truncate
    <3> QED BY <3>2, <3>3 DEF Next
  <2>2. UNCHANGED <<presentation, basis, queue, work, traces>>
    BY <2>1 DEF EmitWitness, EmitWords, vars, loop
  <2>3. TracesAre(Sketch(p, Quiver, basis), traces, work) /\ EntriesAre(p, basis, relations, traces, {}, work)
    BY <1>1 DEF TracesAreDone, AreRecorded
  <2>4. p' = p /\ Quiver' = Quiver /\ relations' = relations
    BY <2>2 DEF p, Quiver, relations
  <2> QED BY <2>2, <2>3, <2>4 DEF Retained
<1>2. CASE phase = "complete"
  <2>1. UNCHANGED vars
    <3>1. work.idle
      BY <1>2 DEF Accepted
    <3>2. CASE Reduce \/ ExhaustSteps \/ ExhaustOrigin \/ DropZero \/ RefuseElement \/ KeepComposition
                 \/ RefusePairs
               \/ KeepTail \/ RecordTrace \/ KeepRelation
      BY <1>2, <3>1, <3>2 DEF Reduce, ExhaustSteps, ExhaustOrigin, DropZero, RefuseElement,
           KeepComposition, RefusePairs,
        Grow, KeepTail, RecordTrace, KeepRelation, IsReduced
    <3>3. CASE TakeRelation \/ RefuseRelation \/ StartRound \/ RefuseRound \/ TakeAmbiguity \/ RefuseAmbiguity
               \/ Interreduce \/ TakeTail \/ TakeMember \/ EndMembership \/ TakeEntry \/ RefuseWords
               \/ EmitWitness \/ EmitWords
      BY <1>2, <3>1, <3>3 DEF TakeRelation, RefuseRelation, StartRound, RefuseRound, BasisIsReady, TailIsDone,
        TakeAmbiguity, RefuseAmbiguity, Interreduce, TakeTail, TakeMember, EndMembership, TakeEntry,
          RefuseWords,
        EmitWitness, EmitWords, TracesAreDone
    <3> QED BY <3>2, <3>3 DEF Next
  <2>2. UNCHANGED <<presentation, basis, work, traces>>
    BY <2>1 DEF vars, loop
  <2>3. TracesAre(Sketch(p, Quiver, basis), traces, work) /\ EntriesAre(p, basis, relations, traces, {}, work)
    BY <1>2 DEF Retained
  <2>4. p' = p /\ Quiver' = Quiver /\ relations' = relations
    BY <2>2 DEF p, Quiver, relations
  <2> QED BY <2>2, <2>3, <2>4 DEF Retained
<1> QED BY <1>1, <1>2, CompletesOnce

CInv == BInv /\ Retained

\* The invariant with the retained traces holds when a run starts.
LEMMA RetainedFirst ==
  ASSUME Init
  PROVE  CInv
<1>1. phase = "relations"
  BY DEF Init
<1> QED BY <1>1, EmittedFirst DEF CInv, Retained

\* Every step keeps it.
LEMMA CStep ==
  ASSUME CInv, [Next]_vars
  PROVE  CInv'
BY BStep, RetainedStep DEF CInv, BInv, AInv

-----------------------------------------------------------------------------
(* Sequences that are cut.                                                 *)

\* A slice of a sequence.
LEMMA SliceIs ==
  ASSUME NEW s, NEW i \in Nat, NEW j \in Nat, i <= j + 1, NEW t, t = SubSeq(s, i, j)
  PROVE  /\ IsSeq(t) /\ Len(t) = j - i + 1 /\ DOMAIN t = 1 .. j - i + 1
         /\ \A n \in 1 .. j - i + 1 : t[n] = s[i + n - 1]
<1>1. t = [n \in 1 .. j - i + 1 |-> s[i + n - 1]]
  OBVIOUS
<1> PICK m : m = j - i + 1
  OBVIOUS
<1>2. m \in Nat
  OBVIOUS
<1>3. t = [n \in 1 .. m |-> s[i + n - 1]]
  BY <1>1
<1>4. t = [n \in 1 .. m |-> t[n]] /\ DOMAIN t = 1 .. m /\ \A n \in 1 .. m : t[n] = s[i + n - 1]
  BY <1>3
<1>5. IsSeq(t) /\ Len(t) = m
  BY ONLY <1>2, <1>4, FunctionIsSeq
<1> QED BY <1>4, <1>5

\* What is left of a sequence when an entry is removed.
LEMMA RemoveIs ==
  ASSUME NEW s, IsSeq(s), NEW i \in DOMAIN s, NEW t, t = RemoveAt(s, i)
  PROVE  /\ IsSeq(t) /\ Len(t) + 1 = Len(s) /\ Len(t) \in Nat /\ DOMAIN t = 1 .. Len(t)
         /\ \A n \in DOMAIN t : \E m \in DOMAIN s : m # i /\ t[n] = s[m]
<1>1. Len(s) \in Nat /\ DOMAIN s = 1 .. Len(s) /\ i \in 1 .. Len(s)
  BY SeqIs
<1> PICK V : V = {s[k] : k \in DOMAIN s}
  OBVIOUS
<1>2. \A k \in 1 .. Len(s) : s[k] \in V
  BY <1>1
<1> PICK a : a = SubSeq(s, 1, i - 1)
  OBVIOUS
<1> PICK b : b = SubSeq(s, i + 1, Len(s))
  OBVIOUS
<1>3. /\ Len(a) = i - 1 /\ DOMAIN a = 1 .. i - 1 /\ \A n \in 1 .. i - 1 : a[n] = s[n]
  <2>1. 1 \in Nat /\ i - 1 \in Nat /\ 1 <= (i - 1) + 1
    BY <1>1
  <2>2. /\ Len(a) = (i - 1) - 1 + 1 /\ DOMAIN a = 1 .. (i - 1) - 1 + 1
        /\ \A n \in 1 .. (i - 1) - 1 + 1 : a[n] = s[1 + n - 1]
    BY ONLY <2>1, a = SubSeq(s, 1, i - 1), SliceIs
  <2> QED BY ONLY <1>1, <2>2
<1>4. /\ Len(b) = Len(s) - i /\ DOMAIN b = 1 .. Len(s) - i /\ \A n \in 1 .. Len(s) - i : b[n] = s[i + n]
  <2>1. i + 1 \in Nat /\ Len(s) \in Nat /\ i + 1 <= Len(s) + 1
    BY <1>1
  <2>2. /\ Len(b) = Len(s) - (i + 1) + 1 /\ DOMAIN b = 1 .. Len(s) - (i + 1) + 1
        /\ \A n \in 1 .. Len(s) - (i + 1) + 1 : b[n] = s[(i + 1) + n - 1]
    BY ONLY <2>1, b = SubSeq(s, i + 1, Len(s)), SliceIs
  <2>3. Len(s) - (i + 1) + 1 = Len(s) - i
    BY ONLY <1>1
  <2>4. ASSUME NEW n \in 1 .. Len(s) - i PROVE b[n] = s[i + n]
    <3>1. (i + 1) + n - 1 = i + n
      BY ONLY <1>1, <2>4
    <3> QED BY ONLY <2>2, <2>3, <2>4, <3>1
  <2> QED BY ONLY <2>2, <2>3, <2>4
<1>5. a \in Seq(V) /\ b \in Seq(V)
  <2>1. \A n \in 1 .. i - 1 : s[n] \in V
    BY <1>1, <1>2
  <2>2. \A n \in i + 1 .. Len(s) : s[n] \in V
    BY <1>1, <1>2
  <2>3. 1 \in Int /\ i - 1 \in Int /\ i + 1 \in Int /\ Len(s) \in Int
    BY <1>1
  <2> QED BY ONLY <2>1, <2>2, <2>3, a = SubSeq(s, 1, i - 1), b = SubSeq(s, i + 1, Len(s)), SubSeqProperties
<1>6. t = Join(a, b)
  BY DEF RemoveAt, Join
<1>7. t \in Seq(V) /\ IsJoined(t, a, b)
  BY ONLY <1>5, <1>6, JoinIs
<1>8. Len(t) = (i - 1) + (Len(s) - i) /\ DOMAIN t = 1 .. Len(t)
  BY ONLY <1>3, <1>4, <1>7 DEF IsJoined
<1>9. Len(t) + 1 = Len(s) /\ Len(t) \in Nat
  BY ONLY <1>1, <1>8
<1>10. IsSeq(t)
  <2>1. t = [k \in 1 .. Len(t) |-> t[k]]
    BY <1>7, <1>8
  <2> QED BY ONLY <1>9, <2>1, FunctionIsSeq
<1>11. ASSUME NEW n \in DOMAIN t PROVE \E m \in DOMAIN s : m # i /\ t[n] = s[m]
  <2>1. n \in 1 .. (i - 1) + (Len(s) - i) /\ i - 1 \in Nat /\ Len(s) - i \in Nat
    BY <1>1, <1>8
  <2>2. CASE n \in 1 .. i - 1
    <3>1. t[n] = s[n] /\ n \in DOMAIN s /\ n # i
      BY <1>1, <1>3, <1>7, <2>2, SMTT(30) DEF IsJoined
    <3> QED BY <3>1
  <2>3. ASSUME NEW k \in 1 .. Len(s) - i, n = (i - 1) + k PROVE \E m \in DOMAIN s : m # i /\ t[n] = s[m]
    <3>1. i + k \in DOMAIN s /\ i + k # i
      BY ONLY <1>1, <2>3
    <3>2. b[k] = s[i + k]
      BY ONLY <1>4, <2>3
    <3>3. t[Len(a) + k] = b[k]
      <4>1. k \in 1 .. Len(b)
        BY ONLY <1>4, <2>3
      <4> QED BY ONLY <1>7, <4>1 DEF IsJoined
    <3>4. t[n] = s[i + k]
      BY ONLY <1>3, <2>3, <3>2, <3>3
    <3> QED BY <3>1, <3>4
  <2> QED BY <2>1, <2>2, <2>3, JoinPlace
<1> QED BY <1>8, <1>9, <1>10, <1>11

-----------------------------------------------------------------------------
(* Every trace is a record.                                                *)

\* a trace as it is recorded
IsRecord(t) == t = [key |-> t.key, start |-> t.start, steps |-> t.steps]

AreRecords == \A n \in DOMAIN traces : IsRecord(traces[n])

\* A step records a trace or keeps the traces.
LEMMA RecordsStep ==
  ASSUME AreRecorded, AreRecords, [Next]_vars
  PROVE  AreRecords'
<1>1. CASE RecordTrace
  <2> PICK t : t = [key |-> work.key, start |-> work.start, steps |-> work.steps]
    OBVIOUS
  <2>1. traces' = Append(traces, t)
    BY <1>1 DEF RecordTrace
  <2>2. IsRecord(t)
    BY DEF IsRecord
  <2>3. IsSeq(traces)
    BY DEF AreRecorded
  <2>4. /\ DOMAIN Append(traces, t) = DOMAIN traces \cup {Len(traces) + 1}
             /\ Append(traces, t)[Len(traces) + 1] = t
        /\ \A k \in DOMAIN traces : Append(traces, t)[k] = traces[k]
    BY <2>3, AppendIs
  <2> QED BY <2>1, <2>2, <2>4 DEF AreRecords
<1>2. CASE traces' = traces
  BY <1>2 DEF AreRecords
<1>3. CASE Reduce \/ ExhaustSteps \/ ExhaustOrigin
  BY <1>2, <1>3 DEF Reduce, ExhaustSteps, ExhaustOrigin, Truncate
<1>4. CASE RefuseRelation \/ RefuseElement \/ RefuseRound \/ RefuseAmbiguity \/ RefusePairs \/ RefuseWords
  BY <1>2, <1>4 DEF RefuseRelation, RefuseElement, RefuseRound, RefuseAmbiguity, RefusePairs, RefuseWords,
       Truncate
<1>5. CASE TakeRelation \/ DropZero \/ KeepRelation \/ TakeAmbiguity \/ KeepComposition \/ TakeTail \/ KeepTail
           \/ TakeMember \/ TakeEntry
  BY <1>2, <1>5 DEF TakeRelation, DropZero, KeepRelation, TakeAmbiguity, KeepComposition, TakeTail, KeepTail,
     TakeMember, TakeEntry
<1>6. CASE StartRound \/ Interreduce \/ EndMembership
  BY <1>2, <1>6 DEF StartRound, Interreduce, EndMembership
<1>7. CASE EmitWitness \/ EmitWords \/ UNCHANGED vars
  BY <1>2, <1>7 DEF EmitWitness, EmitWords, vars
<1> QED BY <1>1, <1>3, <1>4, <1>5, <1>6, <1>7 DEF Next

DInv == CInv /\ AreRecords

\* The invariant with the shape of the recorded traces holds when a run starts.
LEMMA RecordsFirst ==
  ASSUME Init
  PROVE  DInv
<1>1. DOMAIN traces = {}
  BY DEF Init
<1> QED BY <1>1, RetainedFirst DEF DInv, AreRecords

\* Every step keeps it.
LEMMA DStep ==
  ASSUME DInv, [Next]_vars
  PROVE  DInv'
BY CStep, RecordsStep DEF DInv, CInv, BInv, AInv

-----------------------------------------------------------------------------
(* A defect in the traces.                                                 *)

\* A trace is shown to whoever has the field, the quiver and the basis.
LEMMA ShownAlike ==
  ASSUME NEW cert, NEW q, NEW Q, NEW b, IsOf(cert, q, Q, b), NEW trace, IsShown(Sketch(q, Q, b), trace)
  PROVE  IsShown(cert, trace)
<1> DEFINE sketch == Sketch(q, Q, b)
<1>1. /\ sketch.field = cert.field /\ sketch.quiver = cert.quiver /\ sketch.basis = cert.basis
  BY DEF Sketch, IsOf
<1> HIDE DEF sketch
<1>2. ASSUME NEW step, NEW f
      PROVE  /\ StepHolds(sketch, step, f) <=> StepHolds(cert, step, f)
             /\ Left(sketch, step, f) = Left(cert, step, f)
  BY <1>1 DEF StepHolds, Left
<1>3. AreCounted(cert, trace.steps) /\ Traced(sketch, trace.start, trace.steps, ZeroPoly)
  BY <1>1 DEF IsShown, AreCounted, sketch
<1>4. PICK L : IsTrail(sketch, trace.start, trace.steps, ZeroPoly, L)
  BY <1>3 DEF Traced
<1>5. IsTrail(cert, trace.start, trace.steps, ZeroPoly, L)
  BY <1>2, <1>4 DEF IsTrail
<1> QED BY <1>3, <1>5 DEF Traced, IsShown

\* The last step of a trace is missing.
LEMMA LastMissing ==
  ASSUME NEW cert, NEW trace, IsRecord(trace), IsShown(cert, trace), trace.steps # <<>>,
         NEW cut, cut = [trace EXCEPT !.steps = SubSeq(@, 1, Len(@) - 1)]
  PROVE  ~Replays(cert, cut)
<1> PICK s : s = trace.steps
  OBVIOUS
<1>1. IsSeq(s) /\ Len(s) \in Nat /\ DOMAIN s = 1 .. Len(s)
  BY ShownIs
<1>2. Len(s) # 0
  BY <1>1, EmptySeq DEF IsSeq
<1> PICK m : m = Len(s) - 1
  OBVIOUS
<1>3. m \in Nat /\ m + 1 = Len(s) /\ m <= Len(s)
  BY <1>1, <1>2
<1> PICK t : t = SubSeq(s, 1, m)
  OBVIOUS
<1>4. cut.steps = t /\ cut.start = trace.start
  BY DEF IsRecord
<1>5. IsSeq(t) /\ Len(t) = m /\ \A n \in 1 .. m : t[n] = s[n]
  <2>1. 1 \in Nat /\ m \in Nat /\ 1 <= m + 1 /\ m - 1 + 1 = m
    BY <1>3
  <2> PICK i : i = 1
    OBVIOUS
  <2>2. i \in Nat /\ i <= m + 1 /\ t = SubSeq(s, i, m)
    BY <2>1
  <2>3. /\ IsSeq(t) /\ Len(t) = m - i + 1 /\ DOMAIN t = 1 .. m - i + 1
        /\ \A n \in 1 .. m - i + 1 : t[n] = s[i + n - 1]
    <3>1. IsSeq(t)
      BY ONLY <1>3, <2>2, SliceIs
    <3>2. Len(t) = m - i + 1 /\ DOMAIN t = 1 .. m - i + 1
      BY ONLY <1>3, <2>2, SliceIs
    <3>3. \A n \in 1 .. m - i + 1 : t[n] = s[i + n - 1]
      BY ONLY <1>3, <2>2, SliceIs
    <3> QED BY <3>1, <3>2, <3>3
  <2>4. m - i + 1 = m /\ \A n \in 1 .. m : i + n - 1 = n
    BY ONLY <1>3, i = 1
  <2> QED BY ONLY <2>3, <2>4
<1> QED BY <1>3, <1>4, <1>5, ShortenedFails

\* the defects of a list of traces
Shorter(ts, n) == [ts EXCEPT ![n].steps = SubSeq(@, 1, Len(@) - 1)]

Miscount(ts, n, q) == [ts EXCEPT ![n].steps[Len(ts[n].steps)].coeff = (@ + 1) % q]

\* The next number, counted modulo q, is another one.
LEMMA NextDiffers ==
  ASSUME NEW q \in Nat, q >= 2, NEW c \in 1 .. q - 1
  PROVE  (c + 1) % q # c
<1>1. CASE c = q - 1
  <2>1. (c + 1) % q = 0
    BY <1>1
  <2> QED BY <2>1
<1>2. CASE c # q - 1
  <2>1. c + 1 \in 0 .. q - 1
    BY <1>2
  <2>2. (c + 1) % q = c + 1
    BY ONLY <2>1, q \in Nat, q >= 2
  <2> QED BY <2>2
<1> QED BY <1>1, <1>2

\* The coefficient of the last step of a trace is wrong.
LEMMA LastMiscounted ==
  ASSUME NEW cert, NEW q \in Nat, q >= 2, cert.field = q, NEW trace, IsRecord(trace), IsShown(cert, trace),
         trace.steps # <<>>,
         NEW other, other = [trace EXCEPT !.steps[Len(trace.steps)].coeff = (@ + 1) % q]
  PROVE  ~Replays(cert, other)
<1> PICK s : s = trace.steps
  OBVIOUS
<1>1. IsSeq(s) /\ Len(s) \in Nat /\ DOMAIN s = 1 .. Len(s) /\ \A n \in 1 .. Len(s) : IsMove(q, s[n])
  BY ShownIs
<1>2. Len(s) # 0
  BY <1>1, EmptySeq DEF IsSeq
<1> PICK m : m = Len(s)
  OBVIOUS
<1>3. m \in Nat /\ m \in 1 .. m /\ DOMAIN s = 1 .. m
  BY <1>1, <1>2
<1> PICK c : c = (s[m].coeff + 1) % q
  OBVIOUS
<1> PICK t : t = [s EXCEPT ![m].coeff = c]
  OBVIOUS
<1>4. other.steps = t /\ other.start = trace.start
  <2>1. trace = [key |-> trace.key, start |-> trace.start, steps |-> trace.steps]
    BY DEF IsRecord
  <2> QED BY <2>1
<1>5. /\ s[m] = [word |-> s[m].word, basis_index |-> s[m].basis_index, left |-> s[m].left, right |-> s[m].right,
                 coeff |-> s[m].coeff]
      /\ s[m].coeff \in 1 .. q - 1
  BY <1>1, <1>3 DEF IsMove
<1>6. c # s[m].coeff
  BY <1>5, NextDiffers
<1>7. /\ t = [n \in 1 .. m |-> IF n = m THEN [s[m] EXCEPT !.coeff = c] ELSE s[n]]
  BY <1>3
<1>8. IsSeq(t) /\ Len(t) = m
  <2>1. t = [n \in 1 .. m |-> t[n]]
    BY <1>7
  <2> QED BY ONLY <1>3, <2>1, FunctionIsSeq
<1>9. t[m].coeff = c /\ IsSameStep(t[m], s[m])
  <2>1. t[m] = [s[m] EXCEPT !.coeff = c]
    BY <1>3, <1>7
  <2> QED BY <1>5, <2>1 DEF IsSameStep
<1>10. \A n \in 1 .. m : IsSameStep(t[n], s[n])
  <2> SUFFICES ASSUME NEW n \in 1 .. m PROVE IsSameStep(t[n], s[n])
    OBVIOUS
  <2>1. CASE n = m
    BY <1>9, <2>1
  <2>2. CASE n # m
    <3>1. t[n] = s[n]
      BY <1>7, <2>2
    <3> QED BY <3>1 DEF IsSameStep
  <2> QED BY <2>1, <2>2
<1> QED BY <1>2, <1>4, <1>6, <1>8, <1>9, <1>10, MiscountedFails, ZenonT(40)

\* the traces of a certificate
AreShown(cert, ts) == IsSeq(ts) /\ \A n \in DOMAIN ts : IsRecord(ts[n]) /\ IsShown(cert, ts[n])

\* No list of traces with such a defect is all replayed.
LEMMA DefectFails ==
  ASSUME NEW cert, NEW q \in Nat, q >= 2, cert.field = q, NEW ts, AreShown(cert, ts), NEW n \in DOMAIN ts,
         ts[n].steps # <<>>, NEW us, us = Shorter(ts, n) \/ us = Miscount(ts, n, q)
  PROVE  n \in DOMAIN us /\ ~Replays(cert, us[n])
<1>1. DOMAIN us = DOMAIN ts
  BY DEF Shorter, Miscount
<1> PICK trace : trace = ts[n]
  OBVIOUS
<1>2. IsRecord(trace) /\ IsShown(cert, trace) /\ trace.steps # <<>>
  BY DEF AreShown
<1>3. CASE us = Shorter(ts, n)
  <2>1. us[n] = [trace EXCEPT !.steps = SubSeq(@, 1, Len(@) - 1)]
    BY <1>3 DEF Shorter
  <2> QED BY <1>1, <1>2, <2>1, LastMissing
<1>4. CASE us = Miscount(ts, n, q)
  <2>1. us[n] = [trace EXCEPT !.steps[Len(trace.steps)].coeff = (@ + 1) % q]
    BY <1>4 DEF Miscount
  <2> QED BY <1>1, <1>2, <2>1, LastMiscounted
<1> QED BY <1>3, <1>4

\* A certificate with a cut or a miscounted trace is rejected.
LEMMA DefectInTraces ==
  ASSUME NEW cert, NEW q \in Nat, q >= 2, cert.field = q, NEW ts, AreShown(cert, ts), NEW n \in DOMAIN ts,
         ts[n].steps # <<>>, NEW us, us = Shorter(ts, n) \/ us = Miscount(ts, n, q)
  PROVE  /\ cert.membership = us => ~MembershipHolds(cert)
         /\ cert.ambiguities = us => ~AmbiguitiesHold(cert)
<1>1. n \in DOMAIN us /\ ~Replays(cert, us[n])
  BY DefectFails
<1> QED BY <1>1 DEF MembershipHolds, AmbiguitiesHold

-----------------------------------------------------------------------------
(* An ambiguity that is missing.                                           *)

\* the entries of a certificate: each key of the basis, in their order
ListsKeys(b, A) ==
  /\ IsSeq(A)
  /\ \A n \in DOMAIN A : A[n].key \in AllKeys(b)
  /\ \A m, n \in DOMAIN A : m < n => LexLess(A[m].key, A[n].key)

\* The ambiguities of a certificate are all the keys, in order.
LEMMA EntriesList ==
  ASSUME NEW q, NEW b, NEW rels, NEW ts, IsSeq(ts), Len(rels) \in Nat, NEW w, EntriesAre(q, b, rels, ts, {}, w),
         NEW A, A = SubSeq(ts, Len(rels) + 1, Len(ts))
  PROVE  ListsKeys(b, A) /\ \A n \in DOMAIN A : \E m \in DOMAIN ts : A[n] = ts[m]
<1> PICK m : m = Len(rels)
  OBVIOUS
<1> PICK l : l = Len(ts)
  OBVIOUS
<1> PICK i : i = m + 1
  OBVIOUS
<1>1. m \in Nat /\ l \in Nat /\ m <= l /\ DOMAIN ts = 1 .. l
  BY SeqIs DEF EntriesAre
<1>2. i \in Nat /\ i <= l + 1 /\ A = SubSeq(ts, i, l)
  BY <1>1
<1>3. IsSeq(A)
  BY ONLY <1>1, <1>2, SliceIs
<1>4. DOMAIN A = 1 .. l - i + 1
  BY ONLY <1>1, <1>2, SliceIs
<1>5. \A n \in 1 .. l - i + 1 : A[n] = ts[i + n - 1]
  BY ONLY <1>1, <1>2, SliceIs
<1>6. \A n \in 1 .. l - i + 1 : i + n - 1 \in 1 .. l /\ i + n - 1 > m
  BY ONLY <1>1, <1>2, i = m + 1
<1>7. ASSUME NEW n \in DOMAIN A PROVE \E k \in QueueEntries(rels, ts) : k = i + n - 1 /\ A[n] = ts[k]
  BY <1>1, <1>4, <1>5, <1>6 DEF QueueEntries
<1>8. ASSUME NEW n \in DOMAIN A PROVE A[n].key \in AllKeys(b)
  <2>1. PICK k \in QueueEntries(rels, ts) : A[n] = ts[k]
    BY <1>7
  <2> QED BY <2>1 DEF EntriesAre, IsEntry
<1>9. ASSUME NEW n \in DOMAIN A, NEW o \in DOMAIN A, o < n PROVE LexLess(A[o].key, A[n].key)
  <2>1. PICK k \in QueueEntries(rels, ts) : k = i + n - 1 /\ A[n] = ts[k]
    BY <1>7
  <2>2. PICK h \in QueueEntries(rels, ts) : h = i + o - 1 /\ A[o] = ts[h]
    BY <1>7
  <2>3. h < k
    BY ONLY <1>1, <1>2, <1>4, <1>9, <2>1, <2>2
  <2>4. LexLess(ts[h].key, ts[k].key)
    BY <2>3 DEF EntriesAre
  <2> QED BY <2>1, <2>2, <2>4
<1>10. \A n \in DOMAIN A : \E k \in DOMAIN ts : A[n] = ts[k]
  BY <1>7 DEF QueueEntries
<1> QED BY <1>3, <1>8, <1>9, <1>10 DEF ListsKeys

\* An ambiguity is missing.
LEMMA EntryMissing ==
  ASSUME NEW cert, NEW q, IsModulus(q), NEW J, NEW b, BasisIs(q, J, b), NEW Q, IsOf(cert, q, Q, b),
         NEW A, ListsKeys(b, A), NEW n \in DOMAIN A, cert.ambiguities = RemoveAt(A, n)
  PROVE  ~AmbiguitiesHold(cert)
<1> SUFFICES ASSUME AmbiguitiesHold(cert) PROVE FALSE
  OBVIOUS
<1> PICK key : key = A[n].key
  OBVIOUS
<1> PICK t : t = cert.ambiguities
  OBVIOUS
<1>1. \A k \in DOMAIN t : \E m \in DOMAIN A : m # n /\ t[k] = A[m]
  BY RemoveIs DEF ListsKeys
<1>2. {t[k].key : k \in DOMAIN t} = AmbiguityKeys(cert)
  BY DEF AmbiguitiesHold, KeysHold
<1>3. AmbiguityKeys(cert) = AllKeys(b)
  BY KeysAgree
<1>4. key \in AllKeys(b)
  BY DEF ListsKeys
<1>5. PICK k \in DOMAIN t : t[k].key = key
  BY <1>2, <1>3, <1>4
<1>6. PICK m \in DOMAIN A : m # n /\ A[m].key = key
  BY <1>1, <1>5
<1>7. m < n \/ n < m
  <2>1. DOMAIN A = 1 .. Len(A) /\ Len(A) \in Nat
    BY SeqIs DEF ListsKeys
  <2> QED BY <1>6, <2>1
<1>8. LexLess(key, key)
  <2>1. m < n => LexLess(A[m].key, A[n].key)
    BY DEF ListsKeys
  <2>2. n < m => LexLess(A[n].key, A[m].key)
    BY DEF ListsKeys
  <2> QED BY <1>6, <1>7, <2>1, <2>2
<1>9. key \in Words /\ Len(key) = 4
  BY <1>4, KeyAt
<1> QED BY <1>8, <1>9, LexIsOrder

-----------------------------------------------------------------------------
(* A term or a transition that is missing.                                 *)

\* A product of coefficients is not zero.
LEMMA UnitProduct ==
  ASSUME NEW q, IsModulus(q), Invertible(q), NEW a \in 1 .. q - 1, NEW c \in 1 .. q - 1
  PROVE  ~Congruent(q, c * a, 0)
<1> SUFFICES ASSUME Congruent(q, c * a, 0) PROVE FALSE
  OBVIOUS
<1>1. q \in Nat /\ q >= 2
  BY DEF IsModulus
<1>2. PICK b \in 1 .. q - 1 : (b * c) % q = 1
  BY DEF Invertible
<1> PICK u \in Int : u = c * a
  BY <1>1
<1> PICK v \in Int : v = b * c
  BY <1>1
<1>3. a \in Int /\ b \in Int /\ c \in Int /\ 0 \in Int
  BY <1>1
<1>4. Congruent(q, b * u, b * 0)
  BY ONLY <1>3, IsModulus(q), Congruent(q, c * a, 0), u = c * a, u \in Int, CongruenceLaws
<1>5. b * u = a * v /\ b * 0 = 0
  BY ONLY <1>3, u = c * a, v = b * c
<1>6. Congruent(q, a * v, 0)
  BY <1>4, <1>5
<1>7. Congruent(q, 1, v)
  BY <1>2, Remainder
<1>8. Congruent(q, a * 1, a * v)
  BY ONLY <1>3, <1>7, IsModulus(q), v \in Int, 1 \in Int, CongruenceLaws
<1>9. a * v \in Int /\ a * 1 = a
  BY ONLY <1>3, v \in Int
<1>10. Congruent(q, a, 0)
  <2>1. Congruent(q, a, a * v)
    BY <1>8, <1>9
  <2> QED BY ONLY <1>3, <1>6, <1>9, <2>1, IsModulus(q), CongruenceLaws
<1>11. a \in 0 .. q - 1 /\ 0 \in 0 .. q - 1 /\ a # 0
  BY <1>1
<1> QED BY <1>10, <1>11, CongruentEqual

\* A multiple of a polynomial that is not zero changes what it is added to.
LEMMA AddingChanges ==
  ASSUME NEW q, IsModulus(q), Invertible(q), NEW f \in Polys(q), NEW h \in Polys(q), h # ZeroPoly,
         NEW c \in 1 .. q - 1
  PROVE  AddScaled(q, f, c, h) # f
<1>1. q \in Nat /\ q >= 2 /\ c \in Int
  BY DEF IsModulus
<1>2. PICK w : w \in DOMAIN h
  BY ZeroIs
<1> PICK x : x = Coef(f, w)
  OBVIOUS
<1> PICK a : a = Coef(h, w)
  OBVIOUS
<1>3. x \in 0 .. q - 1 /\ a \in 1 .. q - 1
  BY <1>2, CoefIs, PolyIs
<1>4. Coef(AddScaled(q, f, c, h), w) = ((x + c * a) % q)
  <2>1. w \in Words
    BY <1>2, PolyIs
  <2> QED BY <1>1, <2>1, SumOfPolys
<1>5. SUFFICES ASSUME (x + c * a) % q = x PROVE FALSE
  BY <1>4
<1> PICK u \in Int : u = c * a
  BY <1>1, <1>3
<1>6. Congruent(q, x, x + u) /\ x \in Int /\ x + u \in Int
  BY <1>1, <1>3, <1>5, Remainder
<1>7. Congruent(q, x + u, x)
  BY <1>6, CongruenceLaws
<1> PICK y \in Int : y = -x
  BY <1>6
<1>8. Congruent(q, y, y)
  BY CongruenceLaws
<1>9. Congruent(q, (x + u) + y, x + y)
  BY ONLY <1>6, <1>7, <1>8, y \in Int, IsModulus(q), CongruenceLaws
<1>10. (x + u) + y = u /\ x + y = 0
  BY ONLY <1>6, u \in Int, y = -x
<1> QED BY <1>3, <1>9, <1>10, UnitProduct

\* A term of an origin is missing.
LEMMA TermMissing ==
  ASSUME NEW q, IsModulus(q), Invertible(q), NEW rels, ArePolys(q, rels),
         \A n \in DOMAIN rels : rels[n] # ZeroPoly,
         NEW o, IsOrigin(q, rels, o), NEW t \in DOMAIN o
  PROVE  /\ IsOrigin(q, rels, Without(o, t))
         /\ OriginSum(q, rels, Without(o, t)) # Expanded(q, rels, o)
<1> PICK h : h = Without(o, t)
  OBVIOUS
<1> PICK T : T = Triples(rels)
  OBVIOUS
<1> PICK m : m = OriginTerms(rels)
  OBVIOUS
<1>1. t \in T /\ o[t] \in 1 .. q - 1 /\ Coef(o, t) = o[t]
  BY DEF IsOrigin, IsSparse, Coef
<1>2. Expandable(q, T, o, m)
  BY OriginExpands
<1>3. Expandable(q, T, h, m) /\ Expansion(q, o, m) = AddScaled(q, Expansion(q, h, m), o[t], m[t])
  BY <1>1, <1>2, ExpansionWithout
<1>4. Expansion(q, h, m) \in Polys(q)
  BY <1>3, ExpansionType
<1>5. m[t] \in Polys(q) /\ m[t] # ZeroPoly
  <2>1. t[1] \in DOMAIN rels /\ t[2] \in Words /\ t[3] \in Words
    BY <1>1, TripleIs
  <2>2. rels[t[1]] \in Polys(q) /\ rels[t[1]] # ZeroPoly
    BY <2>1 DEF ArePolys
  <2>3. m[t] = Between(t[2], rels[t[1]], t[3])
    BY <1>1 DEF OriginTerms
  <2>4. Put(t[2], LeadOf(rels[t[1]]), t[3]) \in DOMAIN m[t]
    BY <2>1, <2>2, <2>3, LeadOfBetween
  <2>5. m[t] \in Polys(q)
    BY <2>1, <2>2, <2>3, BetweenType
  <2> QED BY <2>4, <2>5, ZeroIs
<1>6. Expansion(q, o, m) # Expansion(q, h, m)
  BY <1>1, <1>3, <1>4, <1>5, AddingChanges
<1>7. IsOrigin(q, rels, h)
  BY <1>3 DEF Expandable, IsOrigin
<1>8. OriginSum(q, rels, h) = Expansion(q, h, m)
  BY <1>7, SumIsExpansion DEF Expanded
<1> QED BY <1>6, <1>7, <1>8 DEF Expanded

\* The sum of an accepted origin is its basis element.
LEMMA SumAsChecked ==
  ASSUME NEW cert, OriginHolds(cert), NEW k \in DOMAIN cert.origin
  PROVE  OriginSum(cert.field, cert.input_relations, cert.origin[k]) = cert.basis[k]
<1>1. OriginSum(cert.field, cert.input_relations, cert.origin[k])
        = FoldSet(LAMBDA t, sum : AddPoly(cert.field, sum, 1, <<>>,
                    AddPoly(cert.field, <<>>, cert.origin[k][t], t[2], cert.input_relations[t[1]], t[3]), <<>>),
                  <<>>, DOMAIN cert.origin[k])
  BY Zenon DEF OriginSum, AddTerm, OriginTerm, FoldSet, MapThenFoldSet
<1> QED BY <1>1 DEF OriginHolds

\* A transition is missing.
LEMMA TransitionMissing ==
  ASSUME NEW cert, NEW other, AutomatonHolds(cert), other.basis = cert.basis, other.quiver = cert.quiver,
         NEW t \in cert.automaton.transitions, other.automaton.transitions = cert.automaton.transitions \ {t}
  PROVE  ~AutomatonHolds(other)
<1>1. LeadingWords(other) = LeadingWords(cert)
  BY DEF LeadingWords
<1>2. Tracked(other) = Tracked(cert) /\ Starts(other) = Starts(cert)
  BY <1>1 DEF Tracked, Starts
<1>3. AutomatonStates(other) = AutomatonStates(cert)
  BY <1>2 DEF AutomatonStates
<1>4. \A s : Edges(other, s) = Edges(cert, s)
  BY <1>1, <1>2, ZenonT(60) DEF Edges
<1>5. UNION {{<<s, e[1], e[2]>> : e \in Edges(other, s)} : s \in AutomatonStates(other)}
        = UNION {{<<s, e[1], e[2]>> : e \in Edges(cert, s)} : s \in AutomatonStates(cert)}
  BY <1>3, <1>4
<1> QED BY <1>5 DEF AutomatonHolds

-----------------------------------------------------------------------------
(* A certificate with one field changed.                                   *)

IsCert(c) ==
  c = [field |-> c.field, quiver |-> c.quiver, input_relations |-> c.input_relations, basis |-> c.basis,
       origin |-> c.origin, membership |-> c.membership, ambiguities |-> c.ambiguities,
       normal_words |-> c.normal_words, automaton |-> c.automaton, finiteness |-> c.finiteness]

\* the parts of a certificate that no defect is in
IsLike(d, c) ==
  d.field = c.field /\ d.quiver = c.quiver /\ d.input_relations = c.input_relations /\ d.basis = c.basis

\* one field is changed
PutMembership(c, x) == [c EXCEPT !.membership = x]

PutAmbiguities(c, x) == [c EXCEPT !.ambiguities = x]

PutOrigin(c, x) == [c EXCEPT !.origin = x]

PutAutomaton(c, x) == [c EXCEPT !.automaton = x]

PutNormalWords(c, x) == [c EXCEPT !.normal_words = x]

PutFiniteness(c, x) == [c EXCEPT !.finiteness = x]

\* A certificate changed in one field has its other fields.
LEMMA FieldChanged ==
  ASSUME NEW c, IsCert(c), NEW x
  PROVE  /\ IsLike(PutMembership(c, x), c) /\ PutMembership(c, x).membership = x
         /\ IsLike(PutAmbiguities(c, x), c) /\ PutAmbiguities(c, x).ambiguities = x
         /\ IsLike(PutOrigin(c, x), c) /\ PutOrigin(c, x).origin = x
         /\ IsLike(PutAutomaton(c, x), c) /\ PutAutomaton(c, x).automaton = x
         /\ IsLike(PutNormalWords(c, x), c) /\ PutNormalWords(c, x).normal_words = x
         /\ PutNormalWords(c, x).finiteness = c.finiteness
         /\ IsLike(PutFiniteness(c, x), c) /\ PutFiniteness(c, x).finiteness = x
<1>1. DOMAIN c = {"field", "quiver", "input_relations", "basis", "origin", "membership", "ambiguities",
                  "normal_words", "automaton", "finiteness"}
  BY DEF IsCert
<1>2. IsLike(PutMembership(c, x), c) /\ PutMembership(c, x).membership = x
  BY <1>1 DEF IsLike, PutMembership
<1>3. IsLike(PutAmbiguities(c, x), c) /\ PutAmbiguities(c, x).ambiguities = x
  BY <1>1 DEF IsLike, PutAmbiguities
<1>4. IsLike(PutOrigin(c, x), c) /\ PutOrigin(c, x).origin = x
  BY <1>1 DEF IsLike, PutOrigin
<1>5. IsLike(PutAutomaton(c, x), c) /\ PutAutomaton(c, x).automaton = x
  BY <1>1 DEF IsLike, PutAutomaton
<1>6. IsLike(PutNormalWords(c, x), c) /\ PutNormalWords(c, x).normal_words = x
        /\ PutNormalWords(c, x).finiteness = c.finiteness
  BY <1>1 DEF IsLike, PutNormalWords
<1>7. IsLike(PutFiniteness(c, x), c) /\ PutFiniteness(c, x).finiteness = x
  BY <1>1 DEF IsLike, PutFiniteness
<1> QED BY <1>2, <1>3, <1>4, <1>5, <1>6, <1>7

\* What a certificate is rejected for.
LEMMA IsRejected ==
  ASSUME NEW d, \/ ~OriginHolds(d) \/ ~MembershipHolds(d) \/ ~AmbiguitiesHold(d) \/ ~AutomatonHolds(d)
                \/ ~FinitenessHolds(d)
  PROVE  Verdict(d) = "rejected"
BY DEF Verdict

\* The lists of a complete run's certificate.
LEMMA CompleteLists ==
  ASSUME DInv, phase = "complete"
  PROVE  /\ IsCert(certificate) /\ IsOf(certificate, p, Quiver, basis)
         /\ certificate.input_relations = relations
         /\ certificate.origin = [k \in DOMAIN basis |-> basis[k].origin]
         /\ AreShown(certificate, certificate.membership) /\ AreShown(certificate, certificate.ambiguities)
         /\ ListsKeys(basis, certificate.ambiguities)
         /\ IsModulus(p) /\ Invertible(p) /\ ArePolys(p, relations)
         /\ BasisIs(p, Ideal(p, Inputs(relations)), basis)
<1>1. certificate = CertOf(presentation, basis, traces, LeadsOf(basis))
  BY DEF DInv, CInv, BInv, IsEmitted
<1>2. IsCert(certificate)
  BY <1>1 DEF CertOf, IsCert
<1>3. /\ certificate.field = p /\ certificate.quiver = Quiver /\ certificate.input_relations = relations
      /\ certificate.basis = [k \in DOMAIN basis |-> basis[k].poly]
      /\ certificate.origin = [k \in DOMAIN basis |-> basis[k].origin]
      /\ certificate.membership = SubSeq(traces, 1, Len(relations))
      /\ certificate.ambiguities = SubSeq(traces, Len(relations) + 1, Len(traces))
  BY <1>1 DEF CertOf, Quiver, p, relations
<1>4. IsOf(certificate, p, Quiver, basis)
  BY <1>3 DEF IsOf
<1>5. /\ IsModulus(p) /\ Invertible(p) /\ ArePolys(p, relations)
      /\ BasisIs(p, Ideal(p, Inputs(relations)), basis) /\ Len(relations) \in Nat
  BY Known, RelationsArePolys DEF DInv, CInv, BInv, AInv
<1>6. /\ TracesAre(Sketch(p, Quiver, basis), traces, work)
      /\ EntriesAre(p, basis, relations, traces, {}, work) /\ IsSeq(traces) /\ AreRecords
  BY DEF DInv, CInv, BInv, AInv, AreRecorded, Retained
<1>7. \A n \in DOMAIN traces : IsRecord(traces[n]) /\ IsShown(certificate, traces[n])
  BY <1>4, <1>6, ShownAlike DEF TracesAre, AreRecords
<1> PICK rels : rels = relations
  OBVIOUS
<1> PICK ts : ts = traces
  OBVIOUS
<1>8. Len(rels) \in Nat /\ Len(ts) \in Nat /\ Len(rels) <= Len(ts) /\ DOMAIN ts = 1 .. Len(ts) /\ IsSeq(ts)
  BY <1>5, <1>6, SeqIs DEF EntriesAre
<1>9. AreShown(certificate, certificate.membership)
  <2> PICK i : i = 1
    OBVIOUS
  <2> PICK m : m = Len(rels)
    OBVIOUS
  <2> PICK t : t = SubSeq(ts, i, m)
    OBVIOUS
  <2>1. i \in Nat /\ m \in Nat /\ i <= m + 1
    BY <1>8
  <2>2. IsSeq(t)
    BY ONLY <2>1, t = SubSeq(ts, i, m), SliceIs
  <2>3. DOMAIN t = 1 .. m - i + 1
    BY ONLY <2>1, t = SubSeq(ts, i, m), SliceIs
  <2>4. \A n \in 1 .. m - i + 1 : t[n] = ts[i + n - 1]
    BY ONLY <2>1, t = SubSeq(ts, i, m), SliceIs
  <2>5. \A n \in 1 .. m - i + 1 : i + n - 1 \in DOMAIN ts
    BY ONLY <1>8, <2>1, i = 1, m = Len(rels)
  <2>6. \A n \in DOMAIN t : IsRecord(t[n]) /\ IsShown(certificate, t[n])
    BY <1>7, <2>3, <2>4, <2>5
  <2> QED BY <1>3, <2>2, <2>6 DEF AreShown
<1>10. /\ ListsKeys(basis, certificate.ambiguities)
       /\ \A n \in DOMAIN certificate.ambiguities : \E m \in DOMAIN traces :
            certificate.ambiguities[n] = traces[m]
  <2> PICK A : A = certificate.ambiguities
    OBVIOUS
  <2> PICK q : q = p
    OBVIOUS
  <2> PICK b : b = basis
    OBVIOUS
  <2> PICK w : w = work
    OBVIOUS
  <2>1. EntriesAre(q, b, rels, ts, {}, w) /\ A = SubSeq(ts, Len(rels) + 1, Len(ts))
    BY <1>3, <1>6
  <2>2. ListsKeys(b, A)
    BY ONLY <1>8, <2>1, EntriesList
  <2>3. \A n \in DOMAIN A : \E m \in DOMAIN ts : A[n] = ts[m]
    BY ONLY <1>8, <2>1, EntriesList
  <2> QED BY <2>2, <2>3
<1>11. AreShown(certificate, certificate.ambiguities)
  BY <1>7, <1>10 DEF AreShown, ListsKeys
<1> QED BY <1>2, <1>3, <1>4, <1>5, <1>9, <1>10, <1>11

-----------------------------------------------------------------------------
(* Every defect is rejected.                                               *)

\* A trace is shown to a certificate with the same basis.
LEMMA ShownLike ==
  ASSUME NEW c, NEW d, IsLike(d, c), NEW ts, AreShown(c, ts)
  PROVE  AreShown(d, ts)
<1>1. d.field = c.field /\ d.quiver = c.quiver /\ d.basis = c.basis
  BY DEF IsLike
<1>2. ASSUME NEW step, NEW f
      PROVE  (StepHolds(c, step, f) <=> StepHolds(d, step, f)) /\ Left(c, step, f) = Left(d, step, f)
  BY <1>1 DEF StepHolds, Left
<1>3. ASSUME NEW trace, IsShown(c, trace) PROVE IsShown(d, trace)
  <2>1. AreCounted(d, trace.steps) /\ Traced(c, trace.start, trace.steps, ZeroPoly)
    BY <1>1, <1>3 DEF IsShown, AreCounted
  <2>2. PICK L : IsTrail(c, trace.start, trace.steps, ZeroPoly, L)
    BY <2>1 DEF Traced
  <2>3. IsTrail(d, trace.start, trace.steps, ZeroPoly, L)
    BY <1>2, <2>2 DEF IsTrail
  <2> QED BY <2>1, <2>3 DEF Traced, IsShown
<1> QED BY <1>3 DEF AreShown

\* A trace without its last step, or with another coefficient in it.
LEMMA TraceRejected ==
  ASSUME DInv, phase = "complete", NEW d, NEW ts, NEW n \in DOMAIN ts, ts[n].steps # <<>>,
         NEW us, us = Shorter(ts, n) \/ us = Miscount(ts, n, p),
         \/ ts = certificate.membership /\ d = PutMembership(certificate, us)
         \/ ts = certificate.ambiguities /\ d = PutAmbiguities(certificate, us)
  PROVE  Verdict(d) = "rejected"
<1> PICK c : c = certificate
  OBVIOUS
<1> PICK q : q = p
  OBVIOUS
<1>1. IsCert(c) /\ c.field = q /\ IsModulus(q)
  BY CompleteLists DEF IsOf
<1>2. IsLike(d, c) /\ AreShown(c, ts) /\ (d.membership = us \/ d.ambiguities = us)
  <2>1. AreShown(c, c.membership) /\ AreShown(c, c.ambiguities)
    BY CompleteLists
  <2>2. CASE ts = c.membership /\ d = PutMembership(c, us)
    <3>1. IsLike(d, c) /\ d.membership = us
      BY ONLY <1>1, <2>2, FieldChanged
    <3> QED BY <2>1, <2>2, <3>1
  <2>3. CASE ts = c.ambiguities /\ d = PutAmbiguities(c, us)
    <3>1. IsLike(d, c) /\ d.ambiguities = us
      BY ONLY <1>1, <2>3, FieldChanged
    <3> QED BY <2>1, <2>3, <3>1
  <2> QED BY <2>2, <2>3
<1>3. AreShown(d, ts)
  BY <1>2, ShownLike
<1>4. q \in Nat /\ q >= 2 /\ d.field = q
  BY <1>1, <1>2 DEF IsModulus, IsLike
<1>5. /\ d.membership = us => ~MembershipHolds(d)
      /\ d.ambiguities = us => ~AmbiguitiesHold(d)
  BY <1>3, <1>4, DefectInTraces
<1> QED BY <1>2, <1>5, IsRejected

\* An ambiguity that is left out.
LEMMA EntryRejected ==
  ASSUME DInv, phase = "complete", NEW n \in DOMAIN certificate.ambiguities,
         NEW us, us = RemoveAt(certificate.ambiguities, n), NEW d, d = PutAmbiguities(certificate, us)
  PROVE  Verdict(d) = "rejected"
<1>1. IsCert(certificate) /\ IsOf(certificate, p, Quiver, basis)
  BY CompleteLists
<1>2. IsLike(d, certificate) /\ d.ambiguities = us
  BY <1>1, FieldChanged
<1>3. IsOf(d, p, Quiver, basis)
  BY <1>1, <1>2 DEF IsOf, IsLike
<1>4. ~AmbiguitiesHold(d)
  BY <1>2, <1>3, CompleteLists, EntryMissing
<1> QED BY <1>4, IsRejected

\* A term of an origin that is left out.
LEMMA OriginRejected ==
  ASSUME DInv, phase = "complete", NEW k \in DOMAIN certificate.origin, NEW t \in DOMAIN certificate.origin[k],
         NEW us, us = [certificate.origin EXCEPT ![k] = Without(certificate.origin[k], t)],
         NEW d, d = PutOrigin(certificate, us)
  PROVE  Verdict(d) = "rejected"
<1> PICK b : b = basis
  OBVIOUS
<1> PICK q : q = p
  OBVIOUS
<1> PICK rels : rels = relations
  OBVIOUS
<1> PICK o : o = certificate.origin[k]
  OBVIOUS
<1>1. /\ IsCert(certificate) /\ IsOf(certificate, q, Quiver, b) /\ certificate.input_relations = rels
      /\ certificate.origin = [j \in DOMAIN b |-> b[j].origin]
      /\ IsModulus(q) /\ Invertible(q) /\ ArePolys(q, rels)
  BY CompleteLists
<1>2. k \in DOMAIN b /\ o = b[k].origin /\ t \in DOMAIN o
  BY <1>1
<1>3. IsLike(d, certificate) /\ d.origin = us
  BY <1>1, FieldChanged
<1>4. d.field = q /\ d.input_relations = rels /\ d.basis[k] = b[k].poly
  BY <1>1, <1>2, <1>3 DEF IsLike, IsOf
<1>5. k \in DOMAIN us /\ us[k] = Without(o, t)
  <2>1. k \in DOMAIN certificate.origin
    OBVIOUS
  <2> QED BY <2>1
<1>6. IsKept(q, rels, Quiver, o, b[k].poly)
  BY <1>2 DEF DInv, CInv, BInv, AInv, OriginsKept, AllKept
<1>7. IsOrigin(q, rels, o) /\ b[k].poly = Expanded(q, rels, o)
  BY <1>6 DEF IsKept, KeptAt
<1>8. \A n \in DOMAIN rels : rels[n] # ZeroPoly
  <2>1. RelationsHold(certificate)
    BY CompleteIs DEF DInv, CInv
  <2>2. \A n \in DOMAIN rels : ~IsZero(rels[n])
    BY <1>1, <2>1 DEF RelationsHold, IsRelation
  <2>3. IsZero(ZeroPoly)
    BY DEF IsZero, ZeroPoly
  <2> QED BY <2>2, <2>3
<1>9. OriginSum(q, rels, Without(o, t)) # b[k].poly
  BY <1>1, <1>2, <1>7, <1>8, TermMissing
<1>10. ~OriginHolds(d)
  <2>1. OriginHolds(d) => OriginSum(d.field, d.input_relations, d.origin[k]) = d.basis[k]
    BY <1>3, <1>5, SumAsChecked
  <2> QED BY <1>3, <1>4, <1>5, <1>9, <2>1
<1> QED BY <1>10, IsRejected

\* A transition that is left out.
LEMMA TransitionRejected ==
  ASSUME DInv, phase = "complete", NEW t \in certificate.automaton.transitions,
         NEW a, a = [certificate.automaton EXCEPT !.transitions = certificate.automaton.transitions \ {t}],
         NEW d, d = PutAutomaton(certificate, a)
  PROVE  Verdict(d) = "rejected"
<1>1. IsCert(certificate) /\ AutomatonHolds(certificate)
  BY CompleteLists, CompleteIs DEF DInv, CInv
<1>2. IsLike(d, certificate) /\ d.automaton = a
  BY <1>1, FieldChanged
<1>3. a.transitions = certificate.automaton.transitions \ {t}
  <2>1. certificate.automaton = [states |-> States(presentation, LeadsOf(basis)),
                                 transitions |-> Transitions(presentation, LeadsOf(basis))]
    BY DEF DInv, CInv, BInv, IsEmitted, CertOf
  <2> QED BY <2>1
<1>4. ~AutomatonHolds(d)
  BY <1>1, <1>2, <1>3, TransitionMissing DEF IsLike
<1> QED BY <1>4, IsRejected

\* A certificate with the same basis is about the same words.
LEMMA LikeIsFor ==
  ASSUME NEW c, NEW d, IsLike(d, c), NEW pr, NEW F, IsFor(c, pr, F)
  PROVE  IsFor(d, pr, F)
<1>1. LeadingWords(d) = LeadingWords(c) /\ d.quiver = c.quiver
  BY DEF LeadingWords, IsLike
<1> QED BY <1>1 DEF IsFor

\* A normal word that is left out.
LEMMA WordRejected ==
  ASSUME DInv, phase = "complete", NEW n \in DOMAIN certificate.normal_words,
         NEW us, us = RemoveAt(certificate.normal_words, n), NEW d, d = PutNormalWords(certificate, us)
  PROVE  Verdict(d) = "rejected"
<1> PICK F : F = Leads
  OBVIOUS
<1> PICK pr : pr = presentation
  OBVIOUS
<1>1. /\ IsCert(certificate) /\ IsFor(certificate, pr, F)
      /\ certificate.normal_words = WordsOf(pr, F) /\ certificate.finiteness = ClaimOf(pr, F)
  BY CompleteLists, CompleteIs DEF DInv, CInv
<1>2. IsFiniteLanguage(pr, F)
  <2>1. DOMAIN <<>> = {}
    OBVIOUS
  <2> QED BY <1>1, <2>1 DEF WordsOf
<1> PICK q : q = ListOf(pr, F)
  OBVIOUS
<1>3. certificate.normal_words = q /\ certificate.finiteness = [kind |-> "finite"]
  BY <1>1, <1>2 DEF WordsOf, ClaimOf
<1>4. IsLike(d, certificate) /\ d.normal_words = us /\ d.finiteness = certificate.finiteness
  BY <1>1, FieldChanged
<1>5. IsFor(d, pr, F)
  BY <1>1, <1>4, LikeIsFor
<1>6. NormalWordOrder(d) = q
  BY <1>2, <1>5, ListIsOrder
<1>7. IsSeq(q)
  <2>1. PICK z : IsListing(z, KeyedWords(certificate, pr)) /\ DOMAIN q = DOMAIN z
    BY <1>1, <1>2, ListOfIs DEF IsListOf
  <2>2. z \in Seq(Words)
    BY <2>1 DEF IsListing
  <2> PICK l : l = Len(z)
    OBVIOUS
  <2>3. l \in Nat /\ DOMAIN q = 1 .. l
    BY <2>1, <2>2
  <2>4. q = [i \in DOMAIN q |-> q[i]]
    BY DEF ListOf
  <2>5. q = [i \in 1 .. l |-> q[i]]
    BY <2>3, <2>4
  <2> QED BY ONLY <2>3, <2>5, FunctionIsSeq
<1>8. Len(us) + 1 = Len(q) /\ Len(us) \in Nat
  <2>1. n \in DOMAIN q /\ us = RemoveAt(q, n)
    BY <1>3
  <2> QED BY ONLY <1>7, <2>1, RemoveIs
<1>9. us # q
  BY ONLY <1>8
<1>10. ~FinitenessHolds(d)
  BY <1>3, <1>4, <1>6, <1>9 DEF FinitenessHolds
<1> QED BY <1>10, IsRejected

\* An infinite language that is claimed to be finite.
LEMMA ClaimRejected ==
  ASSUME DInv, phase = "complete", NEW d, d = PutFiniteness(certificate, [kind |-> "finite"]),
         d # certificate
  PROVE  Verdict(d) = "rejected"
<1> PICK F : F = Leads
  OBVIOUS
<1> PICK pr : pr = presentation
  OBVIOUS
<1> PICK x : x = [kind |-> "finite"]
  OBVIOUS
<1>1. /\ IsCert(certificate) /\ IsFor(certificate, pr, F) /\ certificate.finiteness = ClaimOf(pr, F)
  BY CompleteLists, CompleteIs DEF DInv, CInv
<1>2. ~IsFiniteLanguage(pr, F)
  <2>1. SUFFICES ASSUME IsFiniteLanguage(pr, F) PROVE FALSE
    OBVIOUS
  <2>2. certificate.finiteness = x
    BY <1>1, <2>1 DEF ClaimOf
  <2>3. PutFiniteness(certificate, x) = certificate
    BY <1>1, <2>2 DEF IsCert, PutFiniteness
  <2> QED BY <2>3
<1>3. IsLike(d, certificate) /\ d.finiteness = x
  BY <1>1, FieldChanged
<1>4. HasCycle(d)
  BY <1>1, <1>2, <1>3, LikeIsFor, CycleDecided
<1>5. d.finiteness.kind = "finite"
  BY <1>3
<1>6. ~FinitenessHolds(d)
  BY <1>4, <1>5 DEF FinitenessHolds
<1> QED BY <1>6, IsRejected

\* The defects, one by one.
LEMMA DefectiveIs ==
  ASSUME NEW d \in Defective
  PROVE  \/ \E n \in DOMAIN certificate.membership : certificate.membership[n].steps # <<>> /\
              \E us : /\ us = Shorter(certificate.membership, n) \/ us = Miscount(certificate.membership, n, p)
                      /\ d = PutMembership(certificate, us)
         \/ \E n \in DOMAIN certificate.ambiguities : certificate.ambiguities[n].steps # <<>> /\
              \E us : us = Shorter(certificate.ambiguities, n) /\ d = PutAmbiguities(certificate, us)
         \/ \E n \in DOMAIN certificate.ambiguities :
              d = PutAmbiguities(certificate, RemoveAt(certificate.ambiguities, n))
         \/ \E k \in DOMAIN certificate.origin : \E t \in DOMAIN certificate.origin[k] :
              d = [certificate EXCEPT !.origin[k] = Without(certificate.origin[k], t)]
         \/ \E t \in certificate.automaton.transitions :
              d = [certificate EXCEPT !.automaton.transitions = certificate.automaton.transitions \ {t}]
         \/ \E n \in DOMAIN certificate.normal_words :
              d = PutNormalWords(certificate, RemoveAt(certificate.normal_words, n))
         \/ d = PutFiniteness(certificate, [kind |-> "finite"]) /\ d # certificate
<1> DEFINE c == certificate
           DropStep(ts, n) == [ts EXCEPT ![n].steps = SubSeq(@, 1, Len(@) - 1)]
           NextCoeff(ts, n) == [ts EXCEPT ![n].steps[Len(ts[n].steps)].coeff = (@ + 1) % p]
           Cut(ts) == {n \in DOMAIN ts : ts[n].steps # <<>>}
           A1 == {[c EXCEPT !.membership = DropStep(@, n)] : n \in Cut(c.membership)}
           A2 == {[c EXCEPT !.membership = NextCoeff(@, n)] : n \in Cut(c.membership)}
           A3 == {[c EXCEPT !.ambiguities = DropStep(@, n)] : n \in Cut(c.ambiguities)}
           A4 == {[c EXCEPT !.ambiguities = RemoveAt(@, n)] : n \in DOMAIN c.ambiguities}
           A5 == UNION {{[c EXCEPT !.origin[k] = [y \in DOMAIN @ \ {t} |-> @[y]]] : t \in DOMAIN c.origin[k]} :
                         k \in DOMAIN c.origin}
           A6 == {[c EXCEPT !.automaton.transitions = @ \ {t}] : t \in c.automaton.transitions}
           A7 == {[c EXCEPT !.normal_words = RemoveAt(@, n)] : n \in DOMAIN c.normal_words}
           A8 == {[c EXCEPT !.finiteness = [kind |-> "finite"]]} \ {c}
<1>1. Defective = A1 \cup A2 \cup A3 \cup A4 \cup A5 \cup A6 \cup A7 \cup A8
  BY Zenon DEF Defective
<1>2. CASE d \in A1
  BY <1>2, Zenon DEF Shorter, PutMembership
<1>3. CASE d \in A2
  BY <1>3, Zenon DEF Miscount, PutMembership
<1>4. CASE d \in A3
  BY <1>4, Zenon DEF Shorter, PutAmbiguities
<1>5. CASE d \in A4
  BY <1>5, Zenon DEF PutAmbiguities
<1>6. CASE d \in A5
  <2>1. PICK k \in DOMAIN c.origin : \E t \in DOMAIN c.origin[k] :
          d = [c EXCEPT !.origin[k] = [y \in DOMAIN @ \ {t} |-> @[y]]]
    BY <1>6, Zenon
  <2>2. PICK t \in DOMAIN c.origin[k] : d = [c EXCEPT !.origin[k] = [y \in DOMAIN @ \ {t} |-> @[y]]]
    BY <2>1, Zenon
  <2>3. [y \in DOMAIN c.origin[k] \ {t} |-> c.origin[k][y]] = Without(c.origin[k], t)
    BY Zenon DEF Without, Only
  <2>4. d = [c EXCEPT !.origin[k] = Without(c.origin[k], t)]
    BY ONLY <2>2, <2>3, Zenon
  <2> QED BY <2>4, Zenon
<1>7. CASE d \in A6
  BY <1>7, Zenon
<1>8. CASE d \in A7
  BY <1>8, Zenon DEF PutNormalWords
<1>9. CASE d \in A8
  BY <1>9, Zenon DEF PutFiniteness
<1> HIDE DEF A1, A2, A3, A4, A5, A6, A7, A8
<1> QED BY <1>1, <1>2, <1>3, <1>4, <1>5, <1>6, <1>7, <1>8, <1>9

\* A defective certificate is rejected.
LEMMA DefectiveRejected ==
  ASSUME DInv, phase = "complete", NEW d \in Defective
  PROVE  Verdict(d) = "rejected"
<1>1. ASSUME NEW n \in DOMAIN certificate.membership, certificate.membership[n].steps # <<>>, NEW us,
             us = Shorter(certificate.membership, n) \/ us = Miscount(certificate.membership, n, p),
             d = PutMembership(certificate, us)
      PROVE  Verdict(d) = "rejected"
  BY <1>1, TraceRejected
<1>2. ASSUME NEW n \in DOMAIN certificate.ambiguities, certificate.ambiguities[n].steps # <<>>, NEW us,
             us = Shorter(certificate.ambiguities, n), d = PutAmbiguities(certificate, us)
      PROVE  Verdict(d) = "rejected"
  BY <1>2, TraceRejected
<1>3. ASSUME NEW n \in DOMAIN certificate.ambiguities,
             d = PutAmbiguities(certificate, RemoveAt(certificate.ambiguities, n))
      PROVE  Verdict(d) = "rejected"
  BY <1>3, EntryRejected
<1>4. ASSUME NEW k \in DOMAIN certificate.origin, NEW t \in DOMAIN certificate.origin[k],
             d = [certificate EXCEPT !.origin[k] = Without(certificate.origin[k], t)]
      PROVE  Verdict(d) = "rejected"
  <2> PICK us : us = [certificate.origin EXCEPT ![k] = Without(certificate.origin[k], t)]
    OBVIOUS
  <2>1. d = PutOrigin(certificate, us)
    BY <1>4 DEF PutOrigin
  <2> QED BY <2>1, OriginRejected
<1>5. ASSUME NEW t \in certificate.automaton.transitions,
             d = [certificate EXCEPT !.automaton.transitions = certificate.automaton.transitions \ {t}]
      PROVE  Verdict(d) = "rejected"
  <2> PICK a : a = [certificate.automaton EXCEPT !.transitions = certificate.automaton.transitions \ {t}]
    OBVIOUS
  <2>1. d = PutAutomaton(certificate, a)
    BY <1>5 DEF PutAutomaton
  <2> QED BY <2>1, TransitionRejected
<1>6. ASSUME NEW n \in DOMAIN certificate.normal_words,
             d = PutNormalWords(certificate, RemoveAt(certificate.normal_words, n))
      PROVE  Verdict(d) = "rejected"
  BY <1>6, WordRejected
<1>7. ASSUME d = PutFiniteness(certificate, [kind |-> "finite"]), d # certificate
      PROVE  Verdict(d) = "rejected"
  BY <1>7, ClaimRejected
<1> QED BY <1>1, <1>2, <1>3, <1>4, <1>5, <1>6, <1>7, DefectiveIs

\* What is kept says that the certificate holds.
LEMMA HoldsWhenComplete ==
  ASSUME DInv
  PROVE  CertificateHolds
<1> SUFFICES ASSUME phase = "complete"
             PROVE  /\ Verdict(certificate) = IF IsFinite THEN "verified" ELSE "infinite_dimensional"
                    /\ WordsAreRight
                    /\ ReachableStates(certificate) = AutomatonStates(certificate)
                    /\ \A defective \in Defective : Verdict(defective) = "rejected"
  BY DEF CertificateHolds
<1>1. BInv
  BY DEF DInv, CInv
<1>2. Verdict(certificate) = IF IsFinite THEN "verified" ELSE "infinite_dimensional"
  BY <1>1, FiniteIsRight, InfiniteIsRight
<1>3. WordsAreRight
  BY <1>1, FiniteIsRight, InfiniteIsRight
<1>4. ReachableStates(certificate) = AutomatonStates(certificate)
  <2>1. IsFor(certificate, presentation, Leads)
    BY <1>1, CompleteIs
  <2> QED BY <2>1, AllReachable, StatesAre
<1>5. \A defective \in Defective : Verdict(defective) = "rejected"
  BY DefectiveRejected
<1> QED BY <1>2, <1>3, <1>4, <1>5

-----------------------------------------------------------------------------
(* What every complete run emits.                                          *)

\* Whatever the presentation and the limits, the certificate of a run that completes
\* is accepted, its words or its cycle are right, its automaton has no idle state, and
\* with one thing missing or wrong in it it is rejected (completion/engine.rs, emit;
\* verify/entry.rs).
THEOREM CertificatesHold == Spec => []CertificateHolds
<1>1. Init => DInv
  BY RecordsFirst
<1>2. DInv /\ [Next]_vars => DInv'
  BY DStep
<1>3. DInv => CertificateHolds
  BY HoldsWhenComplete
<1> QED BY <1>1, <1>2, <1>3, PTL DEF Spec

\* The automaton of a certificate reads exactly the normal words, from whichever vertex
\* they start (verify/automaton.rs, replay_word).
THEOREM NormalWordsAreRead ==
  Spec => [](phase = "complete" =>
               \A v \in 1 .. presentation.vertices : \A x \in Seq(Nat) :
                 (x # <<>> => presentation.arrows[x[1]][1] = v)
                 => (ReadFrom(certificate, [vertex |-> v, word |-> <<>>], x) # {}
                     <=> IsNormal(presentation, Leads, x)))
<1> DEFINE Reads == phase = "complete" =>
               \A v \in 1 .. presentation.vertices : \A x \in Seq(Nat) :
                 (x # <<>> => presentation.arrows[x[1]][1] = v)
                 => (ReadFrom(certificate, [vertex |-> v, word |-> <<>>], x) # {}
                     <=> IsNormal(presentation, Leads, x))
<1>1. Init => DInv
  BY RecordsFirst
<1>2. DInv /\ [Next]_vars => DInv'
  BY DStep
<1>3. DInv => Reads
  <2> SUFFICES ASSUME DInv, phase = "complete", NEW v \in 1 .. presentation.vertices, NEW x \in Seq(Nat),
                      x # <<>> => presentation.arrows[x[1]][1] = v
               PROVE  ReadFrom(certificate, [vertex |-> v, word |-> <<>>], x) # {}
                      <=> IsNormal(presentation, Leads, x)
    OBVIOUS
  <2>1. IsFor(certificate, presentation, Leads)
    BY CompleteIs DEF DInv, CInv
  <2>2. x \in Words /\ (x # EmptyWord => presentation.arrows[x[1]][1] = v)
    BY DEF Words, EmptyWord
  <2>3. ReadFrom(certificate, StartState(v), x) # {} <=> IsNormal(presentation, Leads, x)
    BY <2>1, <2>2, ReplayIsNormal
  <2> QED BY <2>3 DEF StartState
<1> HIDE DEF Reads
<1>4. Spec => []Reads
  BY <1>1, <1>2, <1>3, PTL DEF Spec
<1> QED BY <1>4 DEF Reads

\* An infinite language has a cycle in the automaton, a finite one has none, and all
\* the repetitions of the cycle of the certificate are normal, not only those up to the
\* longest leading word (completion/automaton.rs, is_finite; verify/automaton.rs,
\* automaton_has_cycle).
THEOREM FinitenessIsDecided ==
  Spec => [](phase = "complete" =>
               /\ HasCycle(certificate) <=> ~IsFinite
               /\ ~IsFinite => \A n \in Nat :
                    IsNormal(presentation, Leads,
                             certificate.finiteness.prefix \o Repeated(certificate.finiteness.cycle, n)))
<1> DEFINE Decided == phase = "complete" =>
               /\ HasCycle(certificate) <=> ~IsFinite
               /\ ~IsFinite => \A n \in Nat :
                    IsNormal(presentation, Leads,
                             certificate.finiteness.prefix \o Repeated(certificate.finiteness.cycle, n))
<1>1. Init => DInv
  BY RecordsFirst
<1>2. DInv /\ [Next]_vars => DInv'
  BY DStep
<1>3. DInv => Decided
  <2> SUFFICES ASSUME DInv, phase = "complete"
               PROVE  /\ HasCycle(certificate) <=> ~IsFinite
                      /\ ~IsFinite => \A n \in Nat :
                           IsNormal(presentation, Leads,
                                    certificate.finiteness.prefix \o Repeated(certificate.finiteness.cycle, n))
    OBVIOUS
  <2>1. BInv
    BY DEF DInv, CInv
  <2>2. HasCycle(certificate) <=> ~IsFinite
    BY <2>1, CompleteIs, CycleDecided
  <2>3. ~IsFinite => \A n \in Nat :
           IsNormal(presentation, Leads,
                    certificate.finiteness.prefix \o Repeated(certificate.finiteness.cycle, n))
    BY <2>1, InfiniteIsRight
  <2> QED BY <2>2, <2>3
<1> HIDE DEF Decided
<1>4. Spec => []Decided
  BY <1>1, <1>2, <1>3, PTL DEF Spec
<1> QED BY <1>4 DEF Decided

=============================================================================
