---------------------------- MODULE PathAlgebra ----------------------------
(***************************************************************************)
(* Words and polynomials of a path algebra over a prime field              *)
(* (completion/polynomial.rs, order.rs).                                   *)
(*                                                                         *)
(* A word is a sequence of arrows. A polynomial is a function from its     *)
(* words to the nonzero coefficients modulo p; an origin is such a         *)
(* function on triples of an input index, a left and a right word. Indices *)
(* count from 1, offsets from 0.                                           *)
(***************************************************************************)
EXTENDS Integers, Sequences, FiniteSets, FiniteSetsExt

LexLess(a, b) ==
  \/ Len(a) < Len(b) /\ SubSeq(b, 1, Len(a)) = a
  \/ \E k \in DOMAIN a \cap DOMAIN b : a[k] < b[k] /\ \A j \in 1 .. k - 1 : a[j] = b[j]

\* deglex-arrowid-v1
WordLess(a, b) ==
  \/ Len(a) < Len(b)
  \/ Len(a) = Len(b) /\ LexLess(a, b)

Largest(words) == CHOOSE w \in words : \A u \in words \ {w} : WordLess(u, w)

LeadWord(elem) == Largest(DOMAIN elem.poly)

\* PathWord::from_arrows; a quiver has vertices and arrows <<source, target>>
IsPath(quiver, word) ==
  /\ \A k \in DOMAIN word : word[k] \in DOMAIN quiver.arrows
  /\ \A k \in 1 .. Len(word) - 1 : quiver.arrows[word[k]][2] = quiver.arrows[word[k + 1]][1]

\* mutant of Occurrences: the last place is not searched
OccurrencesBeforeEnd(word, pattern) ==
  {k \in 0 .. Len(word) - Len(pattern) - 1 : SubSeq(word, k + 1, k + Len(pattern)) = pattern}

\* find_factor: where pattern occurs in word
Occurrences(word, pattern) ==
  {k \in 0 .. Len(word) - Len(pattern) : SubSeq(word, k + 1, k + Len(pattern)) = pattern}

\* a set in the order that Less puts its members
Sorted(set, Less(_, _)) ==
  [n \in 1 .. Cardinality(set) |->
     CHOOSE x \in set : Cardinality({y \in set : Less(y, x)}) = n - 1]

IsZero(poly) == DOMAIN poly = {}

\* base + c * src
AddScaled(p, base, c, src) ==
  LET Sum(w) == (IF w \in DOMAIN base THEN base[w] ELSE 0)
                + (IF w \in DOMAIN src THEN c * src[w] ELSE 0)
  IN  [w \in {v \in DOMAIN base \cup DOMAIN src : Sum(v) % p # 0} |-> Sum(w) % p]

\* left * src * right, for a polynomial and for an origin
Between(left, src, right) ==
  [w \in {left \o u \o right : u \in DOMAIN src} |->
     src[SubSeq(w, Len(left) + 1, Len(w) - Len(right))]]

OriginBetween(left, src, right) ==
  [k \in {<<u[1], left \o u[2], u[3] \o right>> : u \in DOMAIN src} |->
     src[<<k[1], SubSeq(k[2], Len(left) + 1, Len(k[2])), SubSeq(k[3], 1, Len(k[3]) - Len(right))>>]]

AddPoly(p, base, c, left, src, right) == AddScaled(p, base, c, Between(left, src, right))

AddOrigin(p, base, c, left, src, right) == AddScaled(p, base, c, OriginBetween(left, src, right))

OriginLess(a, b) ==
  \/ a[1] < b[1]
  \/ a[1] = b[1] /\ LexLess(a[2], b[2])
  \/ a[1] = b[1] /\ a[2] = b[2] /\ LexLess(a[3], b[3])

\* origin_add_scaled stops at the first term that makes the sum too long
OriginOverflows(p, max, base, c, left, src, right) ==
  \E k \in DOMAIN src :
    LET begun == [u \in {v \in DOMAIN src : v = k \/ OriginLess(v, k)} |-> src[u]]
    IN  Cardinality(DOMAIN AddOrigin(p, base, c, left, begun, right)) > max

MakeMonic(p, elem) ==
  LET inverse == CHOOSE c \in 1 .. p - 1 : (c * elem.poly[LeadWord(elem)]) % p = 1
  IN  [poly   |-> AddPoly(p, <<>>, inverse, <<>>, elem.poly, <<>>),
       origin |-> AddOrigin(p, <<>>, inverse, <<>>, elem.origin, <<>>)]

Overlap == 0
Inclusion == 1

\* the ambiguities (i, j, kind, offset) of the ordered pair (i, j)
PairAmbiguities(i, j, li, lj) ==
  {<<i, j, Overlap, Len(li) - k>> :
     k \in {n \in 1 .. Min({Len(li), Len(lj)}) - 1 :
              SubSeq(li, Len(li) - n + 1, Len(li)) = SubSeq(lj, 1, n)}}
  \cup {<<i, j, Inclusion, k>> :
          k \in IF Len(lj) < Len(li) THEN Occurrences(li, lj) ELSE {}}

\* the contexts (v_i, u, v_j) of a composition g_i * v_i - u * g_j * v_j
Contexts(key, li, lj) ==
  LET u == SubSeq(li, 1, key[4])
  IN  IF key[3] = Overlap
      THEN [vi |-> SubSeq(lj, Len(li) - key[4] + 1, Len(lj)), u |-> u, vj |-> <<>>]
      ELSE [vi |-> <<>>, u |-> u, vj |-> SubSeq(li, key[4] + Len(lj) + 1, Len(li))]

SuperpositionLen(key, li, lj) == IF key[3] = Overlap THEN key[4] + Len(lj) ELSE Len(li)

=============================================================================
