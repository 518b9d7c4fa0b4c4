---------------------------- MODULE ProofLibrary ----------------------------
(***************************************************************************)
(* What the proofs rest on that knows no state of any component.           *)
(*                                                                         *)
(* The first part is induction and recursion without operator parameters:  *)
(* a property is the set of the numbers that have it, a step function is a *)
(* function. Both follow from the well-foundedness of < on the naturals.   *)
(* The sums that the models take with folds are such a recursion over the  *)
(* subsets of a finite set, and what a finite graph leads to, or what is   *)
(* left of it without its dead ends, settles after as many steps as it has *)
(* states. The proofs of several components use this part.                 *)
(*                                                                         *)
(* The second part is the algebra of a completion: words in their order,   *)
(* polynomials modulo q, their spaces and ideals, the diamond lemma and    *)
(* division, and what an origin expands to. The third is about words that  *)
(* contain no forbidden word: the automaton of the engine (NormalWords),   *)
(* the one of the verifier (CertificateVerifier) that agrees with it, what *)
(* both read and reach, and lists of words in their order.                 *)
(***************************************************************************)
EXTENDS NormalWords, CertificateVerifier, SequenceTheorems, TLAPS,
        WellFoundedInduction, FiniteSetTheorems

-----------------------------------------------------------------------------
(* Induction on the naturals.                                              *)

Less == OpToRel(<, Nat)

\* The order of the naturals has no infinite descent.
LEMMA LessIsWellFounded == IsWellFoundedOn(Less, Nat)
BY NatLessThanWellFounded DEF Less

\* A set with 0 that is closed under successor has every natural number.
LEMMA SetInduction ==
  ASSUME NEW S, 0 \in S, \A n \in Nat : n \in S => n + 1 \in S
  PROVE  Nat \subseteq S
<1> DEFINE T == Nat \ S
<1>1. SUFFICES ASSUME T # {} PROVE FALSE
  OBVIOUS
<1>2. \E x \in T : \A y \in T : ~ (<<y, x>> \in Less)
  <2>1. T \subseteq Nat
    OBVIOUS
  <2> HIDE DEF T
  <2> QED BY <1>1, <2>1, LessIsWellFounded, WFMin
<1>3. PICK x \in T : \A y \in T : ~ (<<y, x>> \in Less)
  BY <1>2
<1>4. x \in Nat /\ x # 0
  OBVIOUS
<1>5. x - 1 \in Nat /\ x - 1 < x
  BY <1>4
<1>6. x - 1 \in S
  <2>1. <<x - 1, x>> \in Less
    BY <1>4, <1>5 DEF Less, OpToRel
  <2> QED BY <1>3, <1>5, <2>1
<1>7. (x - 1) + 1 \in S
  BY <1>5, <1>6
<1> QED BY <1>4, <1>7

\* The same up to a bound, where a step may use that it stays below it.
LEMMA IntervalInduction ==
  ASSUME NEW n \in Nat, NEW S, 0 \in S, \A i \in 1 .. n : i - 1 \in S => i \in S
  PROVE  0 .. n \subseteq S
<1> DEFINE T == {i \in Nat : i <= n => i \in S}
<1>1. 0 \in T
  OBVIOUS
<1>2. ASSUME NEW i \in Nat, i \in T PROVE i + 1 \in T
  <2>1. i + 1 <= n => i \in S /\ i + 1 \in 1 .. n /\ (i + 1) - 1 = i
    BY <1>2
  <2> QED BY <2>1
<1>3. Nat \subseteq T
  <2> HIDE DEF T
  <2> QED BY <1>1, <1>2, SetInduction
<1> QED BY <1>3

\* f is computed from first, one step for each number up to n
Computes(f, n, first, step) ==
  f = [i \in 0 .. n |-> IF i = 0 THEN first ELSE step[i][f[i - 1]]]

\* Such a function exists: the recursive definitions of the model define what they say.
LEMMA RecursionExists ==
  ASSUME NEW V, NEW first \in V, NEW n \in Nat, NEW step \in [1 .. n -> [V -> V]]
  PROVE  \E f \in [0 .. n -> V] : Computes(f, n, first, step)
<1> DEFINE S == {m \in Nat : m <= n => \E f \in [0 .. m -> V] : Computes(f, m, first, step)}
<1>1. 0 \in S
  <2>1. [i \in 0 .. 0 |-> first] \in [0 .. 0 -> V]
    OBVIOUS
  <2>2. Computes([i \in 0 .. 0 |-> first], 0, first, step)
    BY DEF Computes
  <2> QED BY <2>1, <2>2
<1>2. ASSUME NEW m \in Nat, m \in S PROVE m + 1 \in S
  <2> SUFFICES ASSUME m + 1 <= n
               PROVE  \E f \in [0 .. m + 1 -> V] : Computes(f, m + 1, first, step)
    OBVIOUS
  <2>1. PICK g \in [0 .. m -> V] : Computes(g, m, first, step)
    BY <1>2
  <2> DEFINE f == [i \in 0 .. m + 1 |-> IF i <= m THEN g[i] ELSE step[m + 1][g[m]]]
  <2>2. f \in [0 .. m + 1 -> V]
    <3>1. m \in 0 .. m /\ m + 1 \in 1 .. n
      BY <1>2
    <3>2. step[m + 1][g[m]] \in V
      BY <3>1
    <3> QED BY <3>2
  <2>3. \A i \in 0 .. m : g[i] = IF i = 0 THEN first ELSE step[i][g[i - 1]]
    BY <2>1 DEF Computes
  <2>4. ASSUME NEW i \in 0 .. m + 1
        PROVE  f[i] = IF i = 0 THEN first ELSE step[i][f[i - 1]]
    <3>1. CASE i <= m
      <4>1. i \in 0 .. m /\ (i # 0 => i - 1 \in 0 .. m + 1 /\ i - 1 <= m)
        BY <3>1
      <4>2. f[i] = g[i] /\ (i # 0 => f[i - 1] = g[i - 1])
        BY <3>1, <4>1
      <4> QED BY <2>3, <4>1, <4>2
    <3>2. CASE i = m + 1
      <4>1. i # 0 /\ i - 1 = m /\ m \in 0 .. m + 1 /\ ~(i <= m)
        BY <3>2
      <4>2. f[m] = g[m]
        BY <4>1
      <4>3. f[i] = step[m + 1][g[m]]
        BY <3>2, <4>1
      <4> QED BY <3>2, <4>1, <4>2, <4>3
    <3> QED BY <3>1, <3>2
  <2>5. Computes(f, m + 1, first, step)
    <3> HIDE DEF f
    <3> QED BY <2>2, <2>4 DEF Computes
  <2> QED BY <2>2, <2>5
<1>3. Nat \subseteq S
  <2> HIDE DEF S
  <2> QED BY <1>1, <1>2, SetInduction
<1> QED BY <1>3

-----------------------------------------------------------------------------
(* Folds and sums over finite sets.                                        *)

\* A set of subsets that has the empty one, and each subset whose smaller ones
\* by one element it has, has them all.
LEMMA SubsetInduction ==
  ASSUME NEW D, IsFiniteSet(D), NEW P, {} \in P,
         \A s \in SUBSET D : s # {} /\ (\A x \in s : s \ {x} \in P) => s \in P
  PROVE  SUBSET D \subseteq P
<1> DEFINE S == {n \in Nat : \A s \in SUBSET D : Cardinality(s) = n => s \in P}
<1>1. \A s \in SUBSET D : IsFiniteSet(s) /\ Cardinality(s) \in Nat
  BY FS_Subset, FS_CardinalityType
<1>2. 0 \in S
  BY <1>1, FS_EmptySet
<1>3. ASSUME NEW n \in Nat, n \in S PROVE n + 1 \in S
  <2> SUFFICES ASSUME NEW s \in SUBSET D, Cardinality(s) = n + 1 PROVE s \in P
    OBVIOUS
  <2>1. s # {} /\ IsFiniteSet(s)
    BY <1>1, FS_EmptySet
  <2>2. \A x \in s : Cardinality(s \ {x}) = n
    <3> SUFFICES ASSUME NEW x \in s PROVE Cardinality(s \ {x}) = n
      OBVIOUS
    <3>1. Cardinality(s \ {x}) = Cardinality(s) - 1
      BY <2>1, FS_RemoveElement
    <3> QED BY <3>1
  <2>3. \A x \in s : s \ {x} \in P
    BY <1>3, <2>2
  <2> QED BY <2>1, <2>3
<1>4. Nat \subseteq S
  <2> HIDE DEF S
  <2> QED BY <1>2, <1>3, SetInduction
<1> QED BY <1>1, <1>4

\* A set of numbers up to n with an element has a greatest one.
LEMMA GreatestExists ==
  ASSUME NEW n \in Nat, NEW s \in SUBSET (1 .. n), s # {}
  PROVE  \E x \in s : \A y \in s : x >= y
<1> DEFINE P == {r \in SUBSET (1 .. n) : r = {} \/ \E x \in r : \A y \in r : x >= y}
<1>1. {} \in P
  OBVIOUS
<1>2. ASSUME NEW r \in SUBSET (1 .. n), r # {}, \A x \in r : r \ {x} \in P PROVE r \in P
  <2>1. PICK x \in r : TRUE
    BY <1>2
  <2>2. CASE r \ {x} = {}
    BY <2>1, <2>2
  <2>3. CASE r \ {x} # {}
    <3>1. PICK z \in r \ {x} : \A y \in r \ {x} : z >= y
      BY <1>2, <2>3
    <3>2. CASE x >= z
      <4>1. \A y \in r : x >= y
        BY <3>1, <3>2
      <4> QED BY <4>1
    <3>3. CASE ~(x >= z)
      <4>1. \A y \in r : z >= y
        BY <3>1, <3>3
      <4> QED BY <4>1
    <3> QED BY <3>2, <3>3
  <2> QED BY <2>2, <2>3
<1>3. IsFiniteSet(1 .. n)
  BY FS_Interval
<1>4. SUBSET (1 .. n) \subseteq P
  <2>1. PICK D : D = 1 .. n
    OBVIOUS
  <2>2. /\ IsFiniteSet(D) /\ {} \in P
        /\ \A r \in SUBSET D : r # {} /\ (\A x \in r : r \ {x} \in P) => r \in P
    <3> HIDE DEF P
    <3> QED BY <1>1, <1>2, <1>3, <2>1
  <2>3. SUBSET D \subseteq P
    <3> HIDE DEF P
    <3> QED BY <2>2, SubsetInduction
  <2> QED BY <2>1, <2>3
<1> QED BY <1>4

\* g runs the steps of the elements of each subset of D, the picked one last
Runs(g, D, first, step, pick) ==
  g = [s \in SUBSET D |-> IF s = {} THEN first ELSE step[pick[s]][g[s \ {pick[s]}]]]

\* Such runs exist: as many rounds as D has elements reach a fixed point.
LEMMA RunsExist ==
  ASSUME NEW D, IsFiniteSet(D), NEW A, NEW first \in A, NEW step \in [D -> [A -> A]],
         NEW pick, \A s \in SUBSET D : s # {} => pick[s] \in s
  PROVE  \E g \in [SUBSET D -> A] : Runs(g, D, first, step, pick)
<1> DEFINE V == [SUBSET D -> A]
           Step(v) == [s \in SUBSET D |-> IF s = {} THEN first ELSE step[pick[s]][v[s \ {pick[s]}]]]
           start == [s \in SUBSET D |-> first]
<1>1. Cardinality(D) \in Nat
      /\ \A s \in SUBSET D : /\ IsFiniteSet(s) /\ Cardinality(s) \in Nat
                            /\ Cardinality(s) <= Cardinality(D)
  BY FS_Subset, FS_CardinalityType
<1>2. \A v \in V : Step(v) \in V
  <2> SUFFICES ASSUME NEW v \in V, NEW s \in SUBSET D
               PROVE  (IF s = {} THEN first ELSE step[pick[s]][v[s \ {pick[s]}]]) \in A
    OBVIOUS
  <2>1. CASE s = {}
    BY <2>1
  <2>2. CASE s # {}
    <3>1. pick[s] \in D /\ s \ {pick[s]} \in SUBSET D
      BY <2>2
    <3>2. step[pick[s]] \in [A -> A] /\ v[s \ {pick[s]}] \in A
      BY <3>1
    <3> QED BY <2>2, <3>2
  <2> QED BY <2>1, <2>2
<1>3. start \in V
  OBVIOUS
<1>4. PICK N \in Nat, M \in Nat : N = Cardinality(D) /\ M = N + 1
  BY <1>1
<1> DEFINE next == [i \in 1 .. M |-> [v \in V |-> Step(v)]]
<1>5. \E f \in [0 .. M -> V] : Computes(f, M, start, next)
  <2>1. next \in [1 .. M -> [V -> V]]
    <3> HIDE DEF V, Step
    <3> QED BY <1>2
  <2> HIDE DEF V, start, next
  <2> QED BY <1>3, <2>1, RecursionExists
<1>6. PICK f \in [0 .. M -> V] : Computes(f, M, start, next)
  BY <1>5
<1>7. f[0] = start /\ \A i \in 0 .. N : f[i + 1] = Step(f[i])
  <2> HIDE DEF V, Step, start
  <2>1. \A i \in 0 .. M : f[i] = IF i = 0 THEN start ELSE next[i][f[i - 1]]
    <3> DEFINE rule == [i \in 0 .. M |-> IF i = 0 THEN start ELSE next[i][f[i - 1]]]
    <3>1. f = rule
      BY <1>6 DEF Computes
    <3>2. \A i \in 0 .. M : rule[i] = IF i = 0 THEN start ELSE next[i][f[i - 1]]
      OBVIOUS
    <3> HIDE DEF rule
    <3> QED BY <3>1, <3>2
  <2>2. f[0] = start
    <3> HIDE DEF next
    <3>1. 0 \in 0 .. M
      OBVIOUS
    <3> QED BY <2>1, <3>1
  <2>3. ASSUME NEW i \in 0 .. N PROVE f[i + 1] = Step(f[i])
    <3>1. i + 1 \in 1 .. M /\ i + 1 \in 0 .. M /\ i + 1 # 0 /\ (i + 1) - 1 = i /\ i \in 0 .. M
      BY <1>4
    <3>2. f[i] \in V
      BY <3>1
    <3>3. f[i + 1] = next[i + 1][f[i]]
      BY <2>1, <3>1
    <3> QED BY <3>1, <3>2, <3>3
  <2> QED BY <2>2, <2>3
<1> DEFINE S == {n \in Nat : n <= N => \A s \in SUBSET D :
                              Cardinality(s) <= n => f[n + 1][s] = f[n][s]}
<1> HIDE DEF next
<1>8. 0 \in S
  <2> SUFFICES ASSUME NEW s \in SUBSET D, Cardinality(s) <= 0 PROVE f[0 + 1][s] = f[0][s]
    BY <1>4
  <2>1. s = {}
    BY <1>1, FS_EmptySet
  <2>2. 0 \in 0 .. N
    BY <1>4
  <2>3. f[0 + 1] = Step(f[0])
    <3> HIDE DEF Step
    <3> QED BY <1>7, <2>2
  <2>4. f[0 + 1][s] = first
    BY <2>1, <2>3
  <2>5. f[0][s] = first
    BY <1>7
  <2> QED BY <2>4, <2>5
<1>9. ASSUME NEW n \in Nat, n \in S PROVE n + 1 \in S
  <2> SUFFICES ASSUME n + 1 <= N, NEW s \in SUBSET D, Cardinality(s) <= n + 1
               PROVE  f[(n + 1) + 1][s] = f[n + 1][s]
    OBVIOUS
  <2>1. f[(n + 1) + 1] = Step(f[n + 1]) /\ f[n + 1] = Step(f[n])
    <3>1. n \in 0 .. N /\ n + 1 \in 0 .. N
      <4>1. N \in Nat /\ n \in Nat /\ n + 1 <= N
        BY <1>4, ZenonT(40)
      <4> QED BY ONLY <4>1
    <3> HIDE DEF Step
    <3> QED BY <1>7, <3>1
  <2>2. CASE s = {}
    BY <2>1, <2>2
  <2>3. CASE s # {}
    <3>1. pick[s] \in s
      BY <2>3
    <3>2. Cardinality(s \ {pick[s]}) = Cardinality(s) - 1 /\ s \ {pick[s]} \in SUBSET D
      BY <1>1, <3>1, FS_RemoveElement
    <3>3. Cardinality(s \ {pick[s]}) <= n
      BY <1>1, <3>2
    <3>4. f[n + 1][s \ {pick[s]}] = f[n][s \ {pick[s]}]
      BY <1>4, <1>9, <3>2, <3>3
    <3>5. /\ f[(n + 1) + 1][s] = step[pick[s]][f[n + 1][s \ {pick[s]}]]
          /\ f[n + 1][s] = step[pick[s]][f[n][s \ {pick[s]}]]
      <4>1. \A v : Step(v)[s] = step[pick[s]][v[s \ {pick[s]}]]
        BY <2>3
      <4> HIDE DEF Step
      <4> QED BY <2>1, <4>1
    <3> QED BY <3>4, <3>5
  <2> QED BY <2>2, <2>3
<1>10. Nat \subseteq S
  <2> HIDE DEF S
  <2> QED BY <1>8, <1>9, SetInduction
<1>11. \A s \in SUBSET D : f[N + 1][s] = f[N][s]
  BY <1>1, <1>4, <1>10
<1>12. f[N + 1] = Step(f[N]) /\ N \in 0 .. M /\ N + 1 \in 0 .. M
  <2>1. N \in 0 .. N /\ N \in 0 .. M /\ N + 1 \in 0 .. M
    BY <1>4
  <2> HIDE DEF Step
  <2> QED BY <1>7, <2>1
<1>13. f[N + 1] = f[N]
  <2>1. f[N + 1] \in V /\ f[N] \in V
    <3> HIDE DEF V, Step
    <3> QED BY <1>12
  <2> HIDE DEF Step
  <2> QED BY <1>11, <2>1
<1>14. Runs(f[N], D, first, step, pick)
  BY <1>12, <1>13 DEF Runs
<1>15. f[N] \in V
  <2> HIDE DEF V
  <2> QED BY <1>12
<1> QED BY <1>14, <1>15

\* g is a run within A
IsRun(g, D, A, first, step, pick) ==
  /\ IsFiniteSet(D) /\ first \in A /\ step \in [D -> [A -> A]]
  /\ \A s \in SUBSET D : s # {} => pick[s] \in s
  /\ g \in [SUBSET D -> A] /\ Runs(g, D, first, step, pick)

\* the steps of two elements are taken in any order
AreCommuting(step, D, A) ==
  \A x, y \in D : \A a \in A : step[x][step[y][a]] = step[y][step[x][a]]

\* Where no two steps depend on their order, a run does not depend on the element it takes last.
LEMMA RunsInAnyOrder ==
  ASSUME NEW D, NEW A, NEW first, NEW step, NEW pick, NEW g, IsRun(g, D, A, first, step, pick),
         AreCommuting(step, D, A), NEW t \in SUBSET D, NEW z \in t
  PROVE  g[t] = step[z][g[t \ {z}]]
<1> USE DEF IsRun
<1> DEFINE P == {s \in SUBSET D : \A x \in s : g[s] = step[x][g[s \ {x}]]}
<1>1. {} \in P
  OBVIOUS
<1>2. ASSUME NEW s \in SUBSET D, s # {}, \A x \in s : s \ {x} \in P PROVE s \in P
  <2> SUFFICES ASSUME NEW x \in s PROVE g[s] = step[x][g[s \ {x}]]
    OBVIOUS
  <2>1. PICK y : y = pick[s]
    BY SMTT(30)
  <2>2. y \in s /\ g[s] = step[y][g[s \ {y}]]
    BY <1>2, <2>1 DEF Runs
  <2>3. CASE x = y
    BY <2>2, <2>3
  <2>4. CASE x # y
    <3>1. g[s \ {y}] = step[x][g[(s \ {y}) \ {x}]]
      BY <1>2, <2>2, <2>4
    <3>2. g[s \ {x}] = step[y][g[(s \ {x}) \ {y}]]
      BY <1>2, <2>2, <2>4
    <3>3. (s \ {y}) \ {x} = (s \ {x}) \ {y} /\ (s \ {x}) \ {y} \in SUBSET D
      OBVIOUS
    <3>4. g[(s \ {x}) \ {y}] \in A /\ x \in D /\ y \in D
      BY <2>2, <3>3
    <3>5. PICK a \in A : a = g[(s \ {x}) \ {y}]
      BY <3>4
    <3>6. step[x][step[y][a]] = step[y][step[x][a]]
      BY <3>4 DEF AreCommuting
    <3> QED BY ONLY <2>2, <3>1, <3>2, <3>3, <3>5, <3>6
  <2> QED BY <2>3, <2>4
<1>3. SUBSET D \subseteq P
  <2> HIDE DEF P
  <2> QED BY <1>1, <1>2, SubsetInduction
<1> QED BY <1>3

\* Runs over a set are those over a larger one, where the steps agree.
LEMMA RunsAgree ==
  ASSUME NEW D, NEW E, NEW C \in SUBSET (D \cap E), IsFiniteSet(C), NEW first,
         NEW step, NEW other, \A x \in C : step[x] = other[x],
         NEW pick, NEW take, \A s \in SUBSET C : s # {} => pick[s] \in s /\ take[s] = pick[s],
         NEW g, Runs(g, D, first, step, pick), NEW h, Runs(h, E, first, other, take)
  PROVE  g[C] = h[C]
<1> DEFINE P == {s \in SUBSET C : g[s] = h[s]}
<1>1. {} \in P
  BY DEF Runs
<1>2. ASSUME NEW s \in SUBSET C, s # {}, \A x \in s : s \ {x} \in P PROVE s \in P
  <2>1. PICK x \in s : x = pick[s] /\ x = take[s]
    BY <1>2
  <2>2. s \in SUBSET D /\ s \in SUBSET E
    OBVIOUS
  <2>3. g[s] = step[x][g[s \ {x}]]
    <3>1. g[s] = step[pick[s]][g[s \ {pick[s]}]]
      BY <1>2, <2>2 DEF Runs
    <3> QED BY ONLY <2>1, <3>1
  <2>4. h[s] = other[x][h[s \ {x}]]
    <3>1. h[s] = other[take[s]][h[s \ {take[s]}]]
      BY <1>2, <2>2 DEF Runs
    <3> QED BY ONLY <2>1, <3>1
  <2> QED BY <1>2, <2>1, <2>3, <2>4
<1>3. SUBSET C \subseteq P
  <2> HIDE DEF P
  <2> QED BY <1>1, <1>2, SubsetInduction
<1> QED BY <1>3

\* value comes from first by the steps of 1 to n, within A
ComputedIn(value, n, A, first, step) ==
  \E h \in [0 .. n -> A] : Computes(h, n, first, step) /\ h[n] = value

\* A run that picks the greatest number takes the numbers up to n in order.
LEMMA RunsInOrder ==
  ASSUME NEW n \in Nat, NEW D, D = 1 .. n, NEW A, NEW first \in A, NEW step \in [D -> [A -> A]],
         NEW pick, \A s \in SUBSET D : s # {} => pick[s] \in s /\ \A i \in s : i <= pick[s],
         NEW g \in [SUBSET D -> A], Runs(g, D, first, step, pick)
  PROVE  ComputedIn(g[D], n, A, first, step)
<1> DEFINE h == [i \in 0 .. n |-> g[1 .. i]]
<1>1. \A i \in 0 .. n : (1 .. i) \in SUBSET D
  OBVIOUS
<1>2. h \in [0 .. n -> A]
  BY <1>1
<1>3. h[0] = first
  <2>1. h[0] = g[1 .. 0] /\ 1 .. 0 = {} /\ {} \in SUBSET D
    OBVIOUS
  <2> QED BY <2>1 DEF Runs
<1>4. ASSUME NEW i \in D PROVE h[i] = step[i][h[i - 1]]
  <2>1. (1 .. i) \in SUBSET D /\ i \in 1 .. i /\ 1 .. i # {}
    OBVIOUS
  <2>2. pick[1 .. i] = i
    <3>1. pick[1 .. i] \in 1 .. i /\ i <= pick[1 .. i]
      BY <2>1
    <3> QED BY <3>1
  <2>3. (1 .. i) \ {i} = 1 .. (i - 1)
    OBVIOUS
  <2>4. g[1 .. i] = step[pick[1 .. i]][g[(1 .. i) \ {pick[1 .. i]}]]
    BY <2>1 DEF Runs
  <2>5. h[i] = g[1 .. i] /\ h[i - 1] = g[1 .. (i - 1)]
    OBVIOUS
  <2> QED BY <2>2, <2>3, <2>4, <2>5
<1>5. h[n] = g[D]
  OBVIOUS
<1>6. Computes(h, n, first, step)
  <2>1. h = [i \in 0 .. n |-> h[i]]
    OBVIOUS
  <2>2. \A i \in 0 .. n : h[i] = IF i = 0 THEN first ELSE step[i][h[i - 1]]
    <3>1. \A i \in 0 .. n : i = 0 \/ i \in D
      OBVIOUS
    <3> HIDE DEF h
    <3> QED BY <1>3, <1>4, <3>1
  <2> HIDE DEF h
  <2> QED BY <2>1, <2>2 DEF Computes
<1> HIDE DEF h
<1> QED BY <1>2, <1>5, <1>6 DEF ComputedIn

Pick(s) == CHOOSE x \in s : TRUE

\* g is the sum of w over each subset of D, taken one picked element after the other
Sums(g, D, w) ==
  g = [s \in SUBSET D |-> IF s = {} THEN 0 ELSE w[Pick(s)] + g[s \ {Pick(s)}]]

\* the sum of a function over its domain, as the folds of the model take it
SumOf(w) == (CHOOSE g : Sums(g, DOMAIN w, w))[DOMAIN w]

\* An element picked from a set that has one is in it.
LEMMA PickIsElement ==
  ASSUME NEW s, s # {}
  PROVE  Pick(s) \in s
BY DEF Pick

\* Such sums exist: adding a term is a step on the naturals.
LEMMA SumsExist ==
  ASSUME NEW D, IsFiniteSet(D), NEW w \in [D -> Nat]
  PROVE  \E g : Sums(g, D, w)
<1> DEFINE step == [x \in D |-> [n \in Nat |-> w[x] + n]]
           pick == [s \in SUBSET D |-> Pick(s)]
<1>1. step \in [D -> [Nat -> Nat]] /\ 0 \in Nat
  OBVIOUS
<1>2. \A s \in SUBSET D : s # {} => pick[s] \in s
  BY PickIsElement
<1>3. \E g \in [SUBSET D -> Nat] : Runs(g, D, 0, step, pick)
  <2> HIDE DEF step, pick
  <2> QED BY <1>1, <1>2, RunsExist
<1>4. PICK g \in [SUBSET D -> Nat] : Runs(g, D, 0, step, pick)
  BY <1>3
<1>5. \A s \in SUBSET D :
        s # {} => step[pick[s]][g[s \ {pick[s]}]] = w[Pick(s)] + g[s \ {Pick(s)}]
  <2> SUFFICES ASSUME NEW s \in SUBSET D, s # {}
               PROVE  step[pick[s]][g[s \ {pick[s]}]] = w[Pick(s)] + g[s \ {Pick(s)}]
    OBVIOUS
  <2>1. pick[s] = Pick(s) /\ Pick(s) \in D /\ g[s \ {Pick(s)}] \in Nat
    BY PickIsElement
  <2> QED BY <2>1
<1>6. Sums(g, D, w)
  <2> HIDE DEF step, pick
  <2> QED BY <1>4, <1>5 DEF Runs, Sums
<1> QED BY <1>6

\* Sums are natural numbers.
LEMMA SumsType ==
  ASSUME NEW D, IsFiniteSet(D), NEW w \in [D -> Nat], NEW g, Sums(g, D, w)
  PROVE  \A s \in SUBSET D : g[s] \in Nat
<1> DEFINE P == {s \in SUBSET D : g[s] \in Nat}
<1>1. {} \in P
  BY DEF Sums
<1>2. ASSUME NEW s \in SUBSET D, s # {}, \A x \in s : s \ {x} \in P PROVE s \in P
  <2>1. Pick(s) \in s
    BY <1>2, PickIsElement
  <2>2. w[Pick(s)] \in Nat /\ g[s \ {Pick(s)}] \in Nat
    BY <1>2, <2>1
  <2>3. g[s] = w[Pick(s)] + g[s \ {Pick(s)}]
    BY <1>2 DEF Sums
  <2> QED BY <2>2, <2>3
<1>3. SUBSET D \subseteq P
  <2> HIDE DEF P
  <2> QED BY <1>1, <1>2, SubsetInduction
<1> QED BY <1>3

\* A sum does not depend on the element it takes first.
LEMMA SumsInAnyOrder ==
  ASSUME NEW D, IsFiniteSet(D), NEW w \in [D -> Nat], NEW g, Sums(g, D, w)
  PROVE  \A s \in SUBSET D : \A x \in s : g[s] = w[x] + g[s \ {x}]
<1> DEFINE P == {s \in SUBSET D : \A x \in s : g[s] = w[x] + g[s \ {x}]}
<1>1. {} \in P
  OBVIOUS
<1>2. ASSUME NEW s \in SUBSET D, s # {}, \A x \in s : s \ {x} \in P PROVE s \in P
  <2> SUFFICES ASSUME NEW x \in s PROVE g[s] = w[x] + g[s \ {x}]
    OBVIOUS
  <2>1. PICK p : p = Pick(s)
    OBVIOUS
  <2>2. p \in s /\ g[s] = w[p] + g[s \ {p}]
    BY <1>2, <2>1, PickIsElement DEF Sums
  <2>3. CASE x = p
    BY <2>2, <2>3
  <2>4. CASE x # p
    <3>1. g[s \ {p}] = w[x] + g[(s \ {p}) \ {x}]
      BY <1>2, <2>2, <2>4
    <3>2. g[s \ {x}] = w[p] + g[(s \ {x}) \ {p}]
      BY <1>2, <2>2, <2>4
    <3>3. (s \ {p}) \ {x} = (s \ {x}) \ {p} /\ (s \ {x}) \ {p} \in SUBSET D
      OBVIOUS
    <3>4. w[x] \in Nat /\ w[p] \in Nat /\ g[(s \ {x}) \ {p}] \in Nat
      BY <2>2, <3>3, SumsType
    <3> QED BY <2>2, <3>1, <3>2, <3>3, <3>4
  <2> QED BY <2>3, <2>4
<1>3. SUBSET D \subseteq P
  <2> HIDE DEF P
  <2> QED BY <1>1, <1>2, SubsetInduction
<1> QED BY <1>3

\* Sums over a set are those over a larger one, where the functions agree.
LEMMA SumsAgree ==
  ASSUME NEW D, NEW E, IsFiniteSet(D), IsFiniteSet(E), NEW C \in SUBSET (D \cap E),
         NEW w \in [D -> Nat], NEW v \in [E -> Nat], \A x \in C : w[x] = v[x],
         NEW g, Sums(g, D, w), NEW h, Sums(h, E, v)
  PROVE  g[C] = h[C]
<1> DEFINE P == {s \in SUBSET C : g[s] = h[s]}
<1>1. {} \in P
  BY DEF Sums
<1>2. ASSUME NEW s \in SUBSET C, s # {}, \A x \in s : s \ {x} \in P PROVE s \in P
  <2>1. Pick(s) \in s
    BY <1>2, PickIsElement
  <2>2. s \in SUBSET D /\ s \in SUBSET E
    OBVIOUS
  <2>3. g[s] = w[Pick(s)] + g[s \ {Pick(s)}] /\ h[s] = v[Pick(s)] + h[s \ {Pick(s)}]
    BY <1>2, <2>2 DEF Sums
  <2> QED BY <1>2, <2>1, <2>3
<1>3. IsFiniteSet(C)
  BY FS_Subset
<1>4. SUBSET C \subseteq P
  <2> HIDE DEF P
  <2> QED BY <1>1, <1>2, <1>3, SubsetInduction
<1> QED BY <1>4

\* The sum of a function of a finite set is the value of its sums there.
LEMMA SumIsSums ==
  ASSUME NEW D, IsFiniteSet(D), NEW w \in [D -> Nat]
  PROVE  \E g : Sums(g, D, w) /\ SumOf(w) = g[D]
<1>1. DOMAIN w = D
  OBVIOUS
<1>2. Sums(CHOOSE g : Sums(g, D, w), D, w)
  BY SumsExist
<1> QED BY <1>1, <1>2 DEF SumOf

\* A sum is a natural number, and zero where there is nothing to add.
LEMMA SumType ==
  ASSUME NEW D, IsFiniteSet(D), NEW w \in [D -> Nat]
  PROVE  SumOf(w) \in Nat /\ (D = {} => SumOf(w) = 0)
<1>1. PICK g : Sums(g, D, w) /\ SumOf(w) = g[D]
  BY SumIsSums
<1>2. D = {} => g[D] = 0
  BY <1>1 DEF Sums
<1> QED BY <1>1, <1>2, SumsType

\* One term more adds it to the sum.
LEMMA SumAdd ==
  ASSUME NEW D, IsFiniteSet(D), NEW w \in [D -> Nat], NEW k, k \notin D,
         NEW E, E = D \cup {k}, NEW v \in [E -> Nat], \A x \in D : v[x] = w[x]
  PROVE  SumOf(v) = SumOf(w) + v[k]
<1>1. IsFiniteSet(E) /\ D \in SUBSET (D \cap E)
  BY FS_AddElement
<1>2. PICK g : Sums(g, D, w) /\ SumOf(w) = g[D]
  BY SumIsSums
<1>3. PICK h : Sums(h, E, v) /\ SumOf(v) = h[E]
  BY <1>1, SumIsSums
<1>4. h[E] = v[k] + h[D]
  <2>1. k \in E /\ E \in SUBSET E
    OBVIOUS
  <2>2. h[E] = v[k] + h[E \ {k}]
    BY <1>1, <1>3, <2>1, SumsInAnyOrder
  <2>3. E \ {k} = D
    OBVIOUS
  <2> QED BY <2>2, <2>3
<1>5. g[D] = h[D]
  BY <1>1, <1>2, <1>3, SumsAgree
<1>6. g[D] \in Nat
  <2>1. D \in SUBSET D
    OBVIOUS
  <2> QED BY <1>2, <2>1, SumsType
<1>7. v[k] \in Nat
  <2>1. k \in E
    OBVIOUS
  <2> QED BY <2>1
<1> QED BY <1>2, <1>3, <1>4, <1>5, <1>6, <1>7

\* One term changed changes the sum by as much.
LEMMA SumChange ==
  ASSUME NEW D, IsFiniteSet(D), NEW w \in [D -> Nat], NEW k \in D,
         NEW v \in [D -> Nat], \A x \in D : x # k => v[x] = w[x]
  PROVE  SumOf(v) + w[k] = SumOf(w) + v[k]
<1>1. PICK g : Sums(g, D, w) /\ SumOf(w) = g[D]
  BY SumIsSums
<1>2. PICK h : Sums(h, D, v) /\ SumOf(v) = h[D]
  BY SumIsSums
<1>3. g[D] = w[k] + g[D \ {k}] /\ h[D] = v[k] + h[D \ {k}]
  BY <1>1, <1>2, SumsInAnyOrder
<1>4. g[D \ {k}] = h[D \ {k}]
  <2>1. D \ {k} \in SUBSET (D \cap D) /\ \A x \in D \ {k} : w[x] = v[x]
    OBVIOUS
  <2> QED BY <1>1, <1>2, <2>1, SumsAgree
<1>5. g[D \ {k}] \in Nat /\ h[D \ {k}] \in Nat /\ w[k] \in Nat /\ v[k] \in Nat
  <2>1. D \ {k} \in SUBSET D
    OBVIOUS
  <2> QED BY <1>1, <1>2, <2>1, SumsType
<1> QED BY <1>1, <1>2, <1>3, <1>4, <1>5

-----------------------------------------------------------------------------
(* Sets of states of a finite graph, grown or shrunk until they settle.    *)

\* a finite set with the successors of each member
IsGraph(S, succ) == IsFiniteSet(S) /\ succ \in [S -> SUBSET S]
NextTo(succ, X) == UNION {succ[s] : s \in X}
GrownBy(succ, X) == X \cup NextTo(succ, X)
Onward(succ, X) == {s \in X : succ[s] \cap X # {}}
IsClosed(succ, X) == NextTo(succ, X) \subseteq X
Thrives(succ, X) == \A s \in X : succ[s] \cap X # {}

\* the members of X from which one can go on for ever within X
IsCore(succ, X, C) == C \subseteq X /\ Thrives(succ, C) /\ \A Y \in SUBSET X : Thrives(succ, Y) => Y \subseteq C

\* There is one core.
LEMMA CoreIsUnique ==
  ASSUME NEW succ, NEW X, NEW C, NEW D, IsCore(succ, X, C), IsCore(succ, X, D)
  PROVE  C = D
BY DEF IsCore

\* A set that grows as often as it may is closed.
LEMMA GrowthSettles ==
  ASSUME NEW S, NEW succ, IsGraph(S, succ), NEW n \in Nat, NEW m \in [0 .. n -> SUBSET S],
         \A i \in 1 .. n : m[i] = GrownBy(succ, m[i - 1]), n + Cardinality(m[0]) >= Cardinality(S)
  PROVE  m[0] \subseteq m[n] /\ IsClosed(succ, m[n])
<1> DEFINE P == {i \in 0 .. n : m[0] \subseteq m[i]
             /\ (IsClosed(succ, m[i]) \/ Cardinality(m[i]) >= i + Cardinality(m[0]))}
<1>1. \A i \in 0 .. n : IsFiniteSet(m[i]) /\ Cardinality(m[i]) \in Nat /\ Cardinality(m[i]) <= Cardinality(S)
  BY FS_Subset, FS_CardinalityType DEF IsGraph
<1>2. Cardinality(S) \in Nat
  BY FS_CardinalityType DEF IsGraph
<1>3. 0 \in P
  BY <1>1
<1>4. ASSUME NEW i \in 1 .. n, i - 1 \in P PROVE i \in P
  <2>1. i - 1 \in 0 .. n /\ i \in 0 .. n /\ 0 \in 0 .. n /\ m[i] = GrownBy(succ, m[i - 1])
    OBVIOUS
  <2>2. m[0] \subseteq m[i] /\ m[i - 1] \subseteq m[i]
    BY <1>4, <2>1 DEF GrownBy
  <2>3. CASE IsClosed(succ, m[i - 1])
    <3>1. m[i] = m[i - 1]
      BY <2>1, <2>3 DEF GrownBy, IsClosed
    <3> QED BY <2>1, <2>2, <2>3, <3>1
  <2>4. CASE ~IsClosed(succ, m[i - 1])
    <3>1. m[i] # m[i - 1]
      BY <2>1, <2>4 DEF GrownBy, IsClosed
    <3>2. Cardinality(m[i - 1]) <= Cardinality(m[i]) /\ Cardinality(m[i - 1]) # Cardinality(m[i])
      BY <1>1, <2>1, <2>2, <3>1, FS_Subset
    <3>3. Cardinality(m[i - 1]) >= (i - 1) + Cardinality(m[0])
      BY <1>4, <2>4
    <3>4. Cardinality(m[i]) >= i + Cardinality(m[0])
      BY <1>1, <2>1, <3>2, <3>3
    <3> QED BY <2>1, <2>2, <3>4
  <2> QED BY <2>3, <2>4
<1>5. n \in P
  <2>1. 0 .. n \subseteq P
    <3> HIDE DEF P
    <3> QED BY <1>3, <1>4, IntervalInduction
  <2> QED BY <2>1
<1>6. ASSUME Cardinality(m[n]) >= n + Cardinality(m[0]) PROVE IsClosed(succ, m[n])
  <2>1. n \in 0 .. n /\ 0 \in 0 .. n
    OBVIOUS
  <2>2. Cardinality(m[n]) = Cardinality(S)
    BY <1>1, <1>2, <1>6, <2>1
  <2>3. m[n] = S
    BY <2>1, <2>2, FS_Subset DEF IsGraph
  <2> QED BY <2>3 DEF IsClosed, NextTo, IsGraph
<1> QED BY <1>5, <1>6

\* A set whose dead ends are taken away as often as it may be is its core.
LEMMA PeelingSettles ==
  ASSUME NEW S, NEW succ, IsGraph(S, succ), NEW n \in Nat, NEW m \in [0 .. n -> SUBSET S],
         \A i \in 1 .. n : m[i] = Onward(succ, m[i - 1]), n >= Cardinality(m[0])
  PROVE  IsCore(succ, m[0], m[n])
<1> DEFINE Fits(X) == X \subseteq m[0] /\ \A Y \in SUBSET m[0] : Thrives(succ, Y) => Y \subseteq X
           P == {i \in 0 .. n : Fits(m[i]) /\ (Thrives(succ, m[i])
             \/ Cardinality(m[i]) + i <= Cardinality(m[0]))}
<1>1. \A i \in 0 .. n : IsFiniteSet(m[i]) /\ Cardinality(m[i]) \in Nat
  BY FS_Subset, FS_CardinalityType DEF IsGraph
<1>3. 0 \in P
  BY <1>1
<1>4. ASSUME NEW i \in 1 .. n, i - 1 \in P PROVE i \in P
  <2>1. i - 1 \in 0 .. n /\ i \in 0 .. n /\ 0 \in 0 .. n /\ m[i] = Onward(succ, m[i - 1])
    OBVIOUS
  <2>a. Fits(m[i - 1])
    BY <1>4
  <2>2. Fits(m[i]) /\ m[i] \subseteq m[i - 1]
    <3>1. m[i] \subseteq m[i - 1]
      BY <2>1 DEF Onward
    <3>2. ASSUME NEW Y \in SUBSET m[0], Thrives(succ, Y) PROVE Y \subseteq m[i]
      <4>1. Y \subseteq m[i - 1]
        BY <2>a, <3>2
      <4> QED BY <2>1, <3>2, <4>1 DEF Onward, Thrives
    <3> QED BY <2>a, <3>1, <3>2
  <2>3. CASE Thrives(succ, m[i - 1])
    <3>1. m[i] = m[i - 1]
      BY <2>1, <2>3 DEF Onward, Thrives
    <3> QED BY <2>1, <2>2, <2>3, <3>1
  <2>4. CASE ~Thrives(succ, m[i - 1])
    <3>1. m[i] # m[i - 1]
      BY <2>1, <2>4 DEF Onward, Thrives
    <3>2. Cardinality(m[i]) <= Cardinality(m[i - 1]) /\ Cardinality(m[i - 1]) # Cardinality(m[i])
      BY <1>1, <2>1, <2>2, <3>1, FS_Subset
    <3>3. Cardinality(m[i - 1]) + (i - 1) <= Cardinality(m[0])
      BY <1>4, <2>4
    <3>4. Cardinality(m[i]) \in Nat /\ Cardinality(m[i - 1]) \in Nat /\ Cardinality(m[0]) \in Nat /\ i \in Nat
      BY <1>1, <2>1
    <3>5. Cardinality(m[i]) + i <= Cardinality(m[0])
      BY ONLY <3>2, <3>3, <3>4
    <3> QED BY <2>1, <2>2, <3>5
  <2> QED BY <2>3, <2>4
<1>5. n \in P
  <2>1. 0 .. n \subseteq P
    <3> HIDE DEF P
    <3> QED BY <1>3, <1>4, IntervalInduction
  <2> QED BY <2>1
<1>6. ASSUME Cardinality(m[n]) + n <= Cardinality(m[0]) PROVE Thrives(succ, m[n])
  <2>1. n \in 0 .. n /\ 0 \in 0 .. n
    OBVIOUS
  <2>2. Cardinality(m[n]) = 0
    BY <1>1, <1>6, <2>1
  <2>3. m[n] = {}
    BY <1>1, <2>1, <2>2, FS_EmptySet
  <2> QED BY <2>3 DEF Thrives
<1> QED BY <1>5, <1>6 DEF IsCore

\* What a set leads to in so many steps, taken together, is closed.
LEMMA LayersClosed ==
  ASSUME NEW S, NEW succ, IsGraph(S, succ), NEW n \in Nat, NEW l \in [0 .. n -> SUBSET S],
         \A i \in 1 .. n : l[i] = NextTo(succ, l[i - 1]), n + Cardinality(l[0]) >= Cardinality(S)
  PROVE  IsClosed(succ, UNION {l[i] : i \in 0 .. n})
<1> DEFINE m == [i \in 0 .. n |-> UNION {l[j] : j \in 0 .. i}]
<1>1. m \in [0 .. n -> SUBSET S]
  OBVIOUS
<1>2. m[0] = l[0] /\ m[n] = UNION {l[i] : i \in 0 .. n}
  OBVIOUS
<1>3. ASSUME NEW i \in 1 .. n PROVE m[i] = GrownBy(succ, m[i - 1])
  <2>1. i - 1 \in 0 .. n /\ i \in 0 .. n
    OBVIOUS
  <2>2. m[i] = UNION {l[j] : j \in 0 .. i} /\ m[i - 1] = UNION {l[j] : j \in 0 .. i - 1}
    BY <2>1
  <2> HIDE DEF m
  <2>3. ASSUME NEW x \in m[i] PROVE x \in GrownBy(succ, m[i - 1])
    <3>1. PICK j \in 0 .. i : x \in l[j]
      BY <2>2
    <3>2. CASE j <= i - 1
      <4>1. j \in 0 .. i - 1
        BY <3>2
      <4>2. x \in m[i - 1]
        BY <2>2, <3>1, <4>1
      <4> QED BY <4>2 DEF GrownBy
    <3>3. CASE j = i
      <4>1. PICK s \in l[i - 1] : x \in succ[s]
        BY <3>1, <3>3 DEF NextTo
      <4>2. s \in m[i - 1]
        <5>1. i - 1 \in 0 .. i - 1
          OBVIOUS
        <5> QED BY <2>2, <4>1, <5>1
      <4> QED BY <4>1, <4>2 DEF GrownBy, NextTo
    <3> QED BY <3>2, <3>3
  <2>4. ASSUME NEW x \in m[i - 1] PROVE x \in m[i]
    <3>1. PICK j \in 0 .. i - 1 : x \in l[j]
      BY <2>2
    <3>2. j \in 0 .. i
      OBVIOUS
    <3> QED BY <2>2, <3>1, <3>2
  <2>5. ASSUME NEW s \in m[i - 1], NEW x \in succ[s] PROVE x \in m[i]
    <3>1. PICK j \in 0 .. i - 1 : s \in l[j]
      BY <2>2
    <3>2. j + 1 \in 1 .. n /\ j + 1 \in 0 .. i /\ (j + 1) - 1 = j
      OBVIOUS
    <3>3. x \in l[j + 1]
      BY <3>1, <3>2 DEF NextTo
    <3> QED BY <2>2, <3>2, <3>3
  <2> QED BY <2>3, <2>4, <2>5 DEF GrownBy, NextTo
<1> HIDE DEF m
<1>4. IsClosed(succ, m[n])
  BY <1>1, <1>2, <1>3, GrowthSettles
<1> QED BY <1>2, <1>4

\* A walk among finitely many states meets one of them again.
LEMMA WalkReturns ==
  ASSUME NEW S, IsFiniteSet(S), NEW n \in Nat, n >= Cardinality(S), NEW f \in [0 .. n -> S]
  PROVE  \E j \in 1 .. n : \E i \in 0 .. j - 1 : f[i] = f[j]
<1>1. IsFiniteSet(0 .. n) /\ Cardinality(0 .. n) = n + 1
  BY FS_Interval
<1>2. Cardinality(S) < Cardinality(0 .. n)
  BY <1>1, FS_CardinalityType
<1>3. PICK x, y \in 0 .. n : x # y /\ f[x] = f[y]
  BY <1>1, <1>2, FS_PigeonHole
<1>4. CASE x < y
  <2>1. y \in 1 .. n /\ x \in 0 .. y - 1
    BY <1>4
  <2> QED BY <1>3, <2>1
<1>5. CASE y < x
  <2>1. x \in 1 .. n /\ y \in 0 .. x - 1
    BY <1>5
  <2> QED BY <1>3, <2>1
<1> QED BY <1>3, <1>4, <1>5

\* g goes from first by step, as far as it stays within V
Iterates(g, n, V, first, step) ==
  /\ g = [i \in 0 .. n |-> g[i]] /\ g[0] = first
  /\ \A i \in 1 .. n : g[i - 1] \in V => g[i] = step[g[i - 1]]

\* Such a function stays within V.
LEMMA IteratesIs ==
  ASSUME NEW V, NEW first \in V, NEW step \in [V -> V], NEW n \in Nat, NEW g, Iterates(g, n, V, first, step)
  PROVE  g \in [0 .. n -> V] /\ \A i \in 1 .. n : g[i] = step[g[i - 1]]
<1> DEFINE P == {i \in 0 .. n : g[i] \in V}
<1>1. 0 \in P
  BY DEF Iterates
<1>2. ASSUME NEW i \in 1 .. n, i - 1 \in P PROVE i \in P
  <2>1. g[i - 1] \in V /\ i \in 0 .. n
    BY <1>2
  <2>2. g[i] = step[g[i - 1]]
    BY <2>1 DEF Iterates
  <2>3. step[g[i - 1]] \in V
    BY <2>1
  <2> QED BY <2>1, <2>2, <2>3
<1>3. 0 .. n \subseteq P
  <2> HIDE DEF P
  <2> QED BY <1>1, <1>2, IntervalInduction
<1>4. g \in [0 .. n -> V]
  BY <1>3 DEF Iterates
<1>5. ASSUME NEW i \in 1 .. n PROVE g[i] = step[g[i - 1]]
  <2>1. i - 1 \in 0 .. n
    OBVIOUS
  <2> QED BY <1>4, <2>1 DEF Iterates
<1> QED BY <1>4, <1>5

\* Two of them agree as far as both go.
LEMMA IteratesAgree ==
  ASSUME NEW V, NEW first \in V, NEW step \in [V -> V], NEW n \in Nat, NEW g, Iterates(g, n, V, first, step),
         NEW m \in Nat, n <= m, NEW h, Iterates(h, m, V, first, step)
  PROVE  g[n] = h[n]
<1> DEFINE P == {i \in 0 .. n : g[i] = h[i]}
<1>1. 0 \in P
  BY DEF Iterates
<1>2. ASSUME NEW i \in 1 .. n, i - 1 \in P PROVE i \in P
  <2>1. i \in 1 .. m
    OBVIOUS
  <2>2. g[i] = step[g[i - 1]] /\ h[i] = step[h[i - 1]]
    BY <2>1, IteratesIs
  <2> QED BY <1>2, <2>2
<1>3. 0 .. n \subseteq P
  <2> HIDE DEF P
  <2> QED BY <1>1, <1>2, IntervalInduction
<1> QED BY <1>3

\* a recursive function of the model, where step is a function
IsIterated(g, n, first, step) == g = [i \in 0 .. n |-> IF i = 0 THEN first ELSE step[g[i - 1]]]

\* There is one.
LEMMA IteratesExist ==
  ASSUME NEW V, NEW first \in V, NEW step \in [V -> V], NEW n \in Nat
  PROVE  \E g \in [0 .. n -> V] : IsIterated(g, n, first, step)
<1> DEFINE steps == [i \in 1 .. n |-> step]
<1>1. steps \in [1 .. n -> [V -> V]]
  OBVIOUS
<1>2. PICK g \in [0 .. n -> V] : Computes(g, n, first, steps)
  <2> HIDE DEF steps
  <2> QED BY <1>1, RecursionExists
<1>3. \A i \in 0 .. n : i # 0 => i \in 1 .. n
  OBVIOUS
<1>4. g = [i \in 0 .. n |-> IF i = 0 THEN first ELSE steps[i][g[i - 1]]]
  BY <1>2 DEF Computes
<1>5. \A i \in 0 .. n : g[i] = IF i = 0 THEN first ELSE step[g[i - 1]]
  BY <1>3, <1>4
<1>6. g = [i \in 0 .. n |-> g[i]]
  OBVIOUS
<1> HIDE DEF steps
<1>7. IsIterated(g, n, first, step)
  BY <1>5, <1>6 DEF IsIterated
<1> QED BY <1>7

-----------------------------------------------------------------------------
(* Words and their order.                                                  *)

Words == Seq(Nat)

\* The words of one length are compared at the first place where they differ.
LEMMA LexAtFirst ==
  ASSUME NEW a \in Words, NEW b \in Words, Len(a) = Len(b)
  PROVE  LexLess(a, b) <=> \E k \in 1 .. Len(a) : a[k] < b[k] /\ \A j \in 1 .. k - 1 : a[j] = b[j]
<1>1. /\ Len(a) \in Nat /\ DOMAIN a = 1 .. Len(a) /\ DOMAIN b = 1 .. Len(a)
  BY LenProperties DEF Words
<1>2. ~(Len(a) < Len(b)) /\ DOMAIN a \cap DOMAIN b = 1 .. Len(a)
  BY <1>1
<1> QED BY <1>2 DEF LexLess

\* On words of one length the order is strict and total.
LEMMA LexIsOrder ==
  ASSUME NEW a \in Words, NEW b \in Words, Len(a) = Len(b)
  PROVE  /\ ~LexLess(a, a)
         /\ LexLess(a, b) => ~LexLess(b, a)
         /\ a # b => LexLess(a, b) \/ LexLess(b, a)
         /\ \A c \in Words : Len(c) = Len(a) /\ LexLess(a, b) /\ LexLess(b, c) => LexLess(a, c)
<1> DEFINE n == Len(a)
<1>1. /\ n \in Nat /\ \A k \in 1 .. n : a[k] \in Nat /\ b[k] \in Nat
      /\ \A c \in Words : Len(c) = n => \A k \in 1 .. n : c[k] \in Nat
  BY LenProperties, ElementOfSeq DEF Words
<1>2. ~LexLess(a, a)
  BY <1>1, LexAtFirst
<1>3. LexLess(a, b) => ~LexLess(b, a)
  <2> SUFFICES ASSUME LexLess(a, b), LexLess(b, a) PROVE FALSE
    OBVIOUS
  <2>1. PICK k \in 1 .. n : a[k] < b[k] /\ \A j \in 1 .. k - 1 : a[j] = b[j]
    BY LexAtFirst
  <2>2. PICK m \in 1 .. n : b[m] < a[m] /\ \A j \in 1 .. m - 1 : b[j] = a[j]
    BY LexAtFirst
  <2>3. CASE k < m
    BY <1>1, <2>1, <2>2, <2>3
  <2>4. CASE m < k
    BY <1>1, <2>1, <2>2, <2>4
  <2>5. CASE m = k
    BY <1>1, <2>1, <2>2, <2>5
  <2> QED BY <2>3, <2>4, <2>5
<1>4. a # b => LexLess(a, b) \/ LexLess(b, a)
  <2> SUFFICES ASSUME a # b PROVE LexLess(a, b) \/ LexLess(b, a)
    OBVIOUS
  <2> DEFINE D == {k \in 1 .. n : a[k] # b[k]}
  <2>1. D # {}
    BY SeqEqual, <1>1 DEF Words
  <2>2. PICK k \in D : \A j \in D : ~(<<j, k>> \in Less)
    <3>1. D \subseteq Nat
      BY <1>1
    <3> HIDE DEF D
    <3> QED BY <2>1, <3>1, LessIsWellFounded, WFMin
  <2>3. \A j \in 1 .. k - 1 : a[j] = b[j]
    <3> SUFFICES ASSUME NEW j \in 1 .. k - 1, a[j] # b[j] PROVE FALSE
      OBVIOUS
    <3>1. j \in D /\ j < k /\ j \in Nat /\ k \in Nat
      BY <1>1
    <3>2. <<j, k>> \in Less
      BY <3>1 DEF Less, OpToRel
    <3> QED BY <2>2, <3>1, <3>2
  <2>4. a[k] < b[k] \/ b[k] < a[k]
    BY <1>1
  <2> QED BY <2>3, <2>4, LexAtFirst
<1>5. ASSUME NEW c \in Words, Len(c) = Len(a), LexLess(a, b), LexLess(b, c) PROVE LexLess(a, c)
  <2>1. PICK k \in 1 .. n : a[k] < b[k] /\ \A j \in 1 .. k - 1 : a[j] = b[j]
    BY <1>5, LexAtFirst
  <2>2. PICK m \in 1 .. n : b[m] < c[m] /\ \A j \in 1 .. m - 1 : b[j] = c[j]
    BY <1>5, LexAtFirst
  <2>3. \A j \in 1 .. n : a[j] \in Nat /\ b[j] \in Nat /\ c[j] \in Nat
    BY <1>1, <1>5
  <2>4. CASE k < m
    <3>1. a[k] < c[k] /\ \A j \in 1 .. k - 1 : a[j] = c[j]
      BY <2>1, <2>2, <2>3, <2>4
    <3> QED BY <3>1, <1>5, LexAtFirst
  <2>5. CASE m <= k
    <3>1. a[m] < c[m] /\ \A j \in 1 .. m - 1 : a[j] = c[j]
      BY <2>1, <2>2, <2>3, <2>5
    <3> QED BY <3>1, <1>5, LexAtFirst
  <2>6. k \in Nat /\ m \in Nat
    BY <1>1
  <2> QED BY <2>4, <2>5, <2>6
<1> QED BY <1>2, <1>3, <1>4, <1>5

\* The order of words is strict and total.
LEMMA WordOrder ==
  /\ \A a \in Words : ~WordLess(a, a)
  /\ \A a, b \in Words : WordLess(a, b) => ~WordLess(b, a)
  /\ \A a, b \in Words : a # b => WordLess(a, b) \/ WordLess(b, a)
  /\ \A a, b, c \in Words : WordLess(a, b) /\ WordLess(b, c) => WordLess(a, c)
<1>1. \A a \in Words : Len(a) \in Nat
  BY LenProperties DEF Words
<1>2. \A a \in Words : ~WordLess(a, a)
  BY <1>1, LexIsOrder DEF WordLess
<1>3. \A a, b \in Words : WordLess(a, b) => ~WordLess(b, a)
  BY <1>1, LexIsOrder DEF WordLess
<1>4. \A a, b \in Words : a # b => WordLess(a, b) \/ WordLess(b, a)
  BY <1>1, LexIsOrder DEF WordLess
<1>5. ASSUME NEW a \in Words, NEW b \in Words, NEW c \in Words, WordLess(a, b), WordLess(b, c)
      PROVE  WordLess(a, c)
  BY <1>1, <1>5, LexIsOrder DEF WordLess
<1> QED BY <1>2, <1>3, <1>4, <1>5

\* The concatenation of words.
LEMMA WordConcat ==
  ASSUME NEW a \in Words, NEW b \in Words
  PROVE  /\ a \o b \in Words /\ Len(a \o b) = Len(a) + Len(b) /\ Len(a) \in Nat
         /\ \A i \in 1 .. Len(a) + Len(b) : (a \o b)[i] = IF i <= Len(a) THEN a[i] ELSE b[i - Len(a)]
         /\ a \o <<>> = a /\ <<>> \o a = a /\ <<>> \in Words
         /\ \A c \in Words : (a \o b) \o c = a \o (b \o c)
BY ConcatProperties, ConcatEmptySeq, ConcatAssociative, LenProperties, SMTT(30) DEF Words

\* What a concatenation is, one fact at a time.
LEMMA CatWord == \A a, b \in Words : a \o b \in Words
BY WordConcat

\* Concatenation is associative.
LEMMA CatAssoc == \A a, b, c \in Words : a \o b \o c = a \o (b \o c)
BY WordConcat

\* Lengths add up.
LEMMA CatLen ==
  /\ \A a \in Words : Len(a) \in Nat
  /\ \A a, b \in Words : Len(a \o b) = Len(a) + Len(b)
BY WordConcat

\* The empty word is neutral.
LEMMA CatEmpty == <<>> \in Words /\ Len(<<>>) = 0 /\ \A a \in Words : a \o <<>> = a /\ <<>> \o a = a
BY WordConcat, EmptySeq DEF Words

\* The order is kept when the same words are put before and after.
LEMMA WordLessBetween ==
  ASSUME NEW a \in Words, NEW b \in Words, NEW l \in Words, NEW r \in Words, WordLess(a, b)
  PROVE  WordLess(l \o a \o r, l \o b \o r)
<1> DEFINE x == l \o a \o r
           y == l \o b \o r
<1>1. /\ x \in Words /\ y \in Words
      /\ Len(a) \in Nat /\ Len(b) \in Nat /\ Len(l) \in Nat /\ Len(r) \in Nat
      /\ Len(l \o a) = Len(l) + Len(a) /\ Len(l \o b) = Len(l) + Len(b)
      /\ Len(x) = Len(l) + Len(a) + Len(r) /\ Len(y) = Len(l) + Len(b) + Len(r)
      /\ l \o a \in Words /\ l \o b \in Words
  BY WordConcat
<1>2. CASE Len(a) < Len(b)
  BY <1>1, <1>2 DEF WordLess
<1>3. CASE Len(a) = Len(b) /\ LexLess(a, b)
  <2>1. PICK k \in 1 .. Len(a) : a[k] < b[k] /\ \A j \in 1 .. k - 1 : a[j] = b[j]
    BY <1>3, LexAtFirst
  <2>2. \A i \in 1 .. Len(l) + Len(a) :
          /\ (l \o a)[i] = IF i <= Len(l) THEN l[i] ELSE a[i - Len(l)]
          /\ (l \o b)[i] = IF i <= Len(l) THEN l[i] ELSE b[i - Len(l)]
    <3>1. \A i \in 1 .. Len(l) + Len(a) : (l \o a)[i] = IF i <= Len(l) THEN l[i] ELSE a[i - Len(l)]
      BY WordConcat
    <3>2. \A i \in 1 .. Len(l) + Len(b) : (l \o b)[i] = IF i <= Len(l) THEN l[i] ELSE b[i - Len(l)]
      BY WordConcat
    <3> QED BY <3>1, <3>2, <1>3
  <2>3. \A i \in 1 .. Len(l) + Len(a) : x[i] = (l \o a)[i] /\ y[i] = (l \o b)[i]
    <3> SUFFICES ASSUME NEW i \in 1 .. Len(l) + Len(a) PROVE x[i] = (l \o a)[i] /\ y[i] = (l \o b)[i]
      OBVIOUS
    <3>1. i \in 1 .. Len(l \o a) + Len(r) /\ i <= Len(l \o a)
          /\ i \in 1 .. Len(l \o b) + Len(r) /\ i <= Len(l \o b)
      BY <1>1, <1>3
    <3> QED BY <1>1, <3>1, WordConcat
  <2>4. \A i \in 1 .. Len(l) + Len(a) :
          /\ x[i] = IF i <= Len(l) THEN l[i] ELSE a[i - Len(l)]
          /\ y[i] = IF i <= Len(l) THEN l[i] ELSE b[i - Len(l)]
    BY <2>2, <2>3
  <2>5. k + Len(l) \in 1 .. Len(x) /\ k + Len(l) \in 1 .. Len(l) + Len(a) /\ ~(k + Len(l) <= Len(l))
        /\ (k + Len(l)) - Len(l) = k
    BY <1>1
  <2>6. x[k + Len(l)] < y[k + Len(l)]
    BY <2>1, <2>4, <2>5
  <2>7. \A j \in 1 .. (k + Len(l)) - 1 : x[j] = y[j]
    <3> SUFFICES ASSUME NEW j \in 1 .. (k + Len(l)) - 1 PROVE x[j] = y[j]
      OBVIOUS
    <3>1. j \in 1 .. Len(l) + Len(a) /\ (~(j <= Len(l)) => j - Len(l) \in 1 .. k - 1)
      BY <1>1
    <3> QED BY <2>1, <2>4, <3>1
  <2>8. Len(x) = Len(y)
    BY <1>1, <1>3
  <2> HIDE DEF x, y
  <2>9. LexLess(x, y) <=> \E i \in 1 .. Len(x) : x[i] < y[i] /\ \A j \in 1 .. i - 1 : x[j] = y[j]
    BY <1>1, <2>8, LexAtFirst
  <2>10. LexLess(x, y)
    BY <2>5, <2>6, <2>7, <2>9
  <2>11. WordLess(x, y)
    BY <2>8, <2>10 DEF WordLess
  <2> QED BY <2>11 DEF x, y
<1> QED BY <1>2, <1>3 DEF WordLess

\* A set of numbers with an element has a least one.
LEMMA LeastNumber ==
  ASSUME NEW S \in SUBSET Nat, S # {}
  PROVE  \E x \in S : \A y \in S : x <= y
<1>1. PICK x \in S : \A y \in S : ~(<<y, x>> \in Less)
  BY LessIsWellFounded, WFMin
<1>2. ASSUME NEW y \in S PROVE x <= y
  <2>1. ~(y < x)
    BY <1>1 DEF Less, OpToRel
  <2> QED BY <2>1
<1> QED BY <1>2

\* A set of words of one length has a least word.
LEMMA LexLeast ==
  ASSUME NEW n \in Nat, NEW T \in SUBSET {w \in Words : Len(w) = n}, T # {}
  PROVE  \E x \in T : \A y \in T : y # x => LexLess(x, y)
<1> DEFINE Of(k) == {w \in Words : Len(w) = k}
           Has(S) == S # {} => \E x \in S : \A y \in S : y # x => LexLess(x, y)
           P == {k \in Nat : \A S \in SUBSET Of(k) : Has(S)}
<1>1. 0 \in P
  <2>1. \A x, y \in Of(0) : x = y
    BY EmptySeq DEF Words
  <2> QED BY <2>1
<1>2. ASSUME NEW k \in Nat, k \in P PROVE k + 1 \in P
  <2> SUFFICES ASSUME NEW S \in SUBSET Of(k + 1), S # {}
               PROVE  \E x \in S : \A y \in S : y # x => LexLess(x, y)
    OBVIOUS
  <2>1. \A w \in S : /\ w \in Seq(Nat) /\ w # <<>> /\ Len(w) = k + 1
                     /\ w[1] \in Nat /\ \A i \in 1 .. k + 1 : w[i] \in Nat
    <3>1. \A w \in S : w \in Seq(Nat) /\ Len(w) = k + 1
      BY DEF Words
    <3> QED BY <3>1, ElementOfSeq, EmptySeq, SMTT(30)
  <2>2. \A w \in S : /\ Tail(w) \in Of(k)
                     /\ \A i \in 1 .. k : Tail(w)[i] = w[i + 1]
    <3> SUFFICES ASSUME NEW w \in S
                 PROVE  Tail(w) \in Of(k) /\ \A i \in 1 .. k : Tail(w)[i] = w[i + 1]
      OBVIOUS
    <3>1. /\ Tail(w) \in Seq(Nat) /\ Len(Tail(w)) = Len(w) - 1
          /\ \A i \in 1 .. Len(Tail(w)) : Tail(w)[i] = w[i + 1]
      BY <2>1, HeadTailProperties
    <3>2. Len(w) = k + 1
      BY <2>1
    <3>3. Len(Tail(w)) = k
      BY <3>1, <3>2
    <3> QED BY <3>1, <3>3 DEF Words
  <2> DEFINE firsts == {w[1] : w \in S}
  <2>3. PICK a \in firsts : \A b \in firsts : a <= b
    <3>1. firsts \in SUBSET Nat /\ firsts # {}
      BY <2>1
    <3> HIDE DEF firsts
    <3> QED BY <3>1, LeastNumber
  <2> DEFINE tails == {Tail(w) : w \in {v \in S : v[1] = a}}
  <2>4. PICK t \in tails : \A u \in tails : u # t => LexLess(t, u)
    <3>1. tails \in SUBSET Of(k)
      BY <2>2, Zenon
    <3>2. tails # {}
      <4>1. PICK w \in S : w[1] = a
        OBVIOUS
      <4>2. Tail(w) \in tails
        BY <4>1, Zenon
      <4> QED BY ONLY <4>2
    <3> HIDE DEF tails
    <3> QED BY <3>1, <3>2, <1>2
  <2>5. PICK x \in S : x[1] = a /\ Tail(x) = t
    OBVIOUS
  <2>6. ASSUME NEW y \in S, y # x PROVE LexLess(x, y)
    <3>1. x \in Words /\ y \in Words /\ Len(x) = k + 1 /\ Len(y) = k + 1 /\ a \in Nat /\ y[1] \in Nat
      BY <2>1, <2>5 DEF Words
    <3>2. a <= y[1]
      BY <2>3
    <3>3. CASE y[1] # a
      <4>1. x[1] < y[1] /\ 1 \in 1 .. Len(x) /\ \A j \in 1 .. 1 - 1 : x[j] = y[j]
        BY <2>5, <3>1, <3>2, <3>3
      <4> QED BY <3>1, <4>1, LexAtFirst
    <3>4. CASE y[1] = a
      <4>1. Tail(y) # t
        <5> SUFFICES ASSUME Tail(y) = t PROVE FALSE
          OBVIOUS
        <5>1. \A i \in 1 .. k : x[i + 1] = y[i + 1]
          <6>1. \A i \in 1 .. k : Tail(x)[i] = x[i + 1] /\ Tail(y)[i] = y[i + 1]
            BY <2>2
          <6> QED BY <6>1, <2>5
        <5>2. \A i \in 1 .. k + 1 : i = 1 \/ (i - 1 \in 1 .. k /\ (i - 1) + 1 = i)
          OBVIOUS
        <5>3. \A i \in 1 .. k + 1 : x[i] = y[i]
          BY <5>1, <5>2, <2>5, <3>4
        <5> QED BY <3>1, <5>3, <2>6, SeqEqual DEF Words
      <4>2. LexLess(t, Tail(y))
        BY <2>4, <3>4, <4>1
      <4>3. t \in Words /\ Len(t) = k /\ Tail(y) \in Words /\ Len(Tail(y)) = k
        BY <2>2, <2>5
      <4>4. PICK i \in 1 .. k : t[i] < Tail(y)[i] /\ \A j \in 1 .. i - 1 : t[j] = Tail(y)[j]
        BY <4>2, <4>3, LexAtFirst
      <4>5. x[i + 1] < y[i + 1]
        BY <2>2, <2>5, <4>4
      <4>6. ASSUME NEW j \in 1 .. (i + 1) - 1 PROVE x[j] = y[j]
        <5>1. CASE j = 1
          BY <5>1, <2>5, <3>4
        <5>2. CASE j # 1
          <6>1. j - 1 \in 1 .. i - 1 /\ j - 1 \in 1 .. k /\ (j - 1) + 1 = j
            BY <5>2
          <6>2. Tail(x)[j - 1] = x[j] /\ Tail(y)[j - 1] = y[j]
            BY <2>2, <2>5, <6>1
          <6> QED BY <2>5, <4>4, <6>1, <6>2
        <5> QED BY <5>1, <5>2
      <4>7. i + 1 \in 1 .. Len(x)
        BY <3>1
      <4> QED BY <3>1, <4>5, <4>6, <4>7, LexAtFirst
    <3> QED BY <3>3, <3>4
  <2> QED BY <2>6
<1>3. Nat \subseteq P
  <2> HIDE DEF P
  <2> QED BY <1>1, <1>2, SetInduction
<1> QED BY <1>3

\* A set of words has a least word.
LEMMA LeastWord ==
  ASSUME NEW T \in SUBSET Words, T # {}
  PROVE  \E x \in T : \A y \in T : y # x => WordLess(x, y)
<1>1. \A w \in Words : Len(w) \in Nat
  BY LenProperties DEF Words
<1> DEFINE lens == {Len(w) : w \in T}
<1>2. PICK n \in lens : \A m \in lens : n <= m
  <2>1. lens \in SUBSET Nat /\ lens # {}
    BY <1>1
  <2> HIDE DEF lens
  <2> QED BY <2>1, LeastNumber
<1> DEFINE S == {w \in T : Len(w) = n}
<1>3. PICK x \in S : \A y \in S : y # x => LexLess(x, y)
  <2>1. S \in SUBSET {w \in Words : Len(w) = n} /\ S # {} /\ n \in Nat
    BY <1>1
  <2> HIDE DEF S
  <2> QED BY <2>1, LexLeast
<1>4. ASSUME NEW y \in T, y # x PROVE WordLess(x, y)
  <2>1. n <= Len(y) /\ Len(x) = n /\ Len(y) \in Nat /\ n \in Nat
    BY <1>1, <1>2
  <2> QED BY <2>1, <1>3, <1>4 DEF WordLess
<1> QED BY <1>4

\* Induction along the order of words.
LEMMA WordInduction ==
  ASSUME NEW P, \A w \in Words : (\A u \in Words : WordLess(u, w) => u \in P) => w \in P
  PROVE  Words \subseteq P
<1> SUFFICES ASSUME Words \ P # {} PROVE FALSE
  OBVIOUS
<1>1. PICK x \in Words \ P : \A y \in Words \ P : y # x => WordLess(x, y)
  BY LeastWord
<1>2. \A u \in Words : WordLess(u, x) => u \in P
  BY <1>1, WordOrder
<1> QED BY <1>1, <1>2

\* A finite set of words has a largest word.
LEMMA LargestIs ==
  ASSUME NEW D \in SUBSET Words, IsFiniteSet(D), D # {}
  PROVE  /\ Largest(D) \in D
         /\ \A u \in D : u # Largest(D) => WordLess(u, Largest(D))
<1> DEFINE Has(s) == \E w \in s : \A u \in s \ {w} : WordLess(u, w)
           P == {s \in SUBSET D : s = {} \/ Has(s)}
<1>1. {} \in P
  OBVIOUS
<1>2. ASSUME NEW s \in SUBSET D, s # {}, \A x \in s : s \ {x} \in P PROVE s \in P
  <2>1. PICK x \in s : TRUE
    BY <1>2
  <2>2. CASE s \ {x} = {}
    <3>1. \A u \in s \ {x} : WordLess(u, x)
      BY <2>2
    <3> QED BY <3>1
  <2>3. CASE Has(s \ {x})
    <3>1. PICK w \in s \ {x} : \A u \in (s \ {x}) \ {w} : WordLess(u, w)
      BY <2>3
    <3>2. WordLess(x, w) \/ WordLess(w, x)
      BY WordOrder, <3>1
    <3>3. CASE WordLess(x, w)
      <4>1. \A u \in s \ {w} : WordLess(u, w)
        BY <3>1, <3>3
      <4> QED BY <4>1
    <3>4. CASE WordLess(w, x)
      <4>1. \A u \in s \ {x} : WordLess(u, x)
        BY <3>1, <3>4, WordOrder
      <4> QED BY <4>1
    <3> QED BY <3>2, <3>3, <3>4
  <2> QED BY <1>2, <2>2, <2>3
<1>3. SUBSET D \subseteq P
  <2> HIDE DEF P
  <2> QED BY <1>1, <1>2, SubsetInduction
<1>4. \E w \in D : \A u \in D \ {w} : WordLess(u, w)
  BY <1>3
<1> QED BY <1>4 DEF Largest

\* The largest word of a set is the only one that is above all others.
LEMMA LargestUnique ==
  ASSUME NEW D \in SUBSET Words, IsFiniteSet(D), NEW w \in D,
         \A u \in D : u # w => WordLess(u, w)
  PROVE  Largest(D) = w
BY LargestIs, WordOrder

-----------------------------------------------------------------------------
(* Factors of words.                                                       *)

\* A word is cut where it is divided.
LEMMA CutWord ==
  ASSUME NEW w \in Words, NEW k \in 0 .. Len(w)
  PROVE  /\ SubSeq(w, 1, k) \in Words /\ Len(SubSeq(w, 1, k)) = k
         /\ SubSeq(w, k + 1, Len(w)) \in Words /\ Len(SubSeq(w, k + 1, Len(w))) = Len(w) - k
         /\ w = SubSeq(w, 1, k) \o SubSeq(w, k + 1, Len(w))
<1>1. Len(w) \in Nat /\ k \in Int /\ \A i \in 1 .. Len(w) : w[i] \in Nat
  BY LenProperties, ElementOfSeq DEF Words
<1>2. SubSeq(w, 1, k) \in Seq(Nat) /\ Len(SubSeq(w, 1, k)) = IF 1 <= k THEN k - 1 + 1 ELSE 0
  BY <1>1, SubSeqProperties
<1>3. /\ SubSeq(w, k + 1, Len(w)) \in Seq(Nat)
      /\ Len(SubSeq(w, k + 1, Len(w))) = IF k + 1 <= Len(w) THEN Len(w) - (k + 1) + 1 ELSE 0
  BY <1>1, SubSeqProperties
<1>4. SubSeq(w, 1, k) \o SubSeq(w, k + 1, Len(w)) = SubSeq(w, 1, Len(w))
  <2>1. 1 \in 1 .. Len(w) + 1 /\ k \in 1 - 1 .. Len(w) /\ Len(w) \in k .. Len(w)
    BY <1>1
  <2> QED BY <2>1, ConcatAdjacentSubSeq DEF Words
<1>5. SubSeq(w, 1, Len(w)) = w
  BY SubSeqFull DEF Words
<1>6. Len(SubSeq(w, 1, k)) = k
  BY <1>1, <1>2
<1>7. Len(SubSeq(w, k + 1, Len(w))) = Len(w) - k
  BY <1>1, <1>3
<1>8. SubSeq(w, 1, k) \in Words /\ SubSeq(w, k + 1, Len(w)) \in Words
  BY <1>2, <1>3 DEF Words
<1> QED BY Zenon, <1>4, <1>5, <1>6, <1>7, <1>8

\* The parts of a concatenation.
LEMMA PartsOfConcat ==
  ASSUME NEW a \in Words, NEW b \in Words
  PROVE  SubSeq(a \o b, 1, Len(a)) = a /\ SubSeq(a \o b, Len(a) + 1, Len(a) + Len(b)) = b
<1> DEFINE w == a \o b
<1>1. /\ w \in Words /\ Len(w) = Len(a) + Len(b) /\ Len(a) \in Nat /\ Len(b) \in Nat
      /\ \A i \in 1 .. Len(a) + Len(b) : w[i] = IF i <= Len(a) THEN a[i] ELSE b[i - Len(a)]
  BY WordConcat
<1>2. \A i \in 1 .. Len(w) : w[i] \in Nat
  BY <1>1, ElementOfSeq DEF Words
<1> HIDE DEF w
<1>3. /\ SubSeq(w, 1, Len(a)) \in Seq(Nat)
      /\ Len(SubSeq(w, 1, Len(a))) = IF 1 <= Len(a) THEN Len(a) - 1 + 1 ELSE 0
      /\ \A i \in 1 .. Len(a) - 1 + 1 : SubSeq(w, 1, Len(a))[i] = w[1 + i - 1]
  BY <1>1, <1>2, SubSeqProperties
<1>4. Len(SubSeq(w, 1, Len(a))) = Len(a) /\ \A i \in 1 .. Len(a) : SubSeq(w, 1, Len(a))[i] = a[i]
  BY <1>1, <1>3
<1>5. SubSeq(w, 1, Len(a)) = a
  BY <1>3, <1>4, SeqEqual DEF Words
<1> DEFINE m == Len(a) + 1
           n == Len(a) + Len(b)
<1>6. m \in Int /\ n \in Int /\ \A i \in m .. n : w[i] \in Nat
  BY <1>1, <1>2
<1>7. /\ SubSeq(w, m, n) \in Seq(Nat)
      /\ Len(SubSeq(w, m, n)) = IF m <= n THEN n - m + 1 ELSE 0
      /\ \A i \in 1 .. n - m + 1 : SubSeq(w, m, n)[i] = w[m + i - 1]
  BY <1>6, SubSeqProperties
<1>8. Len(SubSeq(w, m, n)) = Len(b) /\ n - m + 1 = Len(b)
  BY <1>1, <1>7
<1>9. ASSUME NEW i \in 1 .. Len(b) PROVE SubSeq(w, m, n)[i] = b[i]
  <2>1. SubSeq(w, m, n)[i] = w[m + i - 1] /\ m + i - 1 = Len(a) + i
    BY <1>1, <1>7, <1>8
  <2>2. Len(a) + i \in 1 .. Len(a) + Len(b) /\ ~(Len(a) + i <= Len(a)) /\ (Len(a) + i) - Len(a) = i
    BY <1>1
  <2> QED BY <1>1, <2>1, <2>2
<1>10. SubSeq(w, m, n) = b
  BY <1>7, <1>8, <1>9, SeqEqual DEF Words
<1> QED BY <1>5, <1>10 DEF w

\* Equal concatenations with left parts of one length have equal parts.
LEMMA ConcatInjective ==
  ASSUME NEW a \in Words, NEW b \in Words, NEW c \in Words, NEW d \in Words,
         a \o b = c \o d, Len(a) = Len(c) \/ Len(b) = Len(d)
  PROVE  a = c /\ b = d
<1>1. /\ Len(a \o b) = Len(a) + Len(b) /\ Len(c \o d) = Len(c) + Len(d)
      /\ Len(a) \in Nat /\ Len(b) \in Nat /\ Len(c) \in Nat /\ Len(d) \in Nat
  BY WordConcat
<1>2. Len(a) = Len(c) /\ Len(b) = Len(d)
  BY <1>1
<1>3. SubSeq(a \o b, 1, Len(a)) = a /\ SubSeq(a \o b, Len(a) + 1, Len(a) + Len(b)) = b
  BY PartsOfConcat
<1>4. SubSeq(c \o d, 1, Len(c)) = c /\ SubSeq(c \o d, Len(c) + 1, Len(c) + Len(d)) = d
  BY PartsOfConcat
<1> QED BY <1>2, <1>3, <1>4

\* A common beginning and a common end cancel.
LEMMA CatCancel ==
  /\ \A a, b, c \in Words : a \o b = a \o c => b = c
  /\ \A a, b, c \in Words : b \o a = c \o a => b = c
BY ConcatInjective

\* A pattern occurs at an offset if and only if the word is cut around it there.
LEMMA OccurrenceCut ==
  ASSUME NEW w \in Words, NEW u \in Words, NEW k
  PROVE  /\ k \in Occurrences(w, u) =>
              /\ k \in 0 .. Len(w) /\ Len(w) >= k + Len(u)
              /\ SubSeq(w, 1, k) \in Words /\ Len(SubSeq(w, 1, k)) = k
              /\ SubSeq(w, k + Len(u) + 1, Len(w)) \in Words
              /\ w = SubSeq(w, 1, k) \o u \o SubSeq(w, k + Len(u) + 1, Len(w))
         /\ \A l, r \in Words : w = l \o u \o r => Len(l) \in Occurrences(w, u)
<1>1. Len(w) \in Nat /\ Len(u) \in Nat /\ \A i \in 1 .. Len(w) : w[i] \in Nat
  BY LenProperties, ElementOfSeq DEF Words
<1>2. ASSUME k \in Occurrences(w, u)
      PROVE  /\ k \in 0 .. Len(w) /\ Len(w) >= k + Len(u)
             /\ SubSeq(w, 1, k) \in Words /\ Len(SubSeq(w, 1, k)) = k
             /\ SubSeq(w, k + Len(u) + 1, Len(w)) \in Words
             /\ w = SubSeq(w, 1, k) \o u \o SubSeq(w, k + Len(u) + 1, Len(w))
  <2> DEFINE j == k + Len(u)
  <2>1. k \in 0 .. Len(w) - Len(u) /\ SubSeq(w, k + 1, j) = u
    BY <1>2 DEF Occurrences
  <2>2. k \in 0 .. Len(w) /\ j \in k .. Len(w) /\ j \in 0 .. Len(w) /\ 1 \in 1 .. Len(w) + 1
        /\ k \in 1 - 1 .. Len(w) /\ j \in Nat /\ k \in Nat
    BY <1>1, <2>1
  <2>3. SubSeq(w, 1, k) \in Words /\ Len(SubSeq(w, 1, k)) = k
    BY <2>2, CutWord
  <2>4. /\ SubSeq(w, j + 1, Len(w)) \in Words
        /\ w = SubSeq(w, 1, j) \o SubSeq(w, j + 1, Len(w))
    BY <2>2, CutWord
  <2>5. SubSeq(w, 1, k) \o SubSeq(w, k + 1, j) = SubSeq(w, 1, j)
    BY <1>1, <2>2, ConcatAdjacentSubSeq DEF Words
  <2>6. w = SubSeq(w, 1, k) \o u \o SubSeq(w, j + 1, Len(w))
    BY <2>1, <2>4, <2>5
  <2>7. k \in 0 .. Len(w) /\ Len(w) >= k + Len(u)
    BY <1>1, <2>2
  <2> QED BY Zenon, <2>3, <2>4, <2>6, <2>7
<1>3. ASSUME NEW l \in Words, NEW r \in Words, w = l \o u \o r
      PROVE  Len(l) \in Occurrences(w, u)
  <2>1. /\ w = l \o (u \o r) /\ u \o r \in Words /\ l \o u \in Words
        /\ Len(l) \in Nat /\ Len(r) \in Nat /\ Len(l \o u) = Len(l) + Len(u)
        /\ Len(w) = Len(l) + Len(u) + Len(r)
    <3>1. l \o u \in Words /\ u \o r \in Words /\ w = l \o (u \o r)
      BY <1>3, CatWord, CatAssoc, SMTT(30)
    <3>2. Len(l) \in Nat /\ Len(r) \in Nat /\ Len(l \o u) = Len(l) + Len(u)
      BY CatLen
    <3>3. Len(w) = Len(l \o u) + Len(r)
      BY <1>3, <3>1, CatLen
    <3> QED BY <3>1, <3>2, <3>3
  <2>2. SubSeq(w, 1, Len(l) + Len(u)) = l \o u
    <3>1. SubSeq((l \o u) \o r, 1, Len(l \o u)) = l \o u
      BY <2>1, PartsOfConcat
    <3> QED BY <1>3, <2>1, <3>1
  <2>3. Len(l) + 1 \in 1 .. Len(w) + 1 /\ Len(l) + Len(u) \in 0 .. Len(w) /\ Len(l) \in 0 .. Len(w)
        /\ 1 \in 1 .. Len(w) + 1 /\ Len(l) \in 1 - 1 .. Len(w) /\ Len(l) + Len(u) \in Len(l) .. Len(w)
    BY <1>1, <2>1
  <2>4. SubSeq(w, 1, Len(l)) \o SubSeq(w, Len(l) + 1, Len(l) + Len(u)) = SubSeq(w, 1, Len(l) + Len(u))
    BY <2>3, ConcatAdjacentSubSeq DEF Words
  <2>5. SubSeq(w, 1, Len(l)) = l
    BY <2>1, PartsOfConcat
  <2>6. SubSeq(w, Len(l) + 1, Len(l) + Len(u)) \in Words
    <3>1. \A i \in Len(l) + 1 .. Len(l) + Len(u) : w[i] \in Nat
      BY <1>1, <2>1
    <3> QED BY <1>1, <2>1, <3>1, SubSeqProperties DEF Words
  <2>7. SubSeq(w, Len(l) + 1, Len(l) + Len(u)) = u
    <3>1. l \o SubSeq(w, Len(l) + 1, Len(l) + Len(u)) = l \o u
      BY <2>2, <2>4, <2>5
    <3> QED BY <2>6, <3>1, CatCancel
  <2>8. Len(l) \in 0 .. Len(w) - Len(u)
    BY <1>1, <2>1
  <2> QED BY <2>7, <2>8 DEF Occurrences
<1> QED BY <1>2, <1>3

-----------------------------------------------------------------------------
(* Numbers modulo q.                                                       *)

IsModulus(q) == q \in Nat /\ q >= 2

Congruent(q, a, b) == \E k \in Int : a = b + k * q

\* A remainder is congruent to its number, and a remainder of itself.
LEMMA Remainder ==
  ASSUME NEW q, IsModulus(q), NEW a \in Int
  PROVE  a % q \in 0 .. q - 1 /\ Congruent(q, a % q, a) /\ (a \in 0 .. q - 1 => a % q = a)
<1>1. q \in Nat /\ q >= 2
  BY DEF IsModulus
<1>2. a \div q \in Int /\ a % q \in 0 .. q - 1 /\ a = q * (a \div q) + (a % q)
  BY <1>1
<1>3. (a % q) = a + (-(a \div q)) * q /\ -(a \div q) \in Int
  BY <1>1, <1>2
<1>4. a \in 0 .. q - 1 => a % q = a
  BY <1>1
<1> QED BY <1>2, <1>3, <1>4 DEF Congruent

\* Congruence is an equivalence that sums and multiples keep.
LEMMA CongruenceLaws ==
  ASSUME NEW q, IsModulus(q)
  PROVE  /\ \A a \in Int : Congruent(q, a, a)
         /\ \A a, b \in Int : Congruent(q, a, b) => Congruent(q, b, a)
         /\ \A a, b, c \in Int : Congruent(q, a, b) /\ Congruent(q, b, c) => Congruent(q, a, c)
         /\ \A a, b, c, d \in Int : Congruent(q, a, b) /\ Congruent(q, c, d) => Congruent(q, a + c, b + d)
         /\ \A a, b, c \in Int : Congruent(q, a, b) => Congruent(q, c * a, c * b)
<1>1. q \in Int
  BY DEF IsModulus
<1>2. ASSUME NEW a \in Int PROVE Congruent(q, a, a)
  <2>1. a = a + 0 * q
    BY <1>1
  <2> QED BY <2>1 DEF Congruent
<1>3. ASSUME NEW a \in Int, NEW b \in Int, Congruent(q, a, b) PROVE Congruent(q, b, a)
  <2>1. PICK k \in Int : a = b + k * q
    BY <1>3 DEF Congruent
  <2>2. b = a + (-k) * q /\ -k \in Int
    BY <1>1, <2>1
  <2> QED BY <2>2 DEF Congruent
<1>4. ASSUME NEW a \in Int, NEW b \in Int, NEW c \in Int, Congruent(q, a, b), Congruent(q, b, c)
      PROVE  Congruent(q, a, c)
  <2>1. PICK k \in Int : a = b + k * q
    BY <1>4 DEF Congruent
  <2>2. PICK m \in Int : b = c + m * q
    BY <1>4 DEF Congruent
  <2>3. a = c + (k + m) * q /\ k + m \in Int
    BY <1>1, <2>1, <2>2
  <2> QED BY <2>3 DEF Congruent
<1>5. ASSUME NEW a \in Int, NEW b \in Int, NEW c \in Int, NEW d \in Int,
             Congruent(q, a, b), Congruent(q, c, d)
      PROVE  Congruent(q, a + c, b + d)
  <2>1. PICK k \in Int : a = b + k * q
    BY <1>5 DEF Congruent
  <2>2. PICK m \in Int : c = d + m * q
    BY <1>5 DEF Congruent
  <2>3. a + c = (b + d) + (k + m) * q /\ k + m \in Int
    BY <1>1, <2>1, <2>2
  <2> QED BY <2>3 DEF Congruent
<1>6. ASSUME NEW a \in Int, NEW b \in Int, NEW c \in Int, Congruent(q, a, b)
      PROVE  Congruent(q, c * a, c * b)
  <2>1. PICK k \in Int : a = b + k * q
    BY <1>6 DEF Congruent
  <2>2. c * a = c * b + (c * k) * q /\ c * k \in Int
    BY <1>1, <2>1
  <2> QED BY <2>2 DEF Congruent
<1> QED BY <1>2, <1>3, <1>4, <1>5, <1>6

\* Congruent remainders are equal, and congruent numbers have one remainder.
LEMMA CongruentEqual ==
  ASSUME NEW q, IsModulus(q)
  PROVE  /\ \A a, b \in 0 .. q - 1 : Congruent(q, a, b) => a = b
         /\ \A a, b \in Int : Congruent(q, a, b) => a % q = b % q
<1>1. q \in Nat /\ q >= 2
  BY DEF IsModulus
<1>2. ASSUME NEW a \in 0 .. q - 1, NEW b \in 0 .. q - 1, Congruent(q, a, b) PROVE a = b
  <2>1. PICK k \in Int : a = b + k * q
    BY <1>2 DEF Congruent
  <2>2. CASE k = 0
    BY <1>1, <2>1, <2>2
  <2>3. CASE k >= 1
    <3>1. k * q >= q
      <4>1. k * q = q + (k - 1) * q /\ (k - 1) * q >= 0
        BY <1>1, <2>3
      <4> QED BY <4>1, <1>1
    <3> QED BY <1>1, <2>1, <3>1
  <2>4. CASE k <= -1
    <3>1. k * q <= -q
      <4>1. k * q = (k + 1) * q - q /\ (k + 1) * q <= 0
        BY <1>1, <2>4
      <4> QED BY <4>1, <1>1
    <3> QED BY <1>1, <2>1, <3>1
  <2> QED BY <2>2, <2>3, <2>4
<1>3. ASSUME NEW a \in Int, NEW b \in Int, Congruent(q, a, b) PROVE a % q = b % q
  <2>1. a % q \in 0 .. q - 1 /\ b % q \in 0 .. q - 1 /\ a % q \in Int /\ b % q \in Int
    BY Remainder, <1>1
  <2>2. Congruent(q, a % q, a) /\ Congruent(q, b % q, b)
    BY Remainder
  <2>3. Congruent(q, a % q, b % q)
    BY <1>3, <2>1, <2>2, CongruenceLaws
  <2> QED BY <1>2, <2>1, <2>3
<1> QED BY <1>2, <1>3

-----------------------------------------------------------------------------
(* Polynomials.                                                            *)

Polys(q) == {f \in UNION {[D -> 1 .. q - 1] : D \in SUBSET Words} : IsFiniteSet(DOMAIN f)}

Coef(f, w) == IF w \in DOMAIN f THEN f[w] ELSE 0

ZeroPoly == <<>>

\* What a polynomial is.
LEMMA PolyIs ==
  ASSUME NEW q, NEW f
  PROVE  f \in Polys(q) <=> /\ DOMAIN f \in SUBSET Words /\ IsFiniteSet(DOMAIN f)
                            /\ f = [w \in DOMAIN f |-> f[w]]
                            /\ \A w \in DOMAIN f : f[w] \in 1 .. q - 1
BY DEF Polys

\* The zero polynomial has no terms, and is the only one without.
LEMMA ZeroIs ==
  ASSUME NEW q
  PROVE  /\ ZeroPoly \in Polys(q) /\ DOMAIN ZeroPoly = {} /\ IsZero(ZeroPoly)
         /\ \A w : Coef(ZeroPoly, w) = 0
         /\ \A f \in Polys(q) : IsZero(f) => f = ZeroPoly
<1>1. /\ DOMAIN ZeroPoly = {} /\ ZeroPoly = [w \in {} |-> 0]
      /\ ZeroPoly = [w \in DOMAIN ZeroPoly |-> ZeroPoly[w]]
  BY DEF ZeroPoly
<1>2. IsFiniteSet({})
  BY FS_EmptySet
<1>3. ZeroPoly \in Polys(q)
  BY <1>1, <1>2, PolyIs
<1>4. ASSUME NEW f \in Polys(q), IsZero(f) PROVE f = ZeroPoly
  <2>1. DOMAIN f = {} /\ f = [w \in DOMAIN f |-> f[w]]
    BY <1>4, PolyIs DEF IsZero
  <2> QED BY <1>1, <2>1
<1> QED BY <1>1, <1>3, <1>4 DEF Coef, IsZero

\* The coefficients of a polynomial determine it.
LEMMA CoefIs ==
  ASSUME NEW q, IsModulus(q), NEW f \in Polys(q)
  PROVE  /\ \A w : Coef(f, w) \in 0 .. q - 1 /\ Coef(f, w) \in Int
                   /\ (Coef(f, w) # 0 <=> w \in DOMAIN f)
         /\ \A w \in DOMAIN f : w \in Words /\ f[w] = Coef(f, w)
BY PolyIs DEF Coef, IsModulus

\* Polynomials with the same coefficients are equal.
LEMMA PolyEqual ==
  ASSUME NEW q, IsModulus(q), NEW f \in Polys(q), NEW h \in Polys(q),
         \A w \in Words : Coef(f, w) = Coef(h, w)
  PROVE  f = h
<1>1. \A w \in Words : w \in DOMAIN f <=> w \in DOMAIN h
  BY CoefIs
<1>2. /\ f = [w \in DOMAIN f |-> f[w]] /\ h = [w \in DOMAIN h |-> h[w]]
      /\ DOMAIN f \subseteq Words /\ DOMAIN h \subseteq Words
  BY PolyIs
<1>3. DOMAIN f = DOMAIN h
  BY <1>1, <1>2
<1>4. \A w \in DOMAIN f : f[w] = h[w]
  BY <1>2, <1>3 DEF Coef
<1> QED BY <1>2, <1>3, <1>4

\* Sums of polynomials, by their coefficients.
LEMMA SumOfPolys ==
  ASSUME NEW q, IsModulus(q), NEW f \in Polys(q), NEW c \in Int, NEW h \in Polys(q)
  PROVE  /\ AddScaled(q, f, c, h) \in Polys(q)
         /\ \A w \in Words : Coef(AddScaled(q, f, c, h), w) = (Coef(f, w) + c * Coef(h, w)) % q
<1> DEFINE T(w) == Coef(f, w) + c * Coef(h, w)
           D == {v \in DOMAIN f \cup DOMAIN h : T(v) % q # 0}
           s == [w \in D |-> T(w) % q]
<1>1. AddScaled(q, f, c, h) = s
  <2>1. \A w : (IF w \in DOMAIN h THEN c * h[w] ELSE 0) = c * Coef(h, w)
    BY DEF Coef
  <2>2. \A w : T(w) = (IF w \in DOMAIN f THEN f[w] ELSE 0) + (IF w \in DOMAIN h THEN c * h[w] ELSE 0)
    BY <2>1 DEF Coef
  <2> QED BY <2>2 DEF AddScaled
<1>2. /\ DOMAIN f \subseteq Words /\ DOMAIN h \subseteq Words
      /\ IsFiniteSet(DOMAIN f) /\ IsFiniteSet(DOMAIN h)
  BY PolyIs
<1>3. \A w : T(w) \in Int /\ T(w) % q \in 0 .. q - 1
  <2>1. \A w : Coef(f, w) \in Int /\ Coef(h, w) \in Int
    BY CoefIs
  <2>2. \A w : T(w) \in Int
    BY <2>1
  <2>3. \A a \in Int : a % q \in 0 .. q - 1
    BY Remainder
  <2> HIDE DEF T
  <2> QED BY <2>2, <2>3
<1>4. D \subseteq Words /\ IsFiniteSet(D)
  <2>1. IsFiniteSet(DOMAIN f \cup DOMAIN h)
    BY <1>2, FS_Union
  <2> QED BY <1>2, <2>1, FS_Subset
<1>5. DOMAIN s = D /\ \A w \in D : s[w] = T(w) % q
  OBVIOUS
<1>6. \A w \in D : s[w] \in 1 .. q - 1
  <2> HIDE DEF T
  <2>1. \A w \in D : T(w) % q \in 0 .. q - 1 /\ T(w) % q # 0
    BY <1>3
  <2> QED BY <2>1, <1>5 DEF IsModulus
<1>7. s \in Polys(q)
  <2>1. s = [w \in DOMAIN s |-> s[w]]
    BY <1>5
  <2> HIDE DEF s, D
  <2> QED BY <1>4, <1>5, <1>6, <2>1, PolyIs
<1>8. ASSUME NEW w \in Words PROVE Coef(s, w) = T(w) % q
  <2>1. CASE w \in D
    BY <1>5, <2>1 DEF Coef
  <2>2. CASE w \notin DOMAIN f \cup DOMAIN h
    <3>1. T(w) = 0 + c * 0 /\ w \notin D
      BY <2>2 DEF Coef
    <3>2. 0 % q = 0 /\ T(w) = 0
      <4>1. 0 \in 0 .. q - 1
        BY DEF IsModulus
      <4> QED BY <3>1, <4>1, Remainder
    <3> QED BY <1>5, <3>1, <3>2 DEF Coef
  <2>3. CASE w \in (DOMAIN f \cup DOMAIN h) \ D
    <3>1. T(w) % q = 0
      BY <2>3
    <3> QED BY <1>5, <2>3, <3>1 DEF Coef
  <2> QED BY <2>1, <2>2, <2>3
<1> HIDE DEF s, D
<1> QED BY <1>1, <1>7, <1>8

\* The same up to multiples of q, without remainders.
LEMMA SumCongruent ==
  ASSUME NEW q, IsModulus(q), NEW f \in Polys(q), NEW c \in Int, NEW h \in Polys(q), NEW w \in Words
  PROVE  Congruent(q, Coef(AddScaled(q, f, c, h), w), Coef(f, w) + c * Coef(h, w))
<1>1. Coef(f, w) \in Int /\ Coef(h, w) \in Int
  BY CoefIs
<1>2. Coef(f, w) + c * Coef(h, w) \in Int
  BY <1>1
<1> QED BY <1>2, SumOfPolys, Remainder

\* Polynomials with congruent coefficients are equal.
LEMMA PolyCongruent ==
  ASSUME NEW q, IsModulus(q), NEW f \in Polys(q), NEW h \in Polys(q),
         \A w \in Words : Congruent(q, Coef(f, w), Coef(h, w))
  PROVE  f = h
<1>1. \A w \in Words : Coef(f, w) = Coef(h, w)
  BY CoefIs, CongruentEqual
<1> QED BY <1>1, PolyEqual

\* The laws of sums.
LEMMA PolySumType ==
  ASSUME NEW q, IsModulus(q)
  PROVE  \A f, h \in Polys(q) : \A c \in Int : AddScaled(q, f, c, h) \in Polys(q)
<1> SUFFICES ASSUME NEW f \in Polys(q), NEW h \in Polys(q), NEW c \in Int
             PROVE  AddScaled(q, f, c, h) \in Polys(q)
  OBVIOUS
<1> QED BY SumOfPolys

\* f + c * 0 = f
LEMMA PlusZero ==
  ASSUME NEW q, IsModulus(q), NEW f \in Polys(q), NEW c \in Int
  PROVE  AddScaled(q, f, c, ZeroPoly) = f
<1>1. ZeroPoly \in Polys(q) /\ \A w : Coef(ZeroPoly, w) = 0
  BY ZeroIs
<1>2. ASSUME NEW w \in Words PROVE Congruent(q, Coef(AddScaled(q, f, c, ZeroPoly), w), Coef(f, w))
  <2>1. Coef(f, w) \in Int /\ Coef(f, w) + c * 0 = Coef(f, w)
    BY CoefIs
  <2> QED BY <1>1, <2>1, SumCongruent
<1> QED BY <1>1, <1>2, PolyCongruent, PolySumType

\* f - f = 0
LEMMA MinusItself ==
  ASSUME NEW q, IsModulus(q), NEW f \in Polys(q)
  PROVE  AddScaled(q, f, -1, f) = ZeroPoly
<1>1. ZeroPoly \in Polys(q) /\ \A w : Coef(ZeroPoly, w) = 0
  BY ZeroIs
<1>2. ASSUME NEW w \in Words PROVE Congruent(q, Coef(AddScaled(q, f, -1, f), w), Coef(ZeroPoly, w))
  <2>1. Coef(f, w) \in Int /\ Coef(f, w) + (-1) * Coef(f, w) = 0
    BY CoefIs
  <2> QED BY <1>1, <2>1, SumCongruent
<1> QED BY <1>1, <1>2, PolyCongruent, PolySumType

\* A sum of three, with what its coefficients are.
LEMMA SumOfSum ==
  ASSUME NEW q, IsModulus(q), NEW f \in Polys(q), NEW g \in Polys(q), NEW h \in Polys(q),
         NEW c \in Int, NEW d \in Int, NEW w \in Words
  PROVE  /\ Congruent(q, Coef(AddScaled(q, AddScaled(q, f, c, g), d, h), w),
                      Coef(f, w) + c * Coef(g, w) + d * Coef(h, w))
         /\ Congruent(q, Coef(AddScaled(q, f, c, AddScaled(q, g, d, h)), w),
                      Coef(f, w) + c * Coef(g, w) + (c * d) * Coef(h, w))
<1> DEFINE x == Coef(f, w)
           y == Coef(g, w)
           z == Coef(h, w)
           s == Coef(AddScaled(q, f, c, g), w)
           t == Coef(AddScaled(q, g, d, h), w)
<1>1. /\ AddScaled(q, f, c, g) \in Polys(q) /\ AddScaled(q, g, d, h) \in Polys(q)
  BY PolySumType
<1>2. x \in Int /\ y \in Int /\ z \in Int /\ s \in Int /\ t \in Int
  BY <1>1, CoefIs
<1>3. /\ Congruent(q, s, x + c * y) /\ Congruent(q, t, y + d * z)
      /\ Congruent(q, Coef(AddScaled(q, AddScaled(q, f, c, g), d, h), w), s + d * z)
      /\ Congruent(q, Coef(AddScaled(q, f, c, AddScaled(q, g, d, h)), w), x + c * t)
  BY <1>1, SumCongruent
<1>4. /\ Coef(AddScaled(q, AddScaled(q, f, c, g), d, h), w) \in Int
      /\ Coef(AddScaled(q, f, c, AddScaled(q, g, d, h)), w) \in Int
  BY <1>1, PolySumType, CoefIs
<1> HIDE DEF x, y, z, s, t
<1>5. c * y \in Int /\ d * z \in Int /\ c * t \in Int /\ c * (y + d * z) \in Int
      /\ (c * d) * z \in Int /\ x + c * y \in Int /\ y + d * z \in Int
  BY <1>2
<1>6. Congruent(q, s + d * z, x + c * y + d * z)
  BY <1>2, <1>3, <1>5, CongruenceLaws
<1>7. Congruent(q, c * t, c * (y + d * z))
  BY <1>2, <1>3, <1>5, CongruenceLaws
<1>8. Congruent(q, x + c * t, x + c * (y + d * z))
  BY <1>2, <1>7, <1>5, CongruenceLaws
<1>9. x + c * (y + d * z) = x + c * y + (c * d) * z
  BY <1>2
<1>10. s + d * z \in Int /\ x + c * y + d * z \in Int /\ x + c * t \in Int
       /\ x + c * y + (c * d) * z \in Int
  BY <1>2, <1>5
<1>11. Congruent(q, Coef(AddScaled(q, AddScaled(q, f, c, g), d, h), w), x + c * y + d * z)
  BY <1>3, <1>4, <1>6, <1>10, CongruenceLaws
<1>12. Congruent(q, Coef(AddScaled(q, f, c, AddScaled(q, g, d, h)), w), x + c * y + (c * d) * z)
  BY <1>3, <1>4, <1>8, <1>9, <1>10, CongruenceLaws
<1> QED BY <1>11, <1>12 DEF x, y, z

\* A polynomial is a sum of three when each of its coefficients is, up to multiples of q.
LEMMA EqualsSum ==
  ASSUME NEW q, IsModulus(q), NEW f \in Polys(q), NEW g \in Polys(q), NEW h \in Polys(q),
         NEW c \in Int, NEW d \in Int, NEW k \in Polys(q),
         \A w \in Words : Congruent(q, Coef(k, w), Coef(f, w) + c * Coef(g, w) + d * Coef(h, w))
  PROVE  k = AddScaled(q, AddScaled(q, f, c, g), d, h)
<1> DEFINE r == AddScaled(q, AddScaled(q, f, c, g), d, h)
<1>1. r \in Polys(q)
  BY PolySumType
<1>2. ASSUME NEW w \in Words PROVE Congruent(q, Coef(k, w), Coef(r, w))
  <2> DEFINE m == Coef(f, w) + c * Coef(g, w) + d * Coef(h, w)
  <2>1. Congruent(q, Coef(r, w), m)
    BY SumOfSum
  <2>2. Coef(f, w) \in Int /\ Coef(g, w) \in Int /\ Coef(h, w) \in Int
        /\ Coef(r, w) \in Int /\ Coef(k, w) \in Int
    BY <1>1, CoefIs
  <2>3. m \in Int
    BY <2>2
  <2>4. Congruent(q, Coef(k, w), m)
    OBVIOUS
  <2> HIDE DEF m, r
  <2> QED BY <2>1, <2>2, <2>3, <2>4, CongruenceLaws
<1> QED BY <1>1, <1>2, PolyCongruent

\* Sums may be taken in any order and in any grouping; only the multiples count.
LEMMA SumsOfPolysLaws ==
  ASSUME NEW q, IsModulus(q), NEW f \in Polys(q), NEW g \in Polys(q), NEW h \in Polys(q),
         NEW c \in Int, NEW d \in Int
  PROVE  /\ AddScaled(q, f, c, AddScaled(q, g, d, h))
              = AddScaled(q, AddScaled(q, f, c, g), c * d, h)
         /\ AddScaled(q, AddScaled(q, f, c, g), d, h) = AddScaled(q, AddScaled(q, f, d, h), c, g)
         /\ AddScaled(q, AddScaled(q, f, c, h), d, h) = AddScaled(q, f, c + d, h)
         /\ \A e \in Int : Congruent(q, c, e) => AddScaled(q, f, c, h) = AddScaled(q, f, e, h)
<1>1. /\ \A w : Coef(f, w) \in Int /\ Coef(g, w) \in Int /\ Coef(h, w) \in Int
      /\ c * d \in Int /\ c + d \in Int
  BY CoefIs
<1>2. AddScaled(q, f, c, AddScaled(q, g, d, h)) = AddScaled(q, AddScaled(q, f, c, g), c * d, h)
  <2>1. AddScaled(q, f, c, AddScaled(q, g, d, h)) \in Polys(q)
    BY PolySumType
  <2> QED BY <1>1, <2>1, SumOfSum, EqualsSum
<1>3. AddScaled(q, AddScaled(q, f, c, g), d, h) = AddScaled(q, AddScaled(q, f, d, h), c, g)
  <2>1. AddScaled(q, AddScaled(q, f, c, g), d, h) \in Polys(q)
    BY PolySumType
  <2>2. \A w : Coef(f, w) + c * Coef(g, w) + d * Coef(h, w) = Coef(f, w) + d * Coef(h, w) + c * Coef(g, w)
    BY <1>1
  <2>3. \A w \in Words : Congruent(q, Coef(AddScaled(q, AddScaled(q, f, c, g), d, h), w),
                                   Coef(f, w) + d * Coef(h, w) + c * Coef(g, w))
    BY <2>2, SumOfSum
  <2> QED BY <2>1, <2>3, EqualsSum
<1>4. AddScaled(q, AddScaled(q, f, c, h), d, h) = AddScaled(q, f, c + d, h)
  <2>1. AddScaled(q, AddScaled(q, f, c, h), d, h) \in Polys(q) /\ AddScaled(q, f, c + d, h) \in Polys(q)
    BY <1>1, PolySumType
  <2>2. \A w : Coef(f, w) + (c + d) * Coef(h, w) = Coef(f, w) + c * Coef(h, w) + d * Coef(h, w)
    BY <1>1
  <2>3. \A w \in Words : Congruent(q, Coef(AddScaled(q, f, c + d, h), w),
                                   Coef(f, w) + c * Coef(h, w) + d * Coef(h, w))
    BY <1>1, <2>2, SumCongruent
  <2> QED BY <2>1, <2>3, EqualsSum
<1>5. ASSUME NEW e \in Int, Congruent(q, c, e) PROVE AddScaled(q, f, c, h) = AddScaled(q, f, e, h)
  <2>1. ASSUME NEW w \in Words
        PROVE  Congruent(q, Coef(AddScaled(q, f, c, h), w), Coef(AddScaled(q, f, e, h), w))
    <3> DEFINE x == Coef(f, w)
               z == Coef(h, w)
               s == Coef(AddScaled(q, f, c, h), w)
               t == Coef(AddScaled(q, f, e, h), w)
    <3>1. Congruent(q, s, x + c * z) /\ Congruent(q, t, x + e * z)
      BY SumCongruent
    <3>2. x \in Int /\ z \in Int /\ s \in Int /\ t \in Int
      BY PolySumType, CoefIs
    <3> HIDE DEF x, z, s, t
    <3>3. Congruent(q, z * c, z * e)
      BY <1>5, <3>2, CongruenceLaws
    <3>4. z * c = c * z /\ z * e = e * z /\ c * z \in Int /\ e * z \in Int
          /\ x + c * z \in Int /\ x + e * z \in Int
      BY <3>2
    <3>5. Congruent(q, x + c * z, x + e * z)
      BY <3>2, <3>3, <3>4, CongruenceLaws
    <3>6. Congruent(q, s, x + e * z)
      BY <3>1, <3>2, <3>4, <3>5, CongruenceLaws
    <3>7. Congruent(q, s, t)
      BY <3>1, <3>2, <3>4, <3>6, CongruenceLaws
    <3> QED BY <3>7 DEF s, t
  <2> QED BY <2>1, PolySumType, PolyCongruent
<1> QED BY <1>2, <1>3, <1>4, <1>5

-----------------------------------------------------------------------------
(* Multiples by words.                                                     *)

Cat(a, b) == a \o b

Put(l, u, r) == l \o u \o r

EmptyWord == <<>>

\* Words between words.
LEMMA CatType == \A a, b \in Words : Cat(a, b) \in Words
BY WordConcat DEF Cat

\* The laws of words again, for the opaque Cat that the provers see.
LEMMA CatAssociates == \A a, b, c \in Words : Cat(Cat(a, b), c) = Cat(a, Cat(b, c))
BY CatAssoc DEF Cat

\* A common beginning and a common end of Cat cancel.
LEMMA CatCancels ==
  /\ \A a, b, c \in Words : Cat(a, b) = Cat(a, c) => b = c
  /\ \A a, b, c \in Words : Cat(b, a) = Cat(c, a) => b = c
BY CatCancel DEF Cat

\* The empty word is neutral for Cat.
LEMMA CatWithEmpty == EmptyWord \in Words /\ \A a \in Words : Cat(a, EmptyWord) = a /\ Cat(EmptyWord, a) = a
BY CatEmpty DEF Cat, EmptyWord

\* Put is two concatenations, from the left.
LEMMA PutIsCat == \A l, u, r \in Words : Put(l, u, r) = Cat(Cat(l, u), r)
BY DEF Put, Cat

\* Words put between words are words.
LEMMA PutType == \A l, u, r \in Words : Put(l, u, r) \in Words
BY PutIsCat, CatType

\* Put is two concatenations, from the right.
LEMMA PutCat == \A l, u, r \in Words : Put(l, u, r) = Cat(l, Cat(u, r))
BY PutIsCat, CatAssociates

\* What is put between two words is determined by the result.
LEMMA PutCancels == \A l, u, v, r \in Words : Put(l, u, r) = Put(l, v, r) => u = v
BY PutIsCat, CatType, CatCancels

\* Nothing put around a word leaves it.
LEMMA PutEmpty == \A u \in Words : Put(EmptyWord, u, EmptyWord) = u
BY PutIsCat, CatWithEmpty

\* Put twice is put once between longer words.
LEMMA PutNested ==
  ASSUME NEW l \in Words, NEW a \in Words, NEW u \in Words, NEW b \in Words, NEW r \in Words
  PROVE  Put(l, Put(a, u, b), r) = Put(Cat(l, a), u, Cat(b, r))
<1>1. Put(a, u, b) = Cat(a, Cat(u, b)) /\ Cat(a, u) \in Words /\ Cat(l, a) \in Words
      /\ Cat(u, b) \in Words /\ Cat(b, r) \in Words /\ Put(a, u, b) \in Words
  BY PutCat, CatType, PutType
<1>2. Put(l, Put(a, u, b), r) = Cat(Cat(l, Cat(a, Cat(u, b))), r)
  BY <1>1, PutIsCat
<1>3. Cat(l, Cat(a, Cat(u, b))) = Cat(Cat(l, a), Cat(u, b))
  BY <1>1, CatAssociates
<1>4. Cat(Cat(l, a), Cat(u, b)) = Cat(Cat(Cat(l, a), u), b)
  BY <1>1, CatAssociates
<1>5. Cat(Cat(Cat(Cat(l, a), u), b), r) = Cat(Cat(Cat(l, a), u), Cat(b, r))
  BY <1>1, CatType, CatAssociates
<1>6. Put(Cat(l, a), u, Cat(b, r)) = Cat(Cat(Cat(l, a), u), Cat(b, r))
  BY <1>1, PutIsCat
<1> QED BY <1>2, <1>3, <1>4, <1>5, <1>6

\* The same for all words at once.
LEMMA PutNest ==
  \A l, a, u, b, r \in Words : Put(l, Put(a, u, b), r) = Put(Cat(l, a), u, Cat(b, r))
BY PutNested

\* The order of words is kept by what is put around them (deglex is a monomial order).
LEMMA PutOrder == \A l, u, v, r \in Words : WordLess(u, v) => WordLess(Put(l, u, r), Put(l, v, r))
BY WordLessBetween DEF Put

\* The middle of a word.
LEMMA PutMiddle ==
  ASSUME NEW l \in Words, NEW r \in Words, NEW u \in Words
  PROVE  SubSeq(Put(l, u, r), Len(l) + 1, Len(Put(l, u, r)) - Len(r)) = u
<1> DEFINE w == Put(l, u, r)
<1>1. l \o u \in Words /\ w \in Words
  BY CatWord DEF Put
<1>2. Len(w) = Len(l) + Len(u) + Len(r) /\ Len(l) \in Nat /\ Len(u) \in Nat /\ Len(r) \in Nat
  BY <1>1, CatLen DEF Put
<1>3. Len(l) \in Occurrences(w, u)
  BY <1>1, OccurrenceCut DEF Put
<1>4. SubSeq(w, Len(l) + 1, Len(l) + Len(u)) = u
  BY <1>3 DEF Occurrences
<1>5. Len(w) - Len(r) = Len(l) + Len(u)
  BY <1>2
<1> QED BY <1>4, <1>5

\* A multiple of a polynomial by words, by its coefficients.
LEMMA BetweenIs ==
  ASSUME NEW q, IsModulus(q), NEW f \in Polys(q), NEW l \in Words, NEW r \in Words
  PROVE  /\ Between(l, f, r) \in Polys(q)
         /\ \A w : w \in DOMAIN Between(l, f, r) <=> \E u \in DOMAIN f : w = Put(l, u, r)
         /\ \A u \in Words : Coef(Between(l, f, r), Put(l, u, r)) = Coef(f, u)
         /\ \A w \in Words : (\A u \in Words : w # Put(l, u, r)) => Coef(Between(l, f, r), w) = 0
<1> DEFINE D == {Put(l, u, r) : u \in DOMAIN f}
           b == [w \in D |-> f[SubSeq(w, Len(l) + 1, Len(w) - Len(r))]]
<1>1. Between(l, f, r) = b
  BY DEF Between, Put
<1>2. DOMAIN f \in SUBSET Words /\ IsFiniteSet(DOMAIN f) /\ \A w \in DOMAIN f : f[w] \in 1 .. q - 1
  BY PolyIs
<1>3. \A u \in DOMAIN f : Put(l, u, r) \in Words /\ b[Put(l, u, r)] = f[u]
  BY <1>2, PutType, PutMiddle, PutCancels
<1>4. D \in SUBSET Words
  BY <1>3
<1>5. IsFiniteSet(D)
  <2> DEFINE m == [u \in DOMAIN f |-> Put(l, u, r)]
  <2>1. m \in Surjection(DOMAIN f, D)
    BY DEF Surjection
  <2> QED BY <1>2, <2>1, FS_Surjection
<1>6. b \in Polys(q)
  <2>1. DOMAIN b = D /\ b = [w \in DOMAIN b |-> b[w]]
    OBVIOUS
  <2>2. \A w \in D : b[w] \in 1 .. q - 1
    BY <1>2, <1>3
  <2> HIDE DEF b, D
  <2> QED BY <1>4, <1>5, <2>1, <2>2, PolyIs
<1>7. ASSUME NEW u \in Words PROVE Coef(b, Put(l, u, r)) = Coef(f, u)
  <2>1. CASE u \in DOMAIN f
    BY <1>3, <2>1 DEF Coef
  <2>2. CASE u \notin DOMAIN f
    <3>1. Put(l, u, r) \notin D
      BY <1>2, <2>2, PutType, PutMiddle, PutCancels
    <3> QED BY <2>2, <3>1 DEF Coef
  <2> QED BY <2>1, <2>2
<1>8. ASSUME NEW w \in Words, \A u \in Words : w # Put(l, u, r) PROVE Coef(b, w) = 0
  <2>1. w \notin D
    BY <1>2, <1>8
  <2> QED BY <2>1 DEF Coef
<1>9. \A w : w \in DOMAIN b <=> \E u \in DOMAIN f : w = Put(l, u, r)
  OBVIOUS
<1> HIDE DEF b, D
<1> QED BY <1>1, <1>6, <1>7, <1>8, <1>9

\* A multiple by words of a polynomial is a polynomial.
LEMMA BetweenType ==
  ASSUME NEW q, IsModulus(q)
  PROVE  \A f \in Polys(q) : \A l, r \in Words : Between(l, f, r) \in Polys(q)
BY BetweenIs

\* The words of a multiple.
LEMMA BetweenDomain ==
  ASSUME NEW q, IsModulus(q), NEW f \in Polys(q), NEW l \in Words, NEW r \in Words
  PROVE  \A w : w \in DOMAIN Between(l, f, r) <=> \E u \in DOMAIN f : w = Put(l, u, r)
<1>1. f \in Polys(q)
  OBVIOUS
<1> QED BY <1>1, BetweenIs

\* The coefficient of a word of a multiple.
LEMMA BetweenCoef ==
  ASSUME NEW q, IsModulus(q), NEW f \in Polys(q), NEW l \in Words, NEW r \in Words, NEW u \in Words
  PROVE  Coef(Between(l, f, r), Put(l, u, r)) = Coef(f, u)
BY BetweenIs

\* Other words have no coefficient in a multiple.
LEMMA BetweenElse ==
  ASSUME NEW q, IsModulus(q), NEW f \in Polys(q), NEW l \in Words, NEW r \in Words, NEW w \in Words,
         \A u \in Words : w # Put(l, u, r)
  PROVE  Coef(Between(l, f, r), w) = 0
BY BetweenIs

\* Multiples of sums.
LEMMA BetweenSum ==
  ASSUME NEW q, IsModulus(q), NEW f \in Polys(q), NEW c \in Int, NEW h \in Polys(q),
         NEW l \in Words, NEW r \in Words
  PROVE  Between(l, AddScaled(q, f, c, h), r) = AddScaled(q, Between(l, f, r), c, Between(l, h, r))
<1> DEFINE s == AddScaled(q, f, c, h)
           x == Between(l, s, r)
           y == AddScaled(q, Between(l, f, r), c, Between(l, h, r))
<1>1. s \in Polys(q) /\ Between(l, f, r) \in Polys(q) /\ Between(l, h, r) \in Polys(q)
  BY PolySumType, BetweenIs
<1>2. x \in Polys(q) /\ y \in Polys(q)
  BY <1>1, PolySumType, BetweenIs
<1>3. ASSUME NEW w \in Words PROVE Coef(x, w) = Coef(y, w)
  <2>1. Coef(y, w) = (Coef(Between(l, f, r), w) + c * Coef(Between(l, h, r), w)) % q
    BY <1>1, SumOfPolys
  <2>2. CASE \E u \in Words : w = Put(l, u, r)
    <3>1. PICK u \in Words : w = Put(l, u, r)
      BY <2>2
    <3>2. Coef(x, w) = Coef(s, u) /\ Coef(Between(l, f, r), w) = Coef(f, u)
          /\ Coef(Between(l, h, r), w) = Coef(h, u)
      BY <1>1, <3>1, BetweenIs
    <3>3. Coef(s, u) = (Coef(f, u) + c * Coef(h, u)) % q
      BY SumOfPolys
    <3> QED BY <2>1, <3>2, <3>3
  <2>3. CASE \A u \in Words : w # Put(l, u, r)
    <3>1. Coef(x, w) = 0 /\ Coef(Between(l, f, r), w) = 0 /\ Coef(Between(l, h, r), w) = 0
      BY <1>1, <2>3, BetweenIs
    <3>2. 0 + c * 0 = 0 /\ 0 % q = 0
      <4>1. 0 \in 0 .. q - 1
        BY DEF IsModulus
      <4> QED BY <4>1, Remainder
    <3> QED BY <2>1, <3>1, <3>2
  <2> QED BY <2>2, <2>3
<1> HIDE DEF x, y
<1>4. x = y
  BY <1>2, <1>3, PolyEqual
<1> QED BY <1>4 DEF x, y

\* Multiples of multiples, of nothing, and by nothing.
LEMMA BetweenBetween ==
  ASSUME NEW q, IsModulus(q), NEW f \in Polys(q), NEW l \in Words, NEW a \in Words,
         NEW b \in Words, NEW r \in Words
  PROVE  Between(l, Between(a, f, b), r) = Between(Cat(l, a), f, Cat(b, r))
<1> DEFINE x == Between(l, Between(a, f, b), r)
           y == Between(Cat(l, a), f, Cat(b, r))
<1>1. Cat(l, a) \in Words /\ Cat(b, r) \in Words
  BY CatType
<1>2. Between(a, f, b) \in Polys(q) /\ y \in Polys(q)
  BY <1>1, BetweenIs
<1>3. x \in Polys(q)
  BY <1>2, BetweenIs
<1>4. ASSUME NEW w \in Words PROVE Coef(x, w) = Coef(y, w)
  <2>1. CASE \E u \in Words : w = Put(Cat(l, a), u, Cat(b, r))
    <3>1. PICK u \in Words : w = Put(Cat(l, a), u, Cat(b, r))
      BY <2>1
    <3>2. Coef(y, w) = Coef(f, u)
      BY <1>1, <3>1, BetweenIs
    <3>3. w = Put(l, Put(a, u, b), r)
      BY <3>1, PutNest
    <3>6. Put(a, u, b) \in Words
      BY PutType
    <3>4. Coef(x, w) = Coef(Between(a, f, b), Put(a, u, b))
      BY <1>2, <3>3, <3>6, BetweenIs
    <3>5. Coef(Between(a, f, b), Put(a, u, b)) = Coef(f, u)
      BY BetweenIs
    <3> QED BY <3>2, <3>4, <3>5
  <2>2. CASE \A u \in Words : w # Put(Cat(l, a), u, Cat(b, r))
    <3>1. Coef(y, w) = 0
      BY <1>1, <2>2, BetweenElse
    <3>2. CASE \A v \in Words : w # Put(l, v, r)
      BY <1>2, <3>1, <3>2, BetweenElse
    <3>3. CASE \E v \in Words : w = Put(l, v, r)
      <4>1. PICK v \in Words : w = Put(l, v, r)
        BY <3>3
      <4>2. Coef(x, w) = Coef(Between(a, f, b), v)
        BY <1>2, <4>1, BetweenIs
      <4>3. \A u \in Words : v # Put(a, u, b)
        BY <2>2, <4>1, PutNest
      <4>4. Coef(Between(a, f, b), v) = 0
        BY <4>3, BetweenElse
      <4> QED BY <3>1, <4>2, <4>4
    <3> QED BY <3>2, <3>3
  <2> QED BY <2>1, <2>2
<1> HIDE DEF x, y
<1>5. x = y
  BY <1>2, <1>3, <1>4, PolyEqual
<1> QED BY <1>5 DEF x, y

\* The multiples of zero, and by empty words.
LEMMA BetweenNothing ==
  ASSUME NEW q, IsModulus(q)
  PROVE  /\ \A l, r \in Words : Between(l, ZeroPoly, r) = ZeroPoly
         /\ \A f \in Polys(q) : Between(EmptyWord, f, EmptyWord) = f
<1>1. ASSUME NEW l \in Words, NEW r \in Words PROVE Between(l, ZeroPoly, r) = ZeroPoly
  <2>1. ZeroPoly \in Polys(q) /\ DOMAIN ZeroPoly = {}
    BY ZeroIs
  <2>2. DOMAIN Between(l, ZeroPoly, r) = {} /\ Between(l, ZeroPoly, r) \in Polys(q)
    BY <2>1, BetweenIs
  <2> QED BY <2>2, ZeroIs DEF IsZero
<1>2. ASSUME NEW f \in Polys(q) PROVE Between(EmptyWord, f, EmptyWord) = f
  <2>1. EmptyWord \in Words /\ \A w \in Words : Put(EmptyWord, w, EmptyWord) = w
    BY PutEmpty, CatWithEmpty
  <2>2. Between(EmptyWord, f, EmptyWord) \in Polys(q)
        /\ \A w \in Words : Coef(Between(EmptyWord, f, EmptyWord), Put(EmptyWord, w, EmptyWord)) = Coef(f, w)
    BY <2>1, BetweenIs
  <2> QED BY <2>1, <2>2, PolyEqual
<1> QED BY <1>1, <1>2

\* The letters of two words one after the other.
LEMMA CatIndex ==
  ASSUME NEW a \in Words, NEW b \in Words
  PROVE  /\ Cat(a, b) \in Words /\ Len(a) \in Nat /\ Len(b) \in Nat
         /\ Len(Cat(a, b)) = Len(a) + Len(b)
         /\ DOMAIN a = 1 .. Len(a) /\ DOMAIN b = 1 .. Len(b)
         /\ DOMAIN Cat(a, b) = 1 .. Len(a) + Len(b)
         /\ \A i \in 1 .. Len(a) : Cat(a, b)[i] = a[i]
         /\ \A i \in 1 .. Len(b) : Cat(a, b)[Len(a) + i] = b[i]
         /\ (a = EmptyWord <=> Len(a) = 0) /\ (b = EmptyWord <=> Len(b) = 0)
<1>1. /\ a \in Seq(Nat) /\ b \in Seq(Nat)
  BY DEF Words
<1>2. /\ a \o b \in Seq(Nat) /\ Len(a) \in Nat /\ Len(b) \in Nat /\ Len(a \o b) = Len(a) + Len(b)
      /\ DOMAIN a = 1 .. Len(a) /\ DOMAIN b = 1 .. Len(b) /\ DOMAIN (a \o b) = 1 .. Len(a) + Len(b)
  BY <1>1
<1>3. /\ \A i \in 1 .. Len(a) : (a \o b)[i] = a[i]
      /\ \A i \in 1 .. Len(b) : (a \o b)[Len(a) + i] = b[i]
  BY <1>1
<1>4. (a = <<>> <=> Len(a) = 0) /\ (b = <<>> <=> Len(b) = 0)
  BY <1>1
<1> QED BY <1>2, <1>3, <1>4 DEF Cat, EmptyWord, Words

-----------------------------------------------------------------------------
(* Leading words.                                                          *)

LeadOf(f) == Largest(DOMAIN f)

\* The leading word of a polynomial, and of its multiples by words.
LEMMA LeadIs ==
  ASSUME NEW q, IsModulus(q), NEW f \in Polys(q), f # ZeroPoly
  PROVE  /\ LeadOf(f) \in DOMAIN f /\ LeadOf(f) \in Words
         /\ \A u \in DOMAIN f : u # LeadOf(f) => WordLess(u, LeadOf(f))
         /\ f[LeadOf(f)] \in 1 .. q - 1 /\ Coef(f, LeadOf(f)) = f[LeadOf(f)]
<1>1. DOMAIN f \in SUBSET Words /\ IsFiniteSet(DOMAIN f) /\ \A w \in DOMAIN f : f[w] \in 1 .. q - 1
  BY PolyIs
<1>2. DOMAIN f # {}
  BY ZeroIs DEF IsZero
<1> QED BY <1>1, <1>2, LargestIs DEF LeadOf, Coef

\* The word above all others of a polynomial is its leading word.
LEMMA LeadIsUnique ==
  ASSUME NEW q, IsModulus(q), NEW f \in Polys(q), NEW w \in DOMAIN f,
         \A u \in DOMAIN f : u # w => WordLess(u, w)
  PROVE  LeadOf(f) = w
<1>1. DOMAIN f \in SUBSET Words /\ IsFiniteSet(DOMAIN f)
  BY PolyIs
<1> QED BY <1>1, LargestUnique DEF LeadOf

\* The leading word of a multiple is that of the polynomial between the words.
LEMMA LeadOfBetween ==
  ASSUME NEW q, IsModulus(q), NEW f \in Polys(q), f # ZeroPoly, NEW l \in Words, NEW r \in Words
  PROVE  /\ LeadOf(Between(l, f, r)) = Put(l, LeadOf(f), r)
         /\ Put(l, LeadOf(f), r) \in DOMAIN Between(l, f, r)
         /\ \A w \in DOMAIN Between(l, f, r) : w # Put(l, LeadOf(f), r) => WordLess(w, Put(l, LeadOf(f), r))
<1>1. Between(l, f, r) \in Polys(q)
      /\ \A w : w \in DOMAIN Between(l, f, r) <=> \E u \in DOMAIN f : w = Put(l, u, r)
  BY BetweenIs
<1>2. LeadOf(f) \in DOMAIN f /\ \A u \in DOMAIN f : u # LeadOf(f) => WordLess(u, LeadOf(f))
  BY LeadIs
<1>3. DOMAIN f \subseteq Words
  BY PolyIs
<1>4. ASSUME NEW w \in DOMAIN Between(l, f, r), w # Put(l, LeadOf(f), r)
      PROVE  WordLess(w, Put(l, LeadOf(f), r))
  <2>1. PICK u \in DOMAIN f : w = Put(l, u, r)
    BY <1>1
  <2>2. u # LeadOf(f)
    BY <1>4, <2>1
  <2> QED BY <1>2, <1>3, <2>1, <2>2, PutOrder
<1>5. Put(l, LeadOf(f), r) \in DOMAIN Between(l, f, r)
  BY <1>1, <1>2
<1> QED BY <1>1, <1>4, <1>5, LeadIsUnique

-----------------------------------------------------------------------------
(* Spaces of polynomials.                                                  *)

IsSpace(q, V) ==
  V \subseteq Polys(q) /\ ZeroPoly \in V /\ \A f, h \in V : \A c \in Int : AddScaled(q, f, c, h) \in V

Span(q, S) == {f \in Polys(q) : \A V \in SUBSET Polys(q) : IsSpace(q, V) /\ S \subseteq V => f \in V}

\* The least space that has a set of polynomials.
LEMMA SpanIs ==
  ASSUME NEW q, IsModulus(q), NEW S \in SUBSET Polys(q)
  PROVE  IsSpace(q, Span(q, S)) /\ S \subseteq Span(q, S)
<1>1. \A f, h \in Polys(q) : \A c \in Int : AddScaled(q, f, c, h) \in Polys(q)
  BY PolySumType
<1>2. ZeroPoly \in Span(q, S)
  BY ZeroIs DEF Span, IsSpace
<1>3. ASSUME NEW f \in Span(q, S), NEW h \in Span(q, S), NEW c \in Int
      PROVE  AddScaled(q, f, c, h) \in Span(q, S)
  <2>1. f \in Polys(q) /\ h \in Polys(q)
    BY DEF Span
  <2>2. ASSUME NEW V \in SUBSET Polys(q), IsSpace(q, V), S \subseteq V
        PROVE  AddScaled(q, f, c, h) \in V
    <3>1. f \in V /\ h \in V
      BY <2>2 DEF Span
    <3> QED BY <2>2, <3>1 DEF IsSpace
  <2> QED BY <1>1, <2>1, <2>2 DEF Span
<1> QED BY <1>2, <1>3 DEF IsSpace, Span

\* A span is in every space that has its generators.
LEMMA SpanIsLeast ==
  ASSUME NEW q, NEW S, NEW V, IsSpace(q, V), S \subseteq V
  PROVE  Span(q, S) \subseteq V
BY DEF Span, IsSpace

\* A space is closed under sums with a factor.
LEMMA SpaceSum == \A q, V : IsSpace(q, V) => \A f, h \in V : \A c \in Int : AddScaled(q, f, c, h) \in V
BY DEF IsSpace

\* f and h differ by an element of V
SameModulo(q, V, f, h) == AddScaled(q, f, -1, h) \in V

\* Small combinations.
LEMMA ZeroTimes ==
  ASSUME NEW q, IsModulus(q), NEW f \in Polys(q), NEW h \in Polys(q)
  PROVE  AddScaled(q, f, 0, h) = f
<1>1. AddScaled(q, f, 0, h) \in Polys(q)
  BY PolySumType
<1>2. ASSUME NEW w \in Words PROVE Congruent(q, Coef(AddScaled(q, f, 0, h), w), Coef(f, w))
  <2>1. Congruent(q, Coef(AddScaled(q, f, 0, h), w), Coef(f, w) + 0 * Coef(h, w))
    BY SumCongruent
  <2>2. Coef(f, w) + 0 * Coef(h, w) = Coef(f, w)
    BY CoefIs
  <2> QED BY <2>1, <2>2
<1> QED BY <1>1, <1>2, PolyCongruent

\* The negative of a difference.
LEMMA MinusMinus ==
  ASSUME NEW q, IsModulus(q), NEW f \in Polys(q), NEW h \in Polys(q)
  PROVE  AddScaled(q, ZeroPoly, -1, AddScaled(q, f, -1, h)) = AddScaled(q, h, -1, f)
<1> DEFINE x == AddScaled(q, ZeroPoly, -1, AddScaled(q, f, -1, h))
<1>1. ZeroPoly \in Polys(q) /\ \A w : Coef(ZeroPoly, w) = 0
  BY ZeroIs
<1>2. x \in Polys(q) /\ AddScaled(q, h, -1, f) \in Polys(q)
  BY <1>1, PolySumType
<1>3. ASSUME NEW w \in Words PROVE Congruent(q, Coef(x, w), Coef(AddScaled(q, h, -1, f), w))
  <2>1. Congruent(q, Coef(x, w), Coef(ZeroPoly, w) + (-1) * Coef(f, w) + ((-1) * (-1)) * Coef(h, w))
    BY <1>1, SumOfSum
  <2>2. Congruent(q, Coef(AddScaled(q, h, -1, f), w), Coef(h, w) + (-1) * Coef(f, w))
    BY SumCongruent
  <2>3. Coef(f, w) \in Int /\ Coef(h, w) \in Int
    BY CoefIs
  <2>4. Coef(ZeroPoly, w) + (-1) * Coef(f, w) + ((-1) * (-1)) * Coef(h, w) = Coef(h, w) + (-1) * Coef(f, w)
        /\ Coef(h, w) + (-1) * Coef(f, w) \in Int
    BY <1>1, <2>3
  <2>5. Coef(x, w) \in Int /\ Coef(AddScaled(q, h, -1, f), w) \in Int
    BY <1>2, CoefIs
  <2> HIDE DEF x
  <2> QED BY <2>1, <2>2, <2>4, <2>5, CongruenceLaws
<1> HIDE DEF x
<1>4. x = AddScaled(q, h, -1, f)
  BY <1>2, <1>3, PolyCongruent
<1> QED BY <1>4 DEF x

\* What is added and taken away again.
LEMMA AndBack ==
  ASSUME NEW q, IsModulus(q), NEW f \in Polys(q), NEW h \in Polys(q), NEW c \in Int, NEW d \in Int,
         c + d = 0
  PROVE  AddScaled(q, AddScaled(q, f, c, h), d, h) = f
<1>1. AddScaled(q, AddScaled(q, f, c, h), d, h) = AddScaled(q, f, c + d, h)
  BY SumsOfPolysLaws
<1> QED BY <1>1, ZeroTimes

\* Two differences with a common middle.
LEMMA DifferenceOfThree ==
  ASSUME NEW q, IsModulus(q), NEW f \in Polys(q), NEW g \in Polys(q), NEW h \in Polys(q)
  PROVE  AddScaled(q, AddScaled(q, f, -1, g), 1, AddScaled(q, g, -1, h)) = AddScaled(q, f, -1, h)
<1> DEFINE y == AddScaled(q, f, -1, g)
<1>1. y \in Polys(q)
  BY PolySumType
<1>2. AddScaled(q, y, 1, AddScaled(q, g, -1, h)) = AddScaled(q, AddScaled(q, y, 1, g), 1 * (-1), h)
  BY <1>1, SumsOfPolysLaws
<1>3. AddScaled(q, y, 1, g) = f
  BY AndBack
<1> QED BY <1>2, <1>3

\* c times f - g added to h - k
LEMMA DifferenceOfSums ==
  ASSUME NEW q, IsModulus(q), NEW f \in Polys(q), NEW g \in Polys(q), NEW h \in Polys(q),
         NEW k \in Polys(q), NEW c \in Int
  PROVE  AddScaled(q, AddScaled(q, h, c, f), -1, AddScaled(q, k, c, g))
           = AddScaled(q, AddScaled(q, h, -1, k), c, AddScaled(q, f, -1, g))
<1>1. \A x, y \in Polys(q) : \A d \in Int : AddScaled(q, x, d, y) \in Polys(q)
  BY PolySumType
<1> DEFINE hf == AddScaled(q, h, c, f)
           hk == AddScaled(q, h, -1, k)
<1>2. hf \in Polys(q) /\ hk \in Polys(q) /\ c * (-1) = (-1) * c /\ c * (-1) \in Int
  BY <1>1
<1>3. AddScaled(q, hf, -1, AddScaled(q, k, c, g)) = AddScaled(q, AddScaled(q, hf, -1, k), (-1) * c, g)
  BY <1>2, SumsOfPolysLaws
<1>4. AddScaled(q, hf, -1, k) = AddScaled(q, hk, c, f)
  BY SumsOfPolysLaws
<1>5. AddScaled(q, hk, c, AddScaled(q, f, -1, g)) = AddScaled(q, AddScaled(q, hk, c, f), c * (-1), g)
  BY <1>2, SumsOfPolysLaws
<1> QED BY <1>2, <1>3, <1>4, <1>5

\* Sums of sums may be taken the other way.
LEMMA Interchange ==
  ASSUME NEW q, IsModulus(q), NEW f \in Polys(q), NEW g \in Polys(q), NEW h \in Polys(q),
         NEW k \in Polys(q), NEW c \in Int, NEW d \in Int
  PROVE  AddScaled(q, AddScaled(q, f, d, g), c, AddScaled(q, h, d, k))
           = AddScaled(q, AddScaled(q, f, c, h), d, AddScaled(q, g, c, k))
<1> DEFINE fg == AddScaled(q, f, d, g)
           fh == AddScaled(q, f, c, h)
<1>1. fg \in Polys(q) /\ fh \in Polys(q) /\ c * d = d * c /\ c * d \in Int
  BY PolySumType
<1>2. AddScaled(q, fg, c, AddScaled(q, h, d, k)) = AddScaled(q, AddScaled(q, fg, c, h), c * d, k)
  BY <1>1, SumsOfPolysLaws
<1>3. AddScaled(q, fg, c, h) = AddScaled(q, fh, d, g)
  BY SumsOfPolysLaws
<1>4. AddScaled(q, fh, d, AddScaled(q, g, c, k)) = AddScaled(q, AddScaled(q, fh, d, g), d * c, k)
  BY <1>1, SumsOfPolysLaws
<1> QED BY <1>1, <1>2, <1>3, <1>4

\* Differences in a space: an equivalence that sums keep.
LEMMA SameIsEquivalence ==
  ASSUME NEW q, IsModulus(q), NEW V, IsSpace(q, V)
  PROVE  /\ \A f \in Polys(q) : SameModulo(q, V, f, f)
         /\ \A f, h \in Polys(q) : SameModulo(q, V, f, h) => SameModulo(q, V, h, f)
         /\ \A f, g, h \in Polys(q) : SameModulo(q, V, f, g) /\ SameModulo(q, V, g, h) => SameModulo(q, V, f, h)
<1>1. ZeroPoly \in V /\ \A f, h \in V : \A c \in Int : AddScaled(q, f, c, h) \in V
  BY DEF IsSpace
<1>2. ASSUME NEW f \in Polys(q) PROVE SameModulo(q, V, f, f)
  BY <1>1, MinusItself DEF SameModulo
<1>3. ASSUME NEW f \in Polys(q), NEW h \in Polys(q), SameModulo(q, V, f, h) PROVE SameModulo(q, V, h, f)
  <2>1. AddScaled(q, ZeroPoly, -1, AddScaled(q, f, -1, h)) \in V
    BY <1>1, <1>3 DEF SameModulo
  <2> QED BY <2>1, MinusMinus DEF SameModulo
<1>4. ASSUME NEW f \in Polys(q), NEW g \in Polys(q), NEW h \in Polys(q),
             SameModulo(q, V, f, g), SameModulo(q, V, g, h)
      PROVE  SameModulo(q, V, f, h)
  <2>1. AddScaled(q, AddScaled(q, f, -1, g), 1, AddScaled(q, g, -1, h)) \in V
    BY <1>1, <1>4 DEF SameModulo
  <2> QED BY <2>1, DifferenceOfThree DEF SameModulo
<1> QED BY <1>2, <1>3, <1>4

\* Modulo a space its elements are zero, and adding one changes nothing.
LEMMA SameInSpace ==
  ASSUME NEW q, IsModulus(q), NEW V, IsSpace(q, V), NEW f \in Polys(q), NEW h \in V
  PROVE  /\ SameModulo(q, V, f, h) <=> f \in V
         /\ \A c \in Int : SameModulo(q, V, AddScaled(q, f, c, h), f)
<1>1. h \in Polys(q) /\ ZeroPoly \in V /\ \A x, y \in V : \A c \in Int : AddScaled(q, x, c, y) \in V
  BY DEF IsSpace
<1>2. ASSUME SameModulo(q, V, f, h) PROVE f \in V
  <2>1. AddScaled(q, AddScaled(q, f, -1, h), 1, h) \in V
    BY <1>1, <1>2 DEF SameModulo
  <2> QED BY <1>1, <2>1, AndBack
<1>3. ASSUME f \in V PROVE SameModulo(q, V, f, h)
  BY <1>1, <1>3 DEF SameModulo
<1>4. ASSUME NEW c \in Int PROVE SameModulo(q, V, AddScaled(q, f, c, h), f)
  <2>1. AddScaled(q, AddScaled(q, f, c, h), -1, f) = AddScaled(q, AddScaled(q, f, -1, f), c, h)
    BY <1>1, SumsOfPolysLaws
  <2>2. AddScaled(q, f, -1, f) = ZeroPoly
    BY MinusItself
  <2> QED BY <1>1, <2>1, <2>2 DEF SameModulo
<1> QED BY <1>2, <1>3, <1>4

\* A space contains a polynomial if it contains its words.
Mono(u) == [w \in {u} |-> 1]

\* A word as a polynomial.
LEMMA MonoIs ==
  ASSUME NEW q, IsModulus(q), NEW u \in Words
  PROVE  /\ Mono(u) \in Polys(q) /\ DOMAIN Mono(u) = {u} /\ Coef(Mono(u), u) = 1
         /\ \A w : w # u => Coef(Mono(u), w) = 0
         /\ Mono(u) # ZeroPoly /\ LeadOf(Mono(u)) = u
<1>1. DOMAIN Mono(u) = {u} /\ Mono(u)[u] = 1 /\ Mono(u) = [w \in DOMAIN Mono(u) |-> Mono(u)[w]]
  BY DEF Mono
<1>2. IsFiniteSet({u}) /\ 1 \in 1 .. q - 1
  BY FS_Singleton DEF IsModulus
<1>3. Mono(u) \in Polys(q)
  BY <1>1, <1>2, PolyIs
<1>4. Mono(u) # ZeroPoly
  BY <1>1, ZeroIs
<1>5. LeadOf(Mono(u)) = u
  BY <1>1, <1>3, LeadIsUnique
<1> QED BY <1>1, <1>3, <1>4, <1>5 DEF Coef

\* A multiple of one word.
LEMMA MonoBetween ==
  ASSUME NEW q, IsModulus(q), NEW u \in Words, NEW v \in Words
  PROVE  Between(EmptyWord, Mono(u), v) = Between(u, Mono(v), EmptyWord)
<1>1. EmptyWord \in Words /\ Mono(u) \in Polys(q) /\ Mono(v) \in Polys(q) /\ DOMAIN Mono(u) = {u}
      /\ DOMAIN Mono(v) = {v}
  BY CatWithEmpty, MonoIs
<1> DEFINE x == Between(EmptyWord, Mono(u), v)
           y == Between(u, Mono(v), EmptyWord)
<1>2. x \in Polys(q) /\ y \in Polys(q)
  BY <1>1, BetweenType
<1>3. Put(EmptyWord, u, v) = Put(u, v, EmptyWord)
  BY <1>1, PutCat, PutIsCat, CatType, CatWithEmpty
<1>4. DOMAIN x = {Put(EmptyWord, u, v)}
  <2>1. \A w : w \in DOMAIN x <=> \E t \in DOMAIN Mono(u) : w = Put(EmptyWord, t, v)
    BY <1>1, BetweenDomain
  <2> QED BY <1>1, <2>1
<1>5. DOMAIN y = {Put(u, v, EmptyWord)}
  <2>1. \A w : w \in DOMAIN y <=> \E t \in DOMAIN Mono(v) : w = Put(u, t, EmptyWord)
    BY <1>1, BetweenDomain
  <2> QED BY <1>1, <2>1
<1>6. Coef(x, Put(EmptyWord, u, v)) = 1
  <2>1. Coef(Between(EmptyWord, Mono(u), v), Put(EmptyWord, u, v)) = Coef(Mono(u), u)
    BY <1>1, BetweenCoef
  <2> QED BY <2>1, MonoIs
<1>7. Coef(y, Put(u, v, EmptyWord)) = 1
  <2>1. Coef(Between(u, Mono(v), EmptyWord), Put(u, v, EmptyWord)) = Coef(Mono(v), v)
    BY <1>1, BetweenCoef
  <2> QED BY <2>1, MonoIs
<1> HIDE DEF x, y
<1>8. \A w \in Words : Coef(x, w) = Coef(y, w)
  BY <1>3, <1>4, <1>5, <1>6, <1>7 DEF Coef
<1>9. x = y
  BY <1>2, <1>8, PolyEqual
<1> QED BY <1>9 DEF x, y

\* A polynomial is in every space that has its words.
LEMMA TermInduction ==
  ASSUME NEW q, IsModulus(q), NEW V, IsSpace(q, V), NEW f \in Polys(q),
         \A u \in DOMAIN f : Mono(u) \in V
  PROVE  f \in V
<1> DEFINE Part(s) == [w \in s |-> f[w]]
           P == {s \in SUBSET DOMAIN f : Part(s) \in V}
<1>1. DOMAIN f \in SUBSET Words /\ IsFiniteSet(DOMAIN f) /\ f = [w \in DOMAIN f |-> f[w]]
      /\ \A w \in DOMAIN f : f[w] \in 1 .. q - 1
  BY PolyIs
<1>2. ZeroPoly \in V /\ V \subseteq Polys(q) /\ \A x, y \in V : \A c \in Int : AddScaled(q, x, c, y) \in V
  BY DEF IsSpace
<1>3. ASSUME NEW s \in SUBSET DOMAIN f PROVE Part(s) \in Polys(q)
  <2>1. IsFiniteSet(s)
    BY <1>1, FS_Subset
  <2>2. DOMAIN Part(s) = s /\ Part(s) = [w \in DOMAIN Part(s) |-> Part(s)[w]]
        /\ \A w \in s : Part(s)[w] = f[w]
    OBVIOUS
  <2> HIDE DEF Part
  <2> QED BY <1>1, <2>1, <2>2, PolyIs
<1>4. {} \in P
  <2>1. DOMAIN Part({}) = {} /\ Part({}) \in Polys(q)
    BY <1>3
  <2>2. Part({}) = ZeroPoly
    <3> HIDE DEF Part
    <3> QED BY <2>1, ZeroIs DEF IsZero
  <2> QED BY <1>2, <2>2
<1>5. ASSUME NEW s \in SUBSET DOMAIN f, s # {}, \A x \in s : s \ {x} \in P PROVE s \in P
  <2>1. PICK x \in s : TRUE
    BY <1>5
  <2> DEFINE t == s \ {x}
             y == AddScaled(q, Part(t), f[x], Mono(x))
  <2>2. t \in SUBSET DOMAIN f /\ Part(t) \in V /\ x \in DOMAIN f /\ x \in Words /\ f[x] \in Int
        /\ f[x] \in 0 .. q - 1
    BY <1>1, <1>5, <2>1
  <2>3. Mono(x) \in V /\ y \in V
    BY <1>2, <2>2
  <2>4. ASSUME NEW w \in Words PROVE Coef(y, w) = Coef(Part(s), w)
    <3>1. Coef(y, w) = (Coef(Part(t), w) + f[x] * Coef(Mono(x), w)) % q
      BY <1>2, <2>2, <2>3, SumOfPolys
    <3>2. CASE w = x
      <4>1. Coef(Part(t), w) = 0 /\ Coef(Mono(x), w) = 1
        BY <2>2, <3>2, MonoIs DEF Coef
      <4>2. Coef(y, w) = f[x] % q
        BY <2>2, <3>1, <4>1
      <4>3. f[x] % q = f[x]
        BY <2>2, Remainder
      <4>4. Coef(Part(s), w) = f[x]
        BY <2>1, <3>2 DEF Coef
      <4> QED BY <4>2, <4>3, <4>4
    <3>3. CASE w # x
      <4>1. Coef(Mono(x), w) = 0
        BY <2>2, <3>3, MonoIs
      <4>2. Coef(Part(t), w) = Coef(Part(s), w)
        BY <3>3 DEF Coef
      <4>3. Coef(Part(t), w) \in 0 .. q - 1
        BY <1>2, <2>2, CoefIs
      <4>4. Coef(y, w) = Coef(Part(t), w) % q
        BY <2>2, <3>1, <4>1, <4>3
      <4>5. Coef(Part(t), w) % q = Coef(Part(t), w)
        <5> HIDE DEF t, Part
        <5> QED BY <4>3, Remainder
      <4> QED BY <4>2, <4>4, <4>5
    <3> QED BY <3>2, <3>3
  <2>5. y = Part(s)
    <3> HIDE DEF y, Part
    <3> QED BY <1>2, <1>3, <2>3, <2>4, PolyEqual
  <2> QED BY <2>3, <2>5
<1>6. DOMAIN f \in P
  <2> HIDE DEF P
  <2>1. SUBSET DOMAIN f \subseteq P
    BY <1>1, <1>4, <1>5, SubsetInduction
  <2> QED BY <2>1
<1> QED BY <1>1, <1>6

\* The polynomials a linear map sends into a space, for the multiples by words.
LEMMA BetweenSpace ==
  ASSUME NEW q, IsModulus(q), NEW V, IsSpace(q, V), NEW l \in Words, NEW r \in Words
  PROVE  IsSpace(q, {f \in Polys(q) : Between(l, f, r) \in V})
<1>1. ZeroPoly \in V /\ \A x, y \in V : \A c \in Int : AddScaled(q, x, c, y) \in V
  BY DEF IsSpace
<1>2. Between(l, ZeroPoly, r) = ZeroPoly /\ ZeroPoly \in Polys(q)
  BY BetweenNothing, ZeroIs
<1>3. ASSUME NEW f \in Polys(q), NEW h \in Polys(q), NEW c \in Int, Between(l, f, r) \in V,
             Between(l, h, r) \in V
      PROVE  AddScaled(q, f, c, h) \in Polys(q) /\ Between(l, AddScaled(q, f, c, h), r) \in V
  BY <1>1, <1>3, BetweenSum, PolySumType
<1> QED BY <1>1, <1>2, <1>3 DEF IsSpace

-----------------------------------------------------------------------------
(* Linear maps, and the product of two polynomials.                        *)

Linear(q) ==
  {F \in [Polys(q) -> Polys(q)] :
     \A f, h \in Polys(q) : \A c \in Int : F[AddScaled(q, f, c, h)] = AddScaled(q, F[f], c, F[h])}

\* The negative of zero.
LEMMA MinusNought == \A x \in Int : x = 0 => -x = 0
<1>1. \A x \in Int : x + (-x) = 0 /\ -x \in Int
  OBVIOUS
<1>2. \A x, y \in Int : x = 0 /\ x + y = 0 => y = 0
  OBVIOUS
<1> QED BY <1>1, <1>2

\* What is a multiple of b up to V stays so in sums.
LEMMA MultipleOfSum ==
  ASSUME NEW q, IsModulus(q), NEW V, IsSpace(q, V), NEW b \in Polys(q),
         NEW x \in Polys(q), NEW y \in Polys(q), NEW m \in Int, NEW n \in Int, NEW c \in Int, NEW e \in Int,
         AddScaled(q, x, -m, b) \in V, AddScaled(q, y, -n, b) \in V, Congruent(q, e, m + c * n)
  PROVE  AddScaled(q, AddScaled(q, x, c, y), -e, b) \in V
<1>1. \A f, h \in Polys(q) : \A d \in Int : AddScaled(q, f, d, h) \in Polys(q)
  BY PolySumType
<1> DEFINE s == AddScaled(q, x, c, y)
           t == AddScaled(q, x, -m, b)
<1>2. s \in Polys(q) /\ t \in Polys(q) /\ -m \in Int /\ -n \in Int /\ -e \in Int /\ c * (-n) \in Int
      /\ (-m) + c * (-n) \in Int
  BY <1>1
<1>3. AddScaled(q, t, c, AddScaled(q, y, -n, b)) \in V
  BY DEF IsSpace
<1>4. AddScaled(q, t, c, AddScaled(q, y, -n, b)) = AddScaled(q, AddScaled(q, t, c, y), c * (-n), b)
  BY <1>2, SumsOfPolysLaws
<1>5. AddScaled(q, t, c, y) = AddScaled(q, s, -m, b)
  BY <1>2, SumsOfPolysLaws
<1>6. AddScaled(q, AddScaled(q, s, -m, b), c * (-n), b) = AddScaled(q, s, (-m) + c * (-n), b)
  BY <1>2, SumsOfPolysLaws
<1>7. Congruent(q, (-m) + c * (-n), -e)
  <2>1. m + c * n \in Int /\ -1 \in Int
    OBVIOUS
  <2>2. Congruent(q, (-1) * (m + c * n), (-1) * e)
    BY <2>1, CongruenceLaws
  <2>3. (-1) * (m + c * n) = (-m) + c * (-n) /\ (-1) * e = -e
    OBVIOUS
  <2> QED BY <2>2, <2>3
<1>8. AddScaled(q, s, (-m) + c * (-n), b) = AddScaled(q, s, -e, b)
  BY <1>2, <1>7, SumsOfPolysLaws
<1> QED BY <1>3, <1>4, <1>5, <1>6, <1>8

\* A linear map of a polynomial, up to what it does to one of its words.
LEMMA LinearOnTerms ==
  ASSUME NEW q, IsModulus(q), NEW V, IsSpace(q, V), NEW F \in Linear(q), NEW f \in Polys(q),
         NEW a \in Words, NEW b \in Polys(q), F[Mono(a)] = b,
         \A u \in DOMAIN f : u # a => F[Mono(u)] \in V
  PROVE  AddScaled(q, F[f], -Coef(f, a), b) \in V
<1> DEFINE W == {h \in Polys(q) : AddScaled(q, F[h], -Coef(h, a), b) \in V}
<1>1. F \in [Polys(q) -> Polys(q)]
      /\ \A g, h \in Polys(q) : \A c \in Int : F[AddScaled(q, g, c, h)] = AddScaled(q, F[g], c, F[h])
  BY DEF Linear
<1>2. ZeroPoly \in Polys(q) /\ ZeroPoly \in V
  BY ZeroIs DEF IsSpace
<1>3. ZeroPoly \in W
  <2>1. F[ZeroPoly] = ZeroPoly
    <3>1. AddScaled(q, ZeroPoly, -1, ZeroPoly) = ZeroPoly
          /\ AddScaled(q, F[ZeroPoly], -1, F[ZeroPoly]) = ZeroPoly
      BY <1>1, <1>2, MinusItself
    <3>2. F[AddScaled(q, ZeroPoly, -1, ZeroPoly)] = AddScaled(q, F[ZeroPoly], -1, F[ZeroPoly])
      BY <1>1, <1>2
    <3> QED BY <3>1, <3>2
  <2>2. Coef(ZeroPoly, a) = 0
    BY ZeroIs
  <2>3. AddScaled(q, ZeroPoly, 0, b) = ZeroPoly
    BY <1>2, ZeroTimes
  <2> QED BY <1>2, <2>1, <2>2, <2>3, MinusNought
<1>4. ASSUME NEW g \in W, NEW h \in W, NEW c \in Int PROVE AddScaled(q, g, c, h) \in W
  <2>1. g \in Polys(q) /\ h \in Polys(q) /\ F[g] \in Polys(q) /\ F[h] \in Polys(q)
        /\ AddScaled(q, g, c, h) \in Polys(q)
    BY <1>1, PolySumType
  <2>2. Coef(g, a) \in Int /\ Coef(h, a) \in Int /\ Coef(AddScaled(q, g, c, h), a) \in Int
    BY <2>1, CoefIs
  <2>3. Congruent(q, Coef(AddScaled(q, g, c, h), a), Coef(g, a) + c * Coef(h, a))
    BY <2>1, SumCongruent
  <2>4. AddScaled(q, F[g], -Coef(g, a), b) \in V /\ AddScaled(q, F[h], -Coef(h, a), b) \in V
    OBVIOUS
  <2>5. AddScaled(q, AddScaled(q, F[g], c, F[h]), -Coef(AddScaled(q, g, c, h), a), b) \in V
    BY <2>1, <2>2, <2>3, <2>4, MultipleOfSum
  <2> QED BY <1>1, <2>1, <2>5
<1>5. IsSpace(q, W)
  BY <1>3, <1>4 DEF IsSpace
<1>6. ASSUME NEW u \in DOMAIN f PROVE Mono(u) \in W
  <2>1. u \in Words
    BY PolyIs
  <2>2. Mono(u) \in Polys(q) /\ F[Mono(u)] \in Polys(q)
    BY <1>1, <2>1, MonoIs
  <2>3. CASE u = a
    <3>1. Coef(Mono(u), a) = 1
      BY <2>1, <2>3, MonoIs
    <3>2. AddScaled(q, b, -1, b) = ZeroPoly
      BY MinusItself
    <3> QED BY <1>2, <2>2, <2>3, <3>1, <3>2
  <2>4. CASE u # a
    <3>1. Coef(Mono(u), a) = 0
      BY <2>1, <2>4, MonoIs
    <3>2. AddScaled(q, F[Mono(u)], 0, b) = F[Mono(u)]
      BY <2>2, ZeroTimes
    <3> QED BY <2>2, <2>4, <3>1, <3>2, MinusNought
  <2> QED BY <2>3, <2>4
<1> HIDE DEF W
<1>7. f \in W
  BY <1>5, <1>6, TermInduction
<1> QED BY <1>7 DEF W

\* The map f |-> f * h, and what it does to g up to V.
LEMMA ProductExists ==
  ASSUME NEW q, IsModulus(q), NEW V, IsSpace(q, V), NEW g \in Polys(q), NEW h \in Polys(q),
         NEW b \in Words, \A v \in DOMAIN h : v # b => Between(EmptyWord, g, v) \in V
  PROVE  \E F \in Linear(q) :
           /\ \A u \in Words : F[Mono(u)] = Between(u, h, EmptyWord)
           /\ AddScaled(q, F[g], -Coef(h, b), Between(EmptyWord, g, b)) \in V
<1> DEFINE B == Between(EmptyWord, g, b)
           Good(k, F) == /\ \A u \in Words : F[Mono(u)] = Between(u, k, EmptyWord)
                         /\ AddScaled(q, F[g], -Coef(k, b), B) \in V
           W == {k \in Polys(q) : \E F \in Linear(q) : Good(k, F)}
<1>1. EmptyWord \in Words /\ ZeroPoly \in Polys(q) /\ ZeroPoly \in V /\ B \in Polys(q)
  BY CatWithEmpty, ZeroIs, BetweenType DEF IsSpace
<1>2. ZeroPoly \in W
  <2> DEFINE F == [f \in Polys(q) |-> ZeroPoly]
  <2>1. F \in Linear(q)
    <3>1. \A c \in Int : AddScaled(q, ZeroPoly, c, ZeroPoly) = ZeroPoly
      BY <1>1, PlusZero
    <3> QED BY <1>1, <3>1, PolySumType DEF Linear
  <2>2. \A u \in Words : F[Mono(u)] = Between(u, ZeroPoly, EmptyWord)
    BY <1>1, MonoIs, BetweenNothing
  <2>3. Coef(ZeroPoly, b) = 0
    BY ZeroIs
  <2>5. AddScaled(q, ZeroPoly, 0, B) = ZeroPoly
    <3> HIDE DEF B
    <3> QED BY <1>1, ZeroTimes
  <2>4. AddScaled(q, F[g], -Coef(ZeroPoly, b), B) \in V
    <3>1. F[g] = ZeroPoly
      OBVIOUS
    <3> HIDE DEF F, B
    <3> QED BY <1>1, <2>3, <2>5, <3>1, MinusNought
  <2> HIDE DEF F
  <2> QED BY <1>1, <2>1, <2>2, <2>4
<1>3. ASSUME NEW k \in W, NEW m \in W, NEW c \in Int PROVE AddScaled(q, k, c, m) \in W
  <2>1. k \in Polys(q) /\ m \in Polys(q) /\ AddScaled(q, k, c, m) \in Polys(q)
    BY PolySumType
  <2>2. PICK F \in Linear(q) : Good(k, F)
    OBVIOUS
  <2>3. PICK G \in Linear(q) : Good(m, G)
    OBVIOUS
  <2> DEFINE H == [f \in Polys(q) |-> AddScaled(q, F[f], c, G[f])]
  <2>4. /\ F \in [Polys(q) -> Polys(q)] /\ G \in [Polys(q) -> Polys(q)]
        /\ \A x, y \in Polys(q) : \A d \in Int :
             /\ F[AddScaled(q, x, d, y)] = AddScaled(q, F[x], d, F[y])
             /\ G[AddScaled(q, x, d, y)] = AddScaled(q, G[x], d, G[y])
    BY SMTT(30) DEF Linear
  <2>5. H \in [Polys(q) -> Polys(q)]
    BY <2>4, PolySumType
  <2>6. ASSUME NEW x \in Polys(q), NEW y \in Polys(q), NEW d \in Int
        PROVE  H[AddScaled(q, x, d, y)] = AddScaled(q, H[x], d, H[y])
    <3>1. AddScaled(q, x, d, y) \in Polys(q)
      BY PolySumType
    <3>2. H[AddScaled(q, x, d, y)]
            = AddScaled(q, AddScaled(q, F[x], d, F[y]), c, AddScaled(q, G[x], d, G[y]))
      BY <2>4, <3>1
    <3> DEFINE p1 == F[x]
               p2 == F[y]
               p3 == G[x]
               p4 == G[y]
    <3>3. p1 \in Polys(q) /\ p2 \in Polys(q) /\ p3 \in Polys(q) /\ p4 \in Polys(q)
          /\ H[x] = AddScaled(q, p1, c, p3) /\ H[y] = AddScaled(q, p2, c, p4)
      BY <2>4
    <3> HIDE DEF p1, p2, p3, p4, H
    <3>4. AddScaled(q, AddScaled(q, p1, d, p2), c, AddScaled(q, p3, d, p4))
            = AddScaled(q, AddScaled(q, p1, c, p3), d, AddScaled(q, p2, c, p4))
      BY <3>3, Interchange
    <3> QED BY <3>2, <3>3, <3>4 DEF p1, p2, p3, p4
  <2>7. H \in Linear(q)
    <3> HIDE DEF H
    <3> QED BY <2>5, <2>6 DEF Linear
  <2>8. ASSUME NEW u \in Words PROVE H[Mono(u)] = Between(u, AddScaled(q, k, c, m), EmptyWord)
    <3>1. Mono(u) \in Polys(q)
      BY MonoIs
    <3>2. H[Mono(u)] = AddScaled(q, Between(u, k, EmptyWord), c, Between(u, m, EmptyWord))
      BY <2>2, <2>3, <3>1
    <3> QED BY <1>1, <2>1, <3>2, BetweenSum
  <2>9. AddScaled(q, H[g], -Coef(AddScaled(q, k, c, m), b), B) \in V
    <3>1. F[g] \in Polys(q) /\ G[g] \in Polys(q)
      BY <2>4
    <3>2. Coef(k, b) \in Int /\ Coef(m, b) \in Int /\ Coef(AddScaled(q, k, c, m), b) \in Int
      BY <2>1, CoefIs
    <3>3. Congruent(q, Coef(AddScaled(q, k, c, m), b), Coef(k, b) + c * Coef(m, b))
      BY <2>1, SumCongruent
    <3>4. AddScaled(q, F[g], -Coef(k, b), B) \in V /\ AddScaled(q, G[g], -Coef(m, b), B) \in V
      BY <2>2, <2>3
    <3>5. H[g] = AddScaled(q, F[g], c, G[g])
      OBVIOUS
    <3> HIDE DEF H, B, Good, W
    <3> QED BY <1>1, <3>1, <3>2, <3>3, <3>4, <3>5, MultipleOfSum
  <2> HIDE DEF H
  <2> QED BY <2>1, <2>7, <2>8, <2>9
<1>4. IsSpace(q, W)
  <2> HIDE DEF Good
  <2> QED BY <1>2, <1>3 DEF IsSpace
<1>5. ASSUME NEW v \in DOMAIN h PROVE Mono(v) \in W
  <2> DEFINE F == [f \in Polys(q) |-> Between(EmptyWord, f, v)]
  <2>1. v \in Words
    BY PolyIs
  <2>2. F \in Linear(q)
    <3>1. \A f \in Polys(q) : Between(EmptyWord, f, v) \in Polys(q)
      BY <1>1, <2>1, BetweenType
    <3>2. F \in [Polys(q) -> Polys(q)] /\ \A f \in Polys(q) : F[f] = Between(EmptyWord, f, v)
      BY <3>1
    <3>3. ASSUME NEW f \in Polys(q), NEW k \in Polys(q), NEW c \in Int
          PROVE  F[AddScaled(q, f, c, k)] = AddScaled(q, F[f], c, F[k])
      <4>1. AddScaled(q, f, c, k) \in Polys(q)
        BY PolySumType
      <4>2. Between(EmptyWord, AddScaled(q, f, c, k), v)
              = AddScaled(q, Between(EmptyWord, f, v), c, Between(EmptyWord, k, v))
        BY <1>1, <2>1, BetweenSum
      <4> HIDE DEF F
      <4> QED BY <3>2, <4>1, <4>2
    <3> HIDE DEF F
    <3> QED BY <3>2, <3>3 DEF Linear
  <2>3. ASSUME NEW u \in Words PROVE F[Mono(u)] = Between(u, Mono(v), EmptyWord)
    BY <1>1, <2>1, MonoBetween, MonoIs
  <2>4. AddScaled(q, F[g], -Coef(Mono(v), b), B) \in V
    <3>1. CASE v = b
      <4>1. Coef(Mono(v), b) = 1 /\ F[g] = B
        BY <2>1, <3>1, MonoIs
      <4>2. AddScaled(q, B, -1, B) = ZeroPoly
        BY <1>1, MinusItself
      <4> HIDE DEF F, B
      <4> QED BY <1>1, <4>1, <4>2
    <3>2. CASE v # b
      <4>3. Coef(Mono(v), b) = 0
        BY <2>1, <3>2, MonoIs
      <4>4. F[g] \in V
        BY <3>2
      <4>1. Coef(Mono(v), b) = 0 /\ F[g] \in V /\ F[g] \in Polys(q)
        BY <4>3, <4>4 DEF IsSpace
      <4>2. AddScaled(q, F[g], 0, B) = F[g]
        BY <1>1, <4>1, ZeroTimes
      <4> HIDE DEF F, B
      <4> QED BY <4>1, <4>2, MinusNought
    <3> QED BY <3>1, <3>2
  <2>5. Mono(v) \in Polys(q)
    BY <2>1, MonoIs
  <2> HIDE DEF F
  <2> QED BY <2>2, <2>3, <2>4, <2>5
<1> HIDE DEF W
<1>6. h \in W
  BY <1>4, <1>5, TermInduction
<1> QED BY <1>6 DEF W

\* The two ways to rewrite two words that are side by side.
LEMMA SideBySide ==
  ASSUME NEW q, IsModulus(q), NEW V, IsSpace(q, V), NEW g \in Polys(q), NEW h \in Polys(q),
         NEW a \in Words, NEW b \in Words, Coef(g, a) = 1, Coef(h, b) = 1,
         \A v \in DOMAIN h : v # b => Between(EmptyWord, g, v) \in V,
         \A u \in DOMAIN g : u # a => Between(u, h, EmptyWord) \in V
  PROVE  SameModulo(q, V, Between(EmptyWord, g, b), Between(a, h, EmptyWord))
<1>1. PICK F \in Linear(q) : /\ \A u \in Words : F[Mono(u)] = Between(u, h, EmptyWord)
                             /\ AddScaled(q, F[g], -Coef(h, b), Between(EmptyWord, g, b)) \in V
  BY ProductExists
<1>2. F[g] \in Polys(q) /\ EmptyWord \in Words
  BY CatWithEmpty DEF Linear
<1>3. Between(EmptyWord, g, b) \in Polys(q) /\ Between(a, h, EmptyWord) \in Polys(q) /\ DOMAIN g \subseteq Words
  BY <1>2, BetweenType, PolyIs
<1>4. SameModulo(q, V, F[g], Between(EmptyWord, g, b))
  BY <1>1 DEF SameModulo
<1>5. AddScaled(q, F[g], -Coef(g, a), Between(a, h, EmptyWord)) \in V
  BY <1>1, <1>3, LinearOnTerms
<1>6. SameModulo(q, V, F[g], Between(a, h, EmptyWord))
  BY <1>5 DEF SameModulo
<1> QED BY <1>2, <1>3, <1>4, <1>6, SameIsEquivalence

-----------------------------------------------------------------------------
(* Ideals, and what products with a smaller top generate.                  *)

Products(q, G) == {f \in Polys(q) : \E g \in G : \E l, r \in Words : f = Between(l, g, r)}

Ideal(q, G) == Span(q, Products(q, G))

\* the products of elements of G whose top, the leading word times the words, is below w
ProductsBelow(q, G, w) ==
  {f \in Polys(q) : \E g \in G : \E l, r \in Words :
                      f = Between(l, g, r) /\ WordLess(Put(l, LeadOf(g), r), w)}

BelowTop(q, G, w) == Span(q, ProductsBelow(q, G, w))

IsMonic(q, G) == \A g \in G : g \in Polys(q) /\ g # ZeroPoly /\ Coef(g, LeadOf(g)) = 1

\* What a monic set says of one of its elements.
LEMMA MonicLead ==
  ASSUME NEW q, IsModulus(q), NEW G, IsMonic(q, G), NEW g \in G
  PROVE  g \in Polys(q) /\ g # ZeroPoly /\ Coef(g, LeadOf(g)) = 1 /\ LeadOf(g) \in Words
         /\ LeadOf(g) \in DOMAIN g
BY LeadIs DEF IsMonic

\* Both are spaces with the products.
LEMMA IdealIs ==
  ASSUME NEW q, IsModulus(q), NEW G \in SUBSET Polys(q)
  PROVE  /\ IsSpace(q, Ideal(q, G))
         /\ \A g \in G : \A l, r \in Words : Between(l, g, r) \in Ideal(q, G)
         /\ G \subseteq Ideal(q, G)
<1>1. Products(q, G) \in SUBSET Polys(q)
  BY DEF Products
<1>2. IsSpace(q, Ideal(q, G)) /\ Products(q, G) \subseteq Ideal(q, G)
  BY <1>1, SpanIs DEF Ideal
<1>3. ASSUME NEW g \in G, NEW l \in Words, NEW r \in Words PROVE Between(l, g, r) \in Ideal(q, G)
  BY <1>2, BetweenType DEF Products
<1>4. ASSUME NEW g \in G PROVE g \in Ideal(q, G)
  <2>1. Between(EmptyWord, g, EmptyWord) = g
    BY BetweenNothing DEF EmptyWord
  <2> QED BY <1>3, <2>1, CatWithEmpty
<1> QED BY <1>2, <1>3, <1>4

\* An ideal is in every space that has the products of its generators.
LEMMA IdealInSpace ==
  ASSUME NEW q, NEW G, NEW V, IsSpace(q, V), \A g \in G : \A l, r \in Words : Between(l, g, r) \in V
  PROVE  Ideal(q, G) \subseteq V
<1>1. Products(q, G) \subseteq V
  BY DEF Products
<1> QED BY <1>1, SpanIsLeast DEF Ideal

\* An ideal has the multiples of its elements.
LEMMA IdealBetween ==
  ASSUME NEW q, IsModulus(q), NEW G \in SUBSET Polys(q), NEW f \in Ideal(q, G),
         NEW l \in Words, NEW r \in Words
  PROVE  Between(l, f, r) \in Ideal(q, G)
<1> DEFINE V == {h \in Polys(q) : Between(l, h, r) \in Ideal(q, G)}
<1>1. IsSpace(q, V)
  BY IdealIs, BetweenSpace
<1>2. ASSUME NEW g \in G, NEW a \in Words, NEW b \in Words PROVE Between(a, g, b) \in V
  <2>1. Between(a, g, b) \in Polys(q) /\ Cat(l, a) \in Words /\ Cat(b, r) \in Words
    BY BetweenType, CatType
  <2>2. Between(l, Between(a, g, b), r) = Between(Cat(l, a), g, Cat(b, r))
    BY BetweenBetween
  <2> QED BY <2>1, <2>2, IdealIs
<1> HIDE DEF V
<1>3. f \in V
  BY <1>1, <1>2, IdealInSpace
<1> QED BY <1>3 DEF V

\* An ideal that has the generators of another has all of it.
LEMMA IdealInIdeal ==
  ASSUME NEW q, IsModulus(q), NEW G \in SUBSET Polys(q), NEW H \in SUBSET Polys(q),
         H \subseteq Ideal(q, G)
  PROVE  Ideal(q, H) \subseteq Ideal(q, G)
<1>1. \A h \in H : \A l, r \in Words : Between(l, h, r) \in Ideal(q, G)
  BY IdealBetween
<1> QED BY <1>1, IdealIs, IdealInSpace

\* What is generated below a word is a space, and has every product with a smaller top.
LEMMA BelowIs ==
  ASSUME NEW q, IsModulus(q), NEW G, IsMonic(q, G), NEW w
  PROVE  /\ IsSpace(q, BelowTop(q, G, w))
         /\ \A g \in G : \A l, r \in Words :
              WordLess(Put(l, LeadOf(g), r), w) => Between(l, g, r) \in BelowTop(q, G, w)
<1>1. ProductsBelow(q, G, w) \in SUBSET Polys(q)
  BY DEF ProductsBelow
<1>2. IsSpace(q, BelowTop(q, G, w)) /\ ProductsBelow(q, G, w) \subseteq BelowTop(q, G, w)
  BY <1>1, SpanIs DEF BelowTop
<1>3. ASSUME NEW g \in G, NEW l \in Words, NEW r \in Words, WordLess(Put(l, LeadOf(g), r), w)
      PROVE  Between(l, g, r) \in BelowTop(q, G, w)
  <2>1. Between(l, g, r) \in Polys(q)
    BY MonicLead, BetweenType
  <2> QED BY <1>2, <1>3, <2>1 DEF ProductsBelow
<1> QED BY <1>2, <1>3

\* It is the least such space.
LEMMA BelowInSpace ==
  ASSUME NEW q, NEW G, NEW w, NEW V, IsSpace(q, V),
         \A g \in G : \A l, r \in Words :
           WordLess(Put(l, LeadOf(g), r), w) => Between(l, g, r) \in V
  PROVE  BelowTop(q, G, w) \subseteq V
<1>1. ProductsBelow(q, G, w) \subseteq V
  BY DEF ProductsBelow
<1> QED BY <1>1, SpanIsLeast DEF BelowTop

\* More elements and a higher bound generate more.
LEMMA BelowTopGrows ==
  ASSUME NEW q, IsModulus(q), NEW G, NEW H, IsMonic(q, H), G \subseteq H, NEW u \in Words, NEW w \in Words,
         u = w \/ WordLess(u, w)
  PROVE  BelowTop(q, G, u) \subseteq BelowTop(q, H, w)
<1>1. ASSUME NEW g \in G, NEW l \in Words, NEW r \in Words, WordLess(Put(l, LeadOf(g), r), u)
      PROVE  Between(l, g, r) \in BelowTop(q, H, w)
  <2>1. Put(l, LeadOf(g), r) \in Words
    BY MonicLead, PutType
  <2>2. WordLess(Put(l, LeadOf(g), r), w)
    BY <1>1, <2>1, WordOrder
  <2> QED BY <2>2, BelowIs
<1> QED BY <1>1, BelowIs, BelowInSpace

\* The polynomials of words below w.
LEMMA SmallSpace ==
  ASSUME NEW q, IsModulus(q), NEW w
  PROVE  IsSpace(q, {f \in Polys(q) : \A u \in DOMAIN f : WordLess(u, w)})
<1> DEFINE V == {f \in Polys(q) : \A u \in DOMAIN f : WordLess(u, w)}
<1>1. ZeroPoly \in V
  BY ZeroIs
<1>2. ASSUME NEW f \in V, NEW h \in V, NEW c \in Int PROVE AddScaled(q, f, c, h) \in V
  <2>1. DOMAIN AddScaled(q, f, c, h) \subseteq DOMAIN f \cup DOMAIN h
    BY DEF AddScaled
  <2>2. AddScaled(q, f, c, h) \in Polys(q)
    BY PolySumType
  <2> QED BY <2>1, <2>2
<1> HIDE DEF V
<1>3. V \subseteq Polys(q)
  BY DEF V
<1>4. IsSpace(q, V)
  BY <1>1, <1>2, <1>3 DEF IsSpace
<1> QED BY <1>4 DEF V

\* All its words are smaller.
LEMMA BelowIsSmall ==
  ASSUME NEW q, IsModulus(q), NEW G, IsMonic(q, G), NEW w \in Words, NEW f \in BelowTop(q, G, w)
  PROVE  f \in Polys(q) /\ \A u \in DOMAIN f : WordLess(u, w)
<1> DEFINE V == {h \in Polys(q) : \A u \in DOMAIN h : WordLess(u, w)}
<1>1. ASSUME NEW g \in G, NEW l \in Words, NEW r \in Words, WordLess(Put(l, LeadOf(g), r), w)
      PROVE  Between(l, g, r) \in V
  <2>1. Between(l, g, r) \in Polys(q) /\ Put(l, LeadOf(g), r) \in Words
    BY MonicLead, BetweenType, PutType
  <2>2. \A u \in DOMAIN Between(l, g, r) :
          u # Put(l, LeadOf(g), r) => WordLess(u, Put(l, LeadOf(g), r))
    BY MonicLead, LeadOfBetween
  <2>3. DOMAIN Between(l, g, r) \subseteq Words
    BY <2>1, PolyIs
  <2> QED BY <1>1, <2>1, <2>2, <2>3, WordOrder
<1>2. IsSpace(q, V)
  BY SmallSpace
<1> HIDE DEF V
<1>3. f \in V
  BY <1>1, <1>2, BelowInSpace
<1> QED BY <1>3 DEF V

\* What is generated below w is generated below the multiple of w by its multiple.
LEMMA BelowBetween ==
  ASSUME NEW q, IsModulus(q), NEW G, IsMonic(q, G), NEW w \in Words, NEW f \in BelowTop(q, G, w),
         NEW l \in Words, NEW r \in Words
  PROVE  Between(l, f, r) \in BelowTop(q, G, Put(l, w, r))
<1> DEFINE V == {h \in Polys(q) : Between(l, h, r) \in BelowTop(q, G, Put(l, w, r))}
<1>1. IsSpace(q, V)
  BY BelowIs, BetweenSpace
<1>2. ASSUME NEW g \in G, NEW a \in Words, NEW b \in Words, WordLess(Put(a, LeadOf(g), b), w)
      PROVE  Between(a, g, b) \in V
  <2>1. g \in Polys(q) /\ LeadOf(g) \in Words
    BY MonicLead
  <2>2. Between(a, g, b) \in Polys(q) /\ Cat(l, a) \in Words /\ Cat(b, r) \in Words
        /\ Put(a, LeadOf(g), b) \in Words
    BY <2>1, BetweenType, CatType, PutType
  <2>3. WordLess(Put(l, Put(a, LeadOf(g), b), r), Put(l, w, r))
    BY <1>2, <2>2, PutOrder
  <2>4. Put(l, Put(a, LeadOf(g), b), r) = Put(Cat(l, a), LeadOf(g), Cat(b, r))
    BY <2>1, PutNest
  <2>5. Between(Cat(l, a), g, Cat(b, r)) \in BelowTop(q, G, Put(l, w, r))
    BY <2>2, <2>3, <2>4, BelowIs
  <2>6. Between(l, Between(a, g, b), r) = Between(Cat(l, a), g, Cat(b, r))
    BY <2>1, BetweenBetween
  <2> QED BY <2>2, <2>5, <2>6
<1> HIDE DEF V
<1>3. f \in V
  BY <1>1, <1>2, BelowInSpace
<1> QED BY <1>3 DEF V

\* Polynomials that are the same below a word stay so under multiples.
LEMMA SameBetween ==
  ASSUME NEW q, IsModulus(q), NEW G, IsMonic(q, G), NEW w \in Words, NEW f \in Polys(q),
         NEW h \in Polys(q), SameModulo(q, BelowTop(q, G, w), f, h), NEW l \in Words, NEW r \in Words
  PROVE  SameModulo(q, BelowTop(q, G, Put(l, w, r)), Between(l, f, r), Between(l, h, r))
<1>1. Between(l, AddScaled(q, f, -1, h), r) = AddScaled(q, Between(l, f, r), -1, Between(l, h, r))
  BY BetweenSum
<1> QED BY <1>1, BelowBetween DEF SameModulo

-----------------------------------------------------------------------------
(* The diamond lemma: when every overlap and every inclusion of two        *)
(* leading words is resolved, every element of the ideal is reducible.     *)

IsDistinct(G) == \A g, h \in G : LeadOf(g) = LeadOf(h) => g = h

OverlapsMeet(q, G) ==
  \A g, h \in G : \A a, x, b \in Words :
    /\ LeadOf(g) = Cat(a, x) /\ LeadOf(h) = Cat(x, b)
    /\ a # EmptyWord /\ x # EmptyWord /\ b # EmptyWord
    => SameModulo(q, BelowTop(q, G, Cat(a, LeadOf(h))), Between(EmptyWord, g, b), Between(a, h, EmptyWord))

InclusionsMeet(q, G) ==
  \A g, h \in G : \A a, b \in Words :
    /\ LeadOf(g) = Put(a, LeadOf(h), b)
    /\ a # EmptyWord \/ b # EmptyWord
    => SameModulo(q, BelowTop(q, G, LeadOf(g)), g, Between(a, h, b))

IsConfluent(q, G) == IsMonic(q, G) /\ IsDistinct(G) /\ OverlapsMeet(q, G) /\ InclusionsMeet(q, G)

\* ab = cd, where c begins with a
Begins(a, b, c, d) == \E x \in Words : c = Cat(a, x) /\ b = Cat(x, d)

\* Of two splits of a word one begins with the other.
LEMMA BeginsIs ==
  ASSUME NEW a \in Words, NEW b \in Words, NEW c \in Words, NEW d \in Words,
         Cat(a, b) = Cat(c, d), Len(a) <= Len(c)
  PROVE  Begins(a, b, c, d)
<1> DEFINE y == SubSeq(c, 1, Len(a))
           x == SubSeq(c, Len(a) + 1, Len(c))
<1>1. Len(a) \in 0 .. Len(c)
  BY CatLen
<1>2. y \in Words /\ x \in Words /\ Len(y) = Len(a) /\ c = Cat(y, x)
  BY <1>1, CutWord DEF Cat
<1> HIDE DEF x, y
<1>3. Cat(a, b) = Cat(y, Cat(x, d)) /\ Cat(x, d) \in Words
  BY <1>2, CatType, CatAssociates
<1>4. \A e, f \in Words : Cat(a, b) = Cat(e, f) /\ Len(a) = Len(e) => a = e /\ b = f
  BY ConcatInjective DEF Cat
<1>5. a = y /\ b = Cat(x, d)
  BY <1>2, <1>3, <1>4
<1> QED BY <1>2, <1>5 DEF Begins

\* The same for all splits.
LEMMA SplitCompare ==
  \A a, b, c, d \in Words : Cat(a, b) = Cat(c, d) => Begins(a, b, c, d) \/ Begins(c, d, a, b)
<1> SUFFICES ASSUME NEW a \in Words, NEW b \in Words, NEW c \in Words, NEW d \in Words, Cat(a, b) = Cat(c, d)
             PROVE  Begins(a, b, c, d) \/ Begins(c, d, a, b)
  OBVIOUS
<1>1. Len(a) \in Nat /\ Len(c) \in Nat
  BY CatLen
<1>2. CASE Len(a) <= Len(c)
  BY <1>2, BeginsIs
<1>3. CASE Len(c) <= Len(a)
  BY <1>3, BeginsIs
<1> QED BY <1>1, <1>2, <1>3

\* Two products of which the tops' leading words are side by side.
LEMMA TopsApart ==
  ASSUME NEW q, IsModulus(q), NEW G, IsMonic(q, G), NEW g \in G, NEW h \in G,
         NEW l \in Words, NEW x \in Words, NEW s \in Words
  PROVE  SameModulo(q, BelowTop(q, G, Put(l, Cat(LeadOf(g), Cat(x, LeadOf(h))), s)),
              Between(l, g, Cat(Cat(x, LeadOf(h)), s)), Between(Cat(l, Cat(LeadOf(g), x)), h, s))
<1> DEFINE a == LeadOf(g)
           b == Cat(x, LeadOf(h))
           k == Between(x, h, EmptyWord)
           V == BelowTop(q, G, Cat(a, b))
<1>1. /\ g \in Polys(q) /\ Coef(g, a) = 1 /\ a \in Words /\ g # ZeroPoly
      /\ h \in Polys(q) /\ Coef(h, LeadOf(h)) = 1 /\ LeadOf(h) \in Words /\ h # ZeroPoly
      /\ EmptyWord \in Words
  BY MonicLead, CatWithEmpty
<1>2. b \in Words /\ Cat(a, b) \in Words /\ k \in Polys(q) /\ b = Put(x, LeadOf(h), EmptyWord)
  BY <1>1, CatType, BetweenType, PutIsCat, CatWithEmpty
<1>3. Coef(k, b) = 1
  BY <1>1, <1>2, BetweenCoef
<1>4. IsSpace(q, V)
  BY BelowIs
<1>5. ASSUME NEW v \in DOMAIN k, v # b PROVE Between(EmptyWord, g, v) \in V
  <2>1. v \in Words
    BY <1>2, PolyIs
  <2>2. WordLess(v, b)
    BY <1>1, <1>2, <1>5, LeadOfBetween
  <2>3. WordLess(Put(a, v, EmptyWord), Put(a, b, EmptyWord))
    BY <1>1, <1>2, <2>1, <2>2, PutOrder
  <2>4. Put(a, v, EmptyWord) = Put(EmptyWord, a, v) /\ Put(a, b, EmptyWord) = Cat(a, b)
    BY <1>1, <1>2, <2>1, PutIsCat, CatType, CatWithEmpty
  <2> QED BY <1>1, <2>1, <2>3, <2>4, BelowIs
<1>6. ASSUME NEW u \in DOMAIN g, u # a PROVE Between(u, k, EmptyWord) \in V
  <2>1. u \in Words /\ Cat(u, x) \in Words
    BY <1>1, PolyIs, CatType
  <2>2. WordLess(u, a)
    BY <1>1, <1>6, LeadIs
  <2>3. WordLess(Put(EmptyWord, u, b), Put(EmptyWord, a, b))
    BY <1>1, <1>2, <2>1, <2>2, PutOrder
  <2>4. Put(EmptyWord, a, b) = Cat(a, b)
    BY <1>1, <1>2, PutIsCat, CatWithEmpty
  <2>5. Put(EmptyWord, u, b) = Put(Cat(u, x), LeadOf(h), EmptyWord)
    <3>1. Put(EmptyWord, u, b) = Cat(u, Cat(x, LeadOf(h)))
      BY <1>1, <1>2, <2>1, PutIsCat, CatWithEmpty
    <3>2. Put(Cat(u, x), LeadOf(h), EmptyWord) = Cat(Cat(u, x), LeadOf(h))
      BY <1>1, <2>1, PutIsCat, CatType, CatWithEmpty
    <3> QED BY <1>1, <2>1, <3>1, <3>2, CatAssociates
  <2>6. Between(Cat(u, x), h, EmptyWord) \in V
    BY <1>1, <2>1, <2>3, <2>4, <2>5, BelowIs
  <2>7. Between(u, k, EmptyWord) = Between(Cat(u, x), h, Cat(EmptyWord, EmptyWord))
    BY <1>1, <2>1, BetweenBetween
  <2>8. Cat(EmptyWord, EmptyWord) = EmptyWord
    BY CatWithEmpty
  <2> QED BY <2>6, <2>7, <2>8
<1>7. SameModulo(q, V, Between(EmptyWord, g, b), Between(a, k, EmptyWord))
  <2> HIDE DEF a, b, k, V
  <2> QED BY <1>1, <1>2, <1>3, <1>4, <1>5, <1>6, SideBySide
<1>8. Between(a, k, EmptyWord) = Between(Cat(a, x), h, EmptyWord)
  <2>1. Between(a, k, EmptyWord) = Between(Cat(a, x), h, Cat(EmptyWord, EmptyWord))
    BY <1>1, BetweenBetween
  <2> QED BY <2>1, CatWithEmpty
<1>9. Between(EmptyWord, g, b) \in Polys(q) /\ Between(Cat(a, x), h, EmptyWord) \in Polys(q)
        /\ Cat(a, x) \in Words
  BY <1>1, <1>2, CatType, BetweenType
<1>10. SameModulo(q, BelowTop(q, G, Put(l, Cat(a, b), s)), Between(l, Between(EmptyWord, g, b), s),
            Between(l, Between(Cat(a, x), h, EmptyWord), s))
  BY <1>2, <1>7, <1>8, <1>9, SameBetween
<1>11. Between(l, Between(EmptyWord, g, b), s) = Between(l, g, Cat(b, s))
  <2>1. Between(l, Between(EmptyWord, g, b), s) = Between(Cat(l, EmptyWord), g, Cat(b, s))
    BY <1>1, <1>2, BetweenBetween
  <2> QED BY <2>1, CatWithEmpty
<1>12. Between(l, Between(Cat(a, x), h, EmptyWord), s) = Between(Cat(l, Cat(a, x)), h, s)
  <2>1. Between(l, Between(Cat(a, x), h, EmptyWord), s) = Between(Cat(l, Cat(a, x)), h, Cat(EmptyWord, s))
    BY <1>1, <1>9, BetweenBetween
  <2> QED BY <2>1, CatWithEmpty
<1> QED BY <1>10, <1>11, <1>12

\* Two products of which one top's leading word is inside the other's, or equal to it.
LEMMA TopsInside ==
  ASSUME NEW q, IsModulus(q), NEW G, IsConfluent(q, G), NEW g \in G, NEW h \in G,
         NEW l \in Words, NEW a \in Words, NEW b \in Words, NEW r \in Words,
         LeadOf(g) = Put(a, LeadOf(h), b)
  PROVE  SameModulo(q, BelowTop(q, G, Put(l, LeadOf(g), r)), Between(l, g, r), Between(Cat(l, a), h, Cat(b, r)))
<1>1. IsMonic(q, G) /\ IsDistinct(G) /\ InclusionsMeet(q, G)
  BY DEF IsConfluent
<1>2. g \in Polys(q) /\ h \in Polys(q) /\ LeadOf(g) \in Words /\ LeadOf(h) \in Words
  BY <1>1, MonicLead
<1>3. Between(l, Between(a, h, b), r) = Between(Cat(l, a), h, Cat(b, r))
  BY <1>2, BetweenBetween
<1>4. CASE a # EmptyWord \/ b # EmptyWord
  <2>1. SameModulo(q, BelowTop(q, G, LeadOf(g)), g, Between(a, h, b))
    BY <1>1, <1>4 DEF InclusionsMeet
  <2>2. Between(a, h, b) \in Polys(q)
    BY <1>2, BetweenType
  <2> QED BY <1>1, <1>2, <1>3, <2>1, <2>2, SameBetween
<1>5. CASE a = EmptyWord /\ b = EmptyWord
  <2>1. LeadOf(g) = LeadOf(h)
    BY <1>2, <1>5, PutEmpty
  <2>2. g = h
    BY <1>1, <2>1 DEF IsDistinct
  <2>3. Between(Cat(l, a), h, Cat(b, r)) = Between(l, g, r)
    BY <1>5, <2>2, CatWithEmpty
  <2>4. Between(l, g, r) \in Polys(q) /\ IsSpace(q, BelowTop(q, G, Put(l, LeadOf(g), r)))
    BY <1>1, <1>2, BetweenType, BelowIs
  <2> QED BY <2>3, <2>4, SameIsEquivalence
<1> QED BY <1>4, <1>5

\* Two products of which the tops' leading words overlap.
LEMMA TopsOverlap ==
  ASSUME NEW q, IsModulus(q), NEW G, IsConfluent(q, G), NEW g \in G, NEW h \in G,
         NEW l \in Words, NEW a \in Words, NEW x \in Words, NEW b \in Words, NEW s \in Words,
         LeadOf(g) = Cat(a, x), LeadOf(h) = Cat(x, b), a # EmptyWord, x # EmptyWord, b # EmptyWord
  PROVE  SameModulo(q, BelowTop(q, G, Put(l, Cat(a, LeadOf(h)), s)),
              Between(l, g, Cat(b, s)), Between(Cat(l, a), h, s))
<1>1. IsMonic(q, G) /\ OverlapsMeet(q, G)
  BY DEF IsConfluent
<1>2. g \in Polys(q) /\ h \in Polys(q) /\ LeadOf(g) \in Words /\ LeadOf(h) \in Words
      /\ EmptyWord \in Words
  BY <1>1, MonicLead, CatWithEmpty
<1>3. SameModulo(q, BelowTop(q, G, Cat(a, LeadOf(h))), Between(EmptyWord, g, b), Between(a, h, EmptyWord))
  BY <1>1 DEF OverlapsMeet
<1>4. Between(EmptyWord, g, b) \in Polys(q) /\ Between(a, h, EmptyWord) \in Polys(q)
        /\ Cat(a, LeadOf(h)) \in Words
  BY <1>2, BetweenType, CatType
<1>5. SameModulo(q, BelowTop(q, G, Put(l, Cat(a, LeadOf(h)), s)), Between(l, Between(EmptyWord, g, b), s),
           Between(l, Between(a, h, EmptyWord), s))
  BY <1>1, <1>3, <1>4, SameBetween
<1>6. Between(l, Between(EmptyWord, g, b), s) = Between(l, g, Cat(b, s))
  <2>1. Between(l, Between(EmptyWord, g, b), s) = Between(Cat(l, EmptyWord), g, Cat(b, s))
    BY <1>2, BetweenBetween
  <2> QED BY <2>1, CatWithEmpty
<1>7. Between(l, Between(a, h, EmptyWord), s) = Between(Cat(l, a), h, s)
  <2>1. Between(l, Between(a, h, EmptyWord), s) = Between(Cat(l, a), h, Cat(EmptyWord, s))
    BY <1>2, BetweenBetween
  <2> QED BY <2>1, CatWithEmpty
<1> QED BY <1>5, <1>6, <1>7

\* All products with one top are the same up to what is generated below it; the
\* second leading word begins at or after the first.
LEMMA TopsInOrder ==
  ASSUME NEW q, IsModulus(q), NEW G, IsConfluent(q, G), NEW g \in G, NEW h \in G,
         NEW l \in Words, NEW r \in Words, NEW a \in Words, NEW s \in Words,
         Put(l, LeadOf(g), r) = Put(Cat(l, a), LeadOf(h), s)
  PROVE  SameModulo(q, BelowTop(q, G, Put(l, LeadOf(g), r)), Between(l, g, r), Between(Cat(l, a), h, s))
<1> DEFINE lg == LeadOf(g)
           lh == LeadOf(h)
           w == Put(l, lg, r)
           V == BelowTop(q, G, w)
<1>1. IsMonic(q, G) /\ IsDistinct(G)
  BY DEF IsConfluent
<1>2. g \in Polys(q) /\ h \in Polys(q) /\ lg \in Words /\ lh \in Words /\ EmptyWord \in Words
  BY <1>1, MonicLead, CatWithEmpty
<1>3. Cat(lg, r) = Cat(a, Cat(lh, s)) /\ Cat(lg, r) \in Words /\ Cat(lh, s) \in Words
  <2>1. Cat(lg, r) \in Words /\ Cat(lh, s) \in Words /\ Cat(l, a) \in Words /\ Cat(a, Cat(lh, s)) \in Words
    BY <1>2, CatType
  <2>2. Put(l, lg, r) = Cat(l, Cat(lg, r)) /\ Put(Cat(l, a), lh, s) = Cat(Cat(l, a), Cat(lh, s))
    BY <1>2, <2>1, PutCat
  <2>3. Cat(Cat(l, a), Cat(lh, s)) = Cat(l, Cat(a, Cat(lh, s)))
    BY <2>1, CatAssociates
  <2>4. Cat(l, Cat(lg, r)) = Cat(l, Cat(a, Cat(lh, s)))
    BY <2>2, <2>3
  <2> QED BY <2>1, <2>4, CatCancels
<1>4. IsSpace(q, V) /\ Between(l, g, r) \in Polys(q) /\ Between(Cat(l, a), h, s) \in Polys(q)
  BY <1>1, <1>2, CatType, BetweenType, BelowIs
\* side by side
<1>5. ASSUME NEW x \in Words, a = Cat(lg, x), r = Cat(x, Cat(lh, s))
      PROVE  SameModulo(q, V, Between(l, g, r), Between(Cat(l, a), h, s))
  <2>1. Cat(x, lh) \in Words /\ r = Cat(Cat(x, lh), s) /\ Cat(lg, Cat(x, lh)) \in Words
    BY <1>2, <1>5, CatType, CatAssociates
  <2>2. w = Put(l, Cat(lg, Cat(x, lh)), s)
    <3>1. w = Cat(Cat(l, lg), Cat(Cat(x, lh), s)) /\ Cat(l, lg) \in Words
      BY <1>2, <2>1, PutIsCat, CatType
    <3>2. w = Cat(Cat(Cat(l, lg), Cat(x, lh)), s)
      BY <2>1, <3>1, CatAssociates
    <3>3. Cat(Cat(l, lg), Cat(x, lh)) = Cat(l, Cat(lg, Cat(x, lh)))
      BY <1>2, <2>1, CatAssociates
    <3> QED BY <2>1, <3>2, <3>3, PutIsCat
  <2>3. SameModulo(q, BelowTop(q, G, Put(l, Cat(lg, Cat(x, lh)), s)),
             Between(l, g, Cat(Cat(x, lh), s)), Between(Cat(l, Cat(lg, x)), h, s))
    BY <1>1, TopsApart
  <2> QED BY <1>5, <2>1, <2>2, <2>3
\* the second inside the first
<1>6. ASSUME NEW b \in Words, lg = Put(a, lh, b), s = Cat(b, r)
      PROVE  SameModulo(q, V, Between(l, g, r), Between(Cat(l, a), h, s))
  BY <1>6, TopsInside
\* the first inside the second
<1>7. ASSUME NEW b \in Words, a = EmptyWord, lh = Cat(lg, b), r = Cat(b, s)
      PROVE  SameModulo(q, V, Between(l, g, r), Between(Cat(l, a), h, s))
  <2>1. lh = Put(EmptyWord, lg, b) /\ Cat(l, a) = l
    BY <1>2, <1>7, PutIsCat, CatWithEmpty
  <2>2. SameModulo(q, BelowTop(q, G, Put(l, lh, s)), Between(l, h, s), Between(Cat(l, EmptyWord), g, Cat(b, s)))
    BY <1>2, <2>1, TopsInside
  <2>3. SameModulo(q, V, Between(l, h, s), Between(l, g, r))
    BY <1>7, <2>1, <2>2
  <2> QED BY <1>4, <2>1, <2>3, SameIsEquivalence
\* an overlap
<1>8. ASSUME NEW x \in Words, NEW b \in Words, lg = Cat(a, x), lh = Cat(x, b), r = Cat(b, s),
             a # EmptyWord, x # EmptyWord, b # EmptyWord
      PROVE  SameModulo(q, V, Between(l, g, r), Between(Cat(l, a), h, s))
  <2>1. w = Put(l, Cat(a, lh), s)
    <3>1. Cat(a, lh) \in Words /\ Cat(a, x) \in Words /\ Cat(b, s) \in Words /\ Cat(l, lg) \in Words
      BY <1>2, CatType
    <3>2. w = Cat(Cat(l, lg), Cat(b, s))
      BY <1>2, <1>8, PutIsCat
    <3>3. w = Cat(Cat(Cat(l, lg), b), s)
      BY <3>1, <3>2, CatAssociates
    <3>4. Cat(Cat(l, lg), b) = Cat(l, Cat(lg, b))
      BY <1>2, CatAssociates
    <3>5. Cat(lg, b) = Cat(a, lh)
      BY <1>8, CatAssociates
    <3> QED BY <3>1, <3>3, <3>4, <3>5, PutIsCat
  <2>2. SameModulo(q, BelowTop(q, G, Put(l, Cat(a, lh), s)), Between(l, g, Cat(b, s)), Between(Cat(l, a), h, s))
    BY <1>8, TopsOverlap
  <2> QED BY <1>8, <2>1, <2>2
<1>9. CASE Begins(lg, r, a, Cat(lh, s))
  BY <1>5, <1>9 DEF Begins
<1>10. CASE Begins(a, Cat(lh, s), lg, r)
  <2>1. PICK x \in Words : lg = Cat(a, x) /\ Cat(lh, s) = Cat(x, r)
    BY <1>10 DEF Begins
  <2>2. CASE Begins(lh, s, x, r)
    <3>1. PICK b \in Words : x = Cat(lh, b) /\ s = Cat(b, r)
      BY <2>2 DEF Begins
    <3>2. lg = Put(a, lh, b)
      BY <1>2, <2>1, <3>1, PutCat
    <3> QED BY <1>6, <3>1, <3>2
  <2>3. CASE Begins(x, r, lh, s)
    <3>1. PICK b \in Words : lh = Cat(x, b) /\ r = Cat(b, s)
      BY <2>3 DEF Begins
    <3>2. CASE x = EmptyWord
      <4>1. a = Cat(lg, EmptyWord) /\ r = Cat(EmptyWord, Cat(lh, s))
        BY <1>2, <1>3, <2>1, <3>1, <3>2, CatWithEmpty
      <4> QED BY <1>2, <1>5, <4>1
    <3>3. CASE b = EmptyWord
      <4>1. lg = Put(a, lh, EmptyWord) /\ s = Cat(EmptyWord, r)
        BY <1>2, <2>1, <3>1, <3>3, CatWithEmpty, PutIsCat, CatType
      <4> QED BY <1>2, <1>6, <4>1
    <3>4. CASE a = EmptyWord
      <4>1. lh = Cat(lg, b)
        BY <2>1, <3>1, <3>4, CatWithEmpty
      <4> QED BY <1>7, <3>1, <3>4, <4>1
    <3> QED BY <1>8, <2>1, <3>1, <3>2, <3>3, <3>4
  <2>4. Begins(lh, s, x, r) \/ Begins(x, r, lh, s)
    BY <1>2, <2>1, SplitCompare
  <2> QED BY <2>2, <2>3, <2>4
<1>11. Begins(lg, r, a, Cat(lh, s)) \/ Begins(a, Cat(lh, s), lg, r)
  BY <1>2, <1>3, SplitCompare
<1> QED BY <1>9, <1>10, <1>11

\* All products with one top are the same up to what is generated below it.
LEMMA TopsAreSame ==
  ASSUME NEW q, IsModulus(q), NEW G, IsConfluent(q, G), NEW g \in G, NEW h \in G,
         NEW l \in Words, NEW r \in Words, NEW m \in Words, NEW s \in Words,
         Put(l, LeadOf(g), r) = Put(m, LeadOf(h), s)
  PROVE  SameModulo(q, BelowTop(q, G, Put(l, LeadOf(g), r)), Between(l, g, r), Between(m, h, s))
<1>1. IsMonic(q, G)
  BY DEF IsConfluent
<1>2. g \in Polys(q) /\ h \in Polys(q) /\ LeadOf(g) \in Words /\ LeadOf(h) \in Words
  BY <1>1, MonicLead
<1>3. /\ Cat(LeadOf(g), r) \in Words /\ Cat(LeadOf(h), s) \in Words
      /\ Cat(l, Cat(LeadOf(g), r)) = Cat(m, Cat(LeadOf(h), s))
  BY <1>2, CatType, PutCat
<1>4. CASE Begins(l, Cat(LeadOf(g), r), m, Cat(LeadOf(h), s))
  BY <1>4, TopsInOrder DEF Begins
<1>5. CASE Begins(m, Cat(LeadOf(h), s), l, Cat(LeadOf(g), r))
  <2>1. SameModulo(q, BelowTop(q, G, Put(m, LeadOf(h), s)), Between(m, h, s), Between(l, g, r))
    BY <1>5, TopsInOrder DEF Begins
  <2>2. /\ IsSpace(q, BelowTop(q, G, Put(m, LeadOf(h), s)))
        /\ Between(m, h, s) \in Polys(q) /\ Between(l, g, r) \in Polys(q)
    BY <1>1, <1>2, BelowIs, BetweenType
  <2> QED BY <2>1, <2>2, SameIsEquivalence
<1>6. \/ Begins(l, Cat(LeadOf(g), r), m, Cat(LeadOf(h), s))
      \/ Begins(m, Cat(LeadOf(h), s), l, Cat(LeadOf(g), r))
  BY <1>3, SplitCompare
<1> QED BY <1>4, <1>5, <1>6

\* a leading word of G is a factor of w
IsDivided(G, w) == \E g \in G : \E l, r \in Words : w = Put(l, LeadOf(g), r)

ProductsUpTo(q, G, w) ==
  {f \in Polys(q) : \E g \in G : \E l, r \in Words :
     /\ f = Between(l, g, r)
     /\ Put(l, LeadOf(g), r) = w \/ WordLess(Put(l, LeadOf(g), r), w)}

UpTo(q, G, w) == Span(q, ProductsUpTo(q, G, w))

\* What is generated up to a word is a space, and has every product with a top up to it.
LEMMA UpToIs ==
  ASSUME NEW q, IsModulus(q), NEW G, IsMonic(q, G), NEW w
  PROVE  /\ IsSpace(q, UpTo(q, G, w))
         /\ \A g \in G : \A l, r \in Words :
              Put(l, LeadOf(g), r) = w \/ WordLess(Put(l, LeadOf(g), r), w)
              => Between(l, g, r) \in UpTo(q, G, w)
<1>1. ProductsUpTo(q, G, w) \in SUBSET Polys(q)
  BY DEF ProductsUpTo
<1>2. IsSpace(q, UpTo(q, G, w)) /\ ProductsUpTo(q, G, w) \subseteq UpTo(q, G, w)
  BY <1>1, SpanIs DEF UpTo
<1>3. ASSUME NEW g \in G, NEW l \in Words, NEW r \in Words,
             Put(l, LeadOf(g), r) = w \/ WordLess(Put(l, LeadOf(g), r), w)
      PROVE  Between(l, g, r) \in UpTo(q, G, w)
  <2>1. Between(l, g, r) \in Polys(q)
    BY MonicLead, BetweenType
  <2> QED BY <1>2, <1>3, <2>1 DEF ProductsUpTo
<1> QED BY <1>2, <1>3

\* It is the least such space.
LEMMA UpToInSpace ==
  ASSUME NEW q, NEW G, NEW w, NEW V, IsSpace(q, V),
         \A g \in G : \A l, r \in Words :
           Put(l, LeadOf(g), r) = w \/ WordLess(Put(l, LeadOf(g), r), w) => Between(l, g, r) \in V
  PROVE  UpTo(q, G, w) \subseteq V
<1>1. ProductsUpTo(q, G, w) \subseteq V
  BY DEF ProductsUpTo
<1> QED BY <1>1, SpanIsLeast DEF UpTo

\* More is generated up to a larger word.
LEMMA UpToGrows ==
  ASSUME NEW q, IsModulus(q), NEW G, IsMonic(q, G), NEW u \in Words, NEW w \in Words,
         u = w \/ WordLess(u, w)
  PROVE  UpTo(q, G, u) \subseteq UpTo(q, G, w)
<1>1. ASSUME NEW g \in G, NEW l \in Words, NEW r \in Words,
             Put(l, LeadOf(g), r) = u \/ WordLess(Put(l, LeadOf(g), r), u)
      PROVE  Between(l, g, r) \in UpTo(q, G, w)
  <2>1. Put(l, LeadOf(g), r) \in Words
    BY MonicLead, PutType
  <2>2. Put(l, LeadOf(g), r) = w \/ WordLess(Put(l, LeadOf(g), r), w)
    BY <1>1, <2>1, WordOrder
  <2> QED BY <2>2, UpToIs
<1> QED BY <1>1, UpToIs, UpToInSpace

\* The union of the spaces up to the words of a set that is closed under the
\* larger of two words, with the zero polynomial.
LEMMA UpToSome ==
  ASSUME NEW q, IsModulus(q), NEW G, IsMonic(q, G), NEW W \in SUBSET Words
  PROVE  IsSpace(q, {f \in Polys(q) : f = ZeroPoly \/ \E u \in W : f \in UpTo(q, G, u)})
<1> DEFINE V == {f \in Polys(q) : f = ZeroPoly \/ \E u \in W : f \in UpTo(q, G, u)}
<1>1. ZeroPoly \in V
  BY ZeroIs
<1>2. ASSUME NEW f \in V, NEW h \in V, NEW c \in Int PROVE AddScaled(q, f, c, h) \in V
  <2>1. f \in Polys(q) /\ h \in Polys(q) /\ AddScaled(q, f, c, h) \in Polys(q)
    BY PolySumType
  <2>2. ASSUME NEW u \in W, f \in UpTo(q, G, u), h \in UpTo(q, G, u) PROVE AddScaled(q, f, c, h) \in V
    <3>1. AddScaled(q, f, c, h) \in UpTo(q, G, u)
      BY <2>2, UpToIs DEF IsSpace
    <3> QED BY <2>1, <3>1
  <2>3. \A u \in W : ZeroPoly \in UpTo(q, G, u)
    BY UpToIs DEF IsSpace
  <2>4. CASE f = ZeroPoly /\ h = ZeroPoly
    <3>1. AddScaled(q, f, c, h) = ZeroPoly
      BY <2>1, <2>4, PlusZero
    <3> QED BY <1>1, <3>1
  <2>5. CASE f = ZeroPoly /\ h # ZeroPoly
    BY <2>2, <2>3, <2>5
  <2>6. CASE f # ZeroPoly /\ h = ZeroPoly
    BY <2>2, <2>3, <2>6
  <2>7. CASE f # ZeroPoly /\ h # ZeroPoly
    <3>1. PICK u \in W : f \in UpTo(q, G, u)
      BY <2>7
    <3>2. PICK v \in W : h \in UpTo(q, G, v)
      BY <2>7
    <3>3. u = v \/ WordLess(u, v) \/ WordLess(v, u)
      BY WordOrder
    <3>4. CASE u = v \/ WordLess(u, v)
      <4>1. f \in UpTo(q, G, v)
        BY <3>1, <3>4, UpToGrows
      <4> QED BY <2>2, <3>2, <4>1
    <3>5. CASE WordLess(v, u)
      <4>1. h \in UpTo(q, G, u)
        BY <3>2, <3>5, UpToGrows
      <4> QED BY <2>2, <3>1, <4>1
    <3> QED BY <3>3, <3>4, <3>5
  <2> QED BY <2>4, <2>5, <2>6, <2>7
<1> HIDE DEF V
<1>3. V \subseteq Polys(q)
  BY DEF V
<1>4. IsSpace(q, V)
  BY <1>1, <1>2, <1>3 DEF IsSpace
<1> QED BY <1>4 DEF V

\* An element up to w is one below w with a multiple of any product whose top is w.
LEMMA UpToIsTop ==
  ASSUME NEW q, IsModulus(q), NEW G, IsConfluent(q, G), NEW g \in G, NEW l \in Words, NEW r \in Words,
         NEW f \in UpTo(q, G, Put(l, LeadOf(g), r))
  PROVE  \E c \in Int : AddScaled(q, f, -c, Between(l, g, r)) \in BelowTop(q, G, Put(l, LeadOf(g), r))
<1> DEFINE w == Put(l, LeadOf(g), r)
           b == Between(l, g, r)
           B == BelowTop(q, G, w)
           V == {h \in Polys(q) : \E c \in Int : AddScaled(q, h, -c, b) \in B}
<1>1. IsMonic(q, G)
  BY DEF IsConfluent
<1>2. g \in Polys(q) /\ b \in Polys(q) /\ IsSpace(q, B)
  BY <1>1, MonicLead, BetweenType, BelowIs
<1>3. ASSUME NEW h \in B PROVE h \in V
  <2>1. h \in Polys(q)
    BY <1>2 DEF IsSpace
  <2>2. AddScaled(q, h, 0, b) = h
    BY <1>2, <2>1, ZeroTimes
  <2>3. PICK c \in Int : c = 0 /\ -c = 0
    BY MinusNought
  <2>4. AddScaled(q, h, -c, b) \in B
    BY <2>2, <2>3
  <2> HIDE DEF B, b
  <2> QED BY <2>1, <2>4
<1>4. ZeroPoly \in V
  BY <1>2, <1>3 DEF IsSpace
<1>5. ASSUME NEW h \in V, NEW k \in V, NEW d \in Int PROVE AddScaled(q, h, d, k) \in V
  <2>1. h \in Polys(q) /\ k \in Polys(q) /\ AddScaled(q, h, d, k) \in Polys(q)
    BY PolySumType
  <2>2. PICK m \in Int : AddScaled(q, h, -m, b) \in B
    OBVIOUS
  <2>3. PICK n \in Int : AddScaled(q, k, -n, b) \in B
    OBVIOUS
  <2>4. m + d * n \in Int /\ Congruent(q, m + d * n, m + d * n)
    BY CongruenceLaws
  <2> HIDE DEF B, b
  <2>5. AddScaled(q, AddScaled(q, h, d, k), -(m + d * n), b) \in B
    BY <1>2, <2>1, <2>2, <2>3, <2>4, MultipleOfSum
  <2> QED BY <2>1, <2>4, <2>5
<1>6. IsSpace(q, V)
  BY <1>4, <1>5 DEF IsSpace
<1>7. ASSUME NEW h \in G, NEW m \in Words, NEW s \in Words,
             Put(m, LeadOf(h), s) = w \/ WordLess(Put(m, LeadOf(h), s), w)
      PROVE  Between(m, h, s) \in V
  <2>1. CASE WordLess(Put(m, LeadOf(h), s), w)
    BY <1>1, <1>3, <2>1, BelowIs
  <2>2. CASE Put(m, LeadOf(h), s) = w
    <3>1. SameModulo(q, BelowTop(q, G, Put(m, LeadOf(h), s)), Between(m, h, s), b)
      BY <2>2, TopsAreSame
    <3>2. AddScaled(q, Between(m, h, s), -1, b) \in B /\ Between(m, h, s) \in Polys(q)
      BY <1>1, <2>2, <3>1, MonicLead, BetweenType DEF SameModulo
    <3> HIDE DEF B, b
    <3> QED BY <3>2
  <2> QED BY <1>7, <2>1, <2>2
<1> HIDE DEF V, B, b
<1>8. f \in V
  <2>1. UpTo(q, G, w) \subseteq V
    <3> HIDE DEF w
    <3> QED BY <1>6, <1>7, UpToInSpace
  <2> QED BY <2>1
<1> QED BY <1>8 DEF V, B, b

\* A sum has no words but those of its summands.
LEMMA SumDomain ==
  ASSUME NEW q, IsModulus(q), NEW f \in Polys(q), NEW h \in Polys(q), NEW c \in Int
  PROVE  /\ DOMAIN AddScaled(q, f, c, h) \subseteq DOMAIN f \cup DOMAIN h
         /\ DOMAIN f \subseteq DOMAIN AddScaled(q, f, c, h) \cup DOMAIN h
<1>1. DOMAIN AddScaled(q, f, c, h) \subseteq DOMAIN f \cup DOMAIN h
  BY DEF AddScaled
<1>2. ASSUME NEW w \in DOMAIN f, w \notin DOMAIN h PROVE w \in DOMAIN AddScaled(q, f, c, h)
  <2>1. w \in Words /\ Coef(f, w) \in 0 .. q - 1 /\ Coef(f, w) # 0
    BY CoefIs
  <2>2. Coef(h, w) = 0
    BY <1>2 DEF Coef
  <2>3. Coef(AddScaled(q, f, c, h), w) = (Coef(f, w) + c * Coef(h, w)) % q
    BY <2>1, SumOfPolys
  <2>4. Coef(f, w) + c * Coef(h, w) = Coef(f, w)
    BY <2>1, <2>2
  <2>5. Coef(f, w) % q = Coef(f, w)
    BY <2>1, Remainder
  <2> QED BY <2>1, <2>3, <2>4, <2>5 DEF Coef
<1> QED BY <1>1, <1>2

\* An element of UpTo at a top is below it, or has the top as its leading word.
LEMMA UpToTopLead ==
  ASSUME NEW q, IsModulus(q), NEW G, IsConfluent(q, G), NEW g \in G, NEW l \in Words, NEW r \in Words,
         NEW f \in UpTo(q, G, Put(l, LeadOf(g), r))
  PROVE  f \in BelowTop(q, G, Put(l, LeadOf(g), r)) \/ LeadOf(f) = Put(l, LeadOf(g), r)
<1> DEFINE w == Put(l, LeadOf(g), r)
           b == Between(l, g, r)
<1>1. IsMonic(q, G)
  BY DEF IsConfluent
<1>2. g \in Polys(q) /\ g # ZeroPoly /\ Coef(g, LeadOf(g)) = 1 /\ LeadOf(g) \in Words /\ w \in Words
      /\ b \in Polys(q)
  BY <1>1, MonicLead, BetweenType, PutType
<1>3. Coef(b, w) = 1 /\ \A u \in DOMAIN b : u # w => WordLess(u, w)
  <2>1. Coef(b, w) = Coef(g, LeadOf(g))
    BY <1>2, BetweenCoef
  <2> QED BY <1>2, <2>1, LeadOfBetween
<1>4. PICK c \in Int : AddScaled(q, f, -c, b) \in BelowTop(q, G, w)
  BY UpToIsTop
<1> DEFINE d == AddScaled(q, f, -c, b)
<1>5. f \in Polys(q) /\ d \in Polys(q) /\ -c \in Int
  BY <1>1, <1>2, UpToIs, PolySumType DEF IsSpace
<1>6. \A u \in DOMAIN d : WordLess(u, w)
  BY <1>1, <1>2, <1>4, BelowIsSmall
<1>7. \A u \in DOMAIN f : u # w => WordLess(u, w)
  BY <1>2, <1>3, <1>5, <1>6, SumDomain
<1>8. CASE w \in DOMAIN f
  BY <1>5, <1>7, <1>8, LeadIsUnique
<1>9. CASE w \notin DOMAIN f
  <2>1. Coef(f, w) = 0 /\ Coef(d, w) = 0
    <3>1. w \notin DOMAIN d
      BY <1>2, <1>6, WordOrder
    <3> QED BY <1>9, <3>1 DEF Coef
  <2>2. Congruent(q, Coef(d, w), Coef(f, w) + (-c) * Coef(b, w))
    BY <1>2, <1>5, SumCongruent
  <2>3. Coef(f, w) + (-c) * Coef(b, w) = -c
    BY <1>3, <1>5, <2>1
  <2>4. Congruent(q, -c, 0)
    BY <1>5, <2>1, <2>2, <2>3, CongruenceLaws
  <2>5. d = AddScaled(q, f, 0, b)
    BY <1>2, <1>5, <2>4, SumsOfPolysLaws
  <2>6. d = f
    BY <1>2, <1>5, <2>5, ZeroTimes
  <2> QED BY <1>4, <2>6
<1> QED BY <1>8, <1>9

\* In a confluent basis every element of the ideal has a leading word with a
\* leading word of the basis as a factor.
THEOREM DiamondLemma ==
  ASSUME NEW q, IsModulus(q), NEW G, IsConfluent(q, G), NEW f \in Ideal(q, G), f # ZeroPoly
  PROVE  IsDivided(G, LeadOf(f))
<1> DEFINE P == {w \in Words : \A h \in UpTo(q, G, w) : h # ZeroPoly => IsDivided(G, LeadOf(h))}
<1>1. IsMonic(q, G)
  BY DEF IsConfluent
<1>2. ASSUME NEW w \in Words, \A u \in Words : WordLess(u, w) => u \in P PROVE w \in P
  <2> DEFINE W == {u \in Words : WordLess(u, w)}
             V == {h \in Polys(q) : h = ZeroPoly \/ \E u \in W : h \in UpTo(q, G, u)}
  <2>1. ASSUME NEW h \in BelowTop(q, G, w), h # ZeroPoly PROVE IsDivided(G, LeadOf(h))
    <3>1. IsSpace(q, V)
      BY <1>1, UpToSome
    <3>2. ASSUME NEW g \in G, NEW l \in Words, NEW r \in Words, WordLess(Put(l, LeadOf(g), r), w)
          PROVE  Between(l, g, r) \in V
      <4>1. Put(l, LeadOf(g), r) \in W /\ Between(l, g, r) \in Polys(q)
        BY <1>1, <3>2, MonicLead, PutType, BetweenType
      <4>2. Between(l, g, r) \in UpTo(q, G, Put(l, LeadOf(g), r))
        BY <1>1, UpToIs
      <4> QED BY <4>1, <4>2
    <3>3. h \in V
      <4> HIDE DEF V
      <4> QED BY <3>1, <3>2, BelowInSpace
    <3>4. PICK u \in W : h \in UpTo(q, G, u)
      BY <2>1, <3>3
    <3> QED BY <1>2, <2>1, <3>4
  <2>2. ASSUME NEW h \in UpTo(q, G, w), h # ZeroPoly PROVE IsDivided(G, LeadOf(h))
    <3>1. CASE \E g \in G : \E l, r \in Words : w = Put(l, LeadOf(g), r)
      <4>1. PICK g \in G, l \in Words, r \in Words : w = Put(l, LeadOf(g), r)
        BY <3>1
      <4>2. h \in BelowTop(q, G, w) \/ LeadOf(h) = w
        BY <4>1, UpToTopLead
      <4> QED BY <2>1, <2>2, <4>1, <4>2 DEF IsDivided
    <3>2. CASE \A g \in G : \A l, r \in Words : w # Put(l, LeadOf(g), r)
      <4>1. \A g \in G : \A l, r \in Words :
              Put(l, LeadOf(g), r) = w \/ WordLess(Put(l, LeadOf(g), r), w)
              => Between(l, g, r) \in BelowTop(q, G, w)
        BY <1>1, <3>2, BelowIs
      <4>2. h \in BelowTop(q, G, w)
        BY <1>1, <4>1, BelowIs, UpToInSpace
      <4> QED BY <2>1, <2>2, <4>2
    <3> QED BY <3>1, <3>2
  <2> QED BY <2>2
<1>3. Words \subseteq P
  <2> HIDE DEF P
  <2> QED BY <1>2, WordInduction
<1> DEFINE V == {h \in Polys(q) : h = ZeroPoly \/ \E u \in Words : h \in UpTo(q, G, u)}
<1>4. f \in V
  <2>1. IsSpace(q, V)
    BY <1>1, UpToSome
  <2>2. ASSUME NEW g \in G, NEW l \in Words, NEW r \in Words PROVE Between(l, g, r) \in V
    <3>1. Put(l, LeadOf(g), r) \in Words /\ Between(l, g, r) \in Polys(q)
      BY <1>1, MonicLead, PutType, BetweenType
    <3>2. Between(l, g, r) \in UpTo(q, G, Put(l, LeadOf(g), r))
      BY <1>1, UpToIs
    <3> QED BY <3>1, <3>2
  <2> HIDE DEF V
  <2> QED BY <2>1, <2>2, IdealInSpace
<1> QED BY <1>3, <1>4

-----------------------------------------------------------------------------
(* Division.                                                               *)

\* Taking away a multiple that has the leading word makes it smaller or nothing is left.
LEMMA LeadTakenAway ==
  ASSUME NEW q, IsModulus(q), NEW f \in Polys(q), f # ZeroPoly, NEW b \in Polys(q), b # ZeroPoly,
         LeadOf(b) = LeadOf(f), Coef(b, LeadOf(b)) = 1
  PROVE  LET h == AddScaled(q, f, -Coef(f, LeadOf(f)), b)
         IN  h \in Polys(q) /\ (h = ZeroPoly \/ WordLess(LeadOf(h), LeadOf(f)))
<1> DEFINE w == LeadOf(f)
           c == Coef(f, w)
           h == AddScaled(q, f, -c, b)
<1>1. w \in Words /\ c \in Int /\ -c \in Int
  BY LeadIs, CoefIs
<1>2. h \in Polys(q)
  BY <1>1, PolySumType
<1>3. \A u \in DOMAIN h : u # w => WordLess(u, w)
  BY <1>1, SumDomain, LeadIs
<1>4. w \notin DOMAIN h
  <2>1. Coef(h, w) = (c + (-c) * Coef(b, w)) % q
    BY <1>1, SumOfPolys
  <2>2. c + (-c) * Coef(b, w) = 0
    BY <1>1
  <2>3. 0 % q = 0
    <3>1. 0 \in 0 .. q - 1
      BY DEF IsModulus
    <3> QED BY <3>1, Remainder
  <2>4. Coef(h, w) = 0
    BY <2>1, <2>2, <2>3
  <2> HIDE DEF h
  <2> QED BY <1>2, <2>4, CoefIs
<1>5. h # ZeroPoly => LeadOf(h) \in DOMAIN h
  BY <1>2, LeadIs
<1> HIDE DEF h
<1>6. h \in Polys(q) /\ (h = ZeroPoly \/ WordLess(LeadOf(h), w))
  BY <1>2, <1>3, <1>4, <1>5
<1> QED BY <1>6 DEF h

\* An ideal of which every element is divided is generated by what divides it.
LEMMA Division ==
  ASSUME NEW q, IsModulus(q), NEW J, IsSpace(q, J), NEW K, IsMonic(q, K),
         \A k \in K : \A l, r \in Words : Between(l, k, r) \in J,
         \A f \in J : f # ZeroPoly => IsDivided(K, LeadOf(f))
  PROVE  J \subseteq Ideal(q, K)
<1> DEFINE P == {w \in Words : \A f \in J : f # ZeroPoly /\ LeadOf(f) = w => f \in Ideal(q, K)}
<1>1. K \in SUBSET Polys(q) /\ J \subseteq Polys(q)
  BY DEF IsMonic, IsSpace
<1>2. IsSpace(q, Ideal(q, K)) /\ ZeroPoly \in Ideal(q, K)
  BY <1>1, IdealIs DEF IsSpace
<1>3. ASSUME NEW w \in Words, \A u \in Words : WordLess(u, w) => u \in P PROVE w \in P
  <2> SUFFICES ASSUME NEW f \in J, f # ZeroPoly, LeadOf(f) = w PROVE f \in Ideal(q, K)
    OBVIOUS
  <2>1. f \in Polys(q)
    BY <1>1
  <2>2. PICK k \in K, l \in Words, r \in Words : w = Put(l, LeadOf(k), r)
    BY DEF IsDivided
  <2> DEFINE b == Between(l, k, r)
             c == Coef(f, w)
             h == AddScaled(q, f, -c, b)
  <2>3. k \in Polys(q) /\ k # ZeroPoly /\ Coef(k, LeadOf(k)) = 1 /\ LeadOf(k) \in Words
    BY MonicLead
  <2>4. b \in Polys(q) /\ LeadOf(b) = w /\ Coef(b, w) = 1 /\ w \in DOMAIN b
    BY <2>2, <2>3, BetweenType, LeadOfBetween, BetweenCoef
  <2>5. b # ZeroPoly
    BY <2>4, ZeroIs
  <2>6. h \in Polys(q) /\ (h = ZeroPoly \/ WordLess(LeadOf(h), w))
    BY <2>1, <2>4, <2>5, LeadTakenAway
  <2>7. c \in Int /\ -c \in Int /\ (-c) + c = 0
    BY <2>1, CoefIs
  <2>8. b \in J /\ b \in Ideal(q, K)
    BY <1>1, IdealIs
  <2>9. h \in J
    BY <2>7, <2>8 DEF IsSpace
  <2>10. h \in Ideal(q, K)
    <3>1. CASE h = ZeroPoly
      BY <1>2, <3>1
    <3>2. CASE h # ZeroPoly
      <4>1. LeadOf(h) \in Words /\ WordLess(LeadOf(h), w)
        BY <2>6, <3>2, LeadIs
      <4> QED BY <1>3, <2>9, <3>2, <4>1
    <3> QED BY <3>1, <3>2
  <2>11. AddScaled(q, h, c, b) = f
    BY <2>1, <2>4, <2>7, AndBack
  <2>12. AddScaled(q, h, c, b) \in Ideal(q, K)
    BY <1>2, <2>7, <2>8, <2>10 DEF IsSpace
  <2> QED BY <2>11, <2>12
<1>4. Words \subseteq P
  <2> HIDE DEF P
  <2> QED BY <1>3, WordInduction
<1>5. ASSUME NEW f \in J PROVE f \in Ideal(q, K)
  <2>1. CASE f = ZeroPoly
    BY <1>2, <2>1
  <2>2. CASE f # ZeroPoly
    BY <1>1, <1>4, <2>2, LeadIs
  <2> QED BY <2>1, <2>2
<1> QED BY <1>5

Invertible(q) == \A a \in 1 .. q - 1 : \E b \in 1 .. q - 1 : (b * a) % q = 1

\* The least of a set of numbers.
LEMMA MinIs ==
  ASSUME NEW S \in SUBSET Nat, S # {}
  PROVE  Min(S) \in S /\ \A x \in S : Min(S) <= x
<1>1. PICK x \in S : \A y \in S : x <= y
  BY LeastNumber
<1>2. Min(S) = CHOOSE y \in S : \A z \in S : y <= z
  BY DEF Min
<1> QED BY <1>1, <1>2

\* The occurrences of a factor are the ways to put it between two words.
LEMMA FactorIs ==
  ASSUME NEW w \in Words, NEW u \in Words
  PROVE  /\ Occurrences(w, u) # {} <=> \E l, r \in Words : w = Put(l, u, r)
         /\ Occurrences(w, u) \in SUBSET Nat
         /\ \A k \in Occurrences(w, u) :
              /\ SubSeq(w, 1, k) \in Words /\ SubSeq(w, k + Len(u) + 1, Len(w)) \in Words
              /\ Len(SubSeq(w, 1, k)) = k
              /\ w = Put(SubSeq(w, 1, k), u, SubSeq(w, k + Len(u) + 1, Len(w)))
         /\ \A l, r \in Words : w = Put(l, u, r) => Len(l) \in Occurrences(w, u)
<1>1. ASSUME NEW k \in Occurrences(w, u)
      PROVE  /\ k \in Nat
             /\ SubSeq(w, 1, k) \in Words /\ SubSeq(w, k + Len(u) + 1, Len(w)) \in Words
             /\ Len(SubSeq(w, 1, k)) = k
             /\ w = Put(SubSeq(w, 1, k), u, SubSeq(w, k + Len(u) + 1, Len(w)))
  <2>1. /\ k \in 0 .. Len(w)
        /\ SubSeq(w, 1, k) \in Words /\ Len(SubSeq(w, 1, k)) = k
        /\ SubSeq(w, k + Len(u) + 1, Len(w)) \in Words
        /\ w = SubSeq(w, 1, k) \o u \o SubSeq(w, k + Len(u) + 1, Len(w))
    BY <1>1, OccurrenceCut
  <2>2. k \in Nat
    BY <2>1
  <2> QED BY <2>1, <2>2 DEF Put
<1>2. ASSUME NEW l \in Words, NEW r \in Words, w = Put(l, u, r) PROVE Len(l) \in Occurrences(w, u)
  BY <1>2, OccurrenceCut DEF Put
<1> QED BY <1>1, <1>2

\* Zero and once a polynomial.
LEMMA OnePlus ==
  ASSUME NEW q, IsModulus(q), NEW f \in Polys(q)
  PROVE  AddScaled(q, ZeroPoly, 1, f) = f
<1>1. AddScaled(q, ZeroPoly, 1, f) \in Polys(q)
  BY ZeroIs, PolySumType
<1>2. ASSUME NEW w \in Words PROVE Congruent(q, Coef(AddScaled(q, ZeroPoly, 1, f), w), Coef(f, w))
  <2>1. Congruent(q, Coef(AddScaled(q, ZeroPoly, 1, f), w), Coef(ZeroPoly, w) + 1 * Coef(f, w))
    BY ZeroIs, SumCongruent
  <2>2. Coef(ZeroPoly, w) + 1 * Coef(f, w) = Coef(f, w)
    BY ZeroIs, CoefIs
  <2> QED BY <2>1, <2>2
<1> QED BY <1>1, <1>2, PolyCongruent

\* The add_scaled of the code adds a factor times a multiple by words.
LEMMA AddPolyIs ==
  ASSUME NEW q, NEW f, NEW c, NEW l, NEW h, NEW r
  PROVE  AddPoly(q, f, c, l, h, r) = AddScaled(q, f, c, Between(l, h, r))
BY DEF AddPoly

\* A number with remainder one.
LEMMA RemainderOne ==
  \A q : \A a \in Int : IsModulus(q) /\ (a % q) = 1 => Congruent(q, a, 1)
<1> SUFFICES ASSUME NEW q, NEW a \in Int, IsModulus(q), (a % q) = 1 PROVE Congruent(q, a, 1)
  OBVIOUS
<1>1. Congruent(q, a % q, a)
  BY Remainder
<1> QED BY <1>1, CongruenceLaws

\* MakeMonic keeps the leading word, and the space an element is in.
LEMMA MonicIs ==
  ASSUME NEW q, IsModulus(q), Invertible(q), NEW e, e.poly \in Polys(q), e.poly # ZeroPoly
  PROVE  LET h == MakeMonic(q, e).poly
         IN  /\ h \in Polys(q) /\ h # ZeroPoly
             /\ LeadOf(h) = LeadOf(e.poly) /\ Coef(h, LeadOf(h)) = 1
             /\ \A V : IsSpace(q, V) => (h \in V <=> e.poly \in V)
<1> DEFINE f == e.poly
           w == LeadOf(f)
           c == CHOOSE b \in 1 .. q - 1 : (b * f[w]) % q = 1
           h == AddScaled(q, ZeroPoly, c, f)
<1>1. /\ f \in Polys(q) /\ f # ZeroPoly /\ w \in Words
      /\ w \in DOMAIN f /\ f[w] \in 1 .. q - 1 /\ Coef(f, w) = f[w]
  BY LeadIs
<1>2. c \in 1 .. q - 1 /\ (c * f[w]) % q = 1
  BY <1>1 DEF Invertible
<1>3. MakeMonic(q, e).poly = h
  <2>1. w = LeadWord(e)
    BY DEF LeadOf, LeadWord
  <2>2. MakeMonic(q, e).poly = AddPoly(q, <<>>, c, <<>>, f, <<>>)
    BY <2>1 DEF MakeMonic
  <2>3. @ = AddScaled(q, ZeroPoly, c, Between(EmptyWord, f, EmptyWord))
    BY AddPolyIs DEF ZeroPoly, EmptyWord
  <2> QED BY <1>1, <2>2, <2>3, BetweenNothing
<1>4. c \in Int /\ f[w] \in Int /\ ZeroPoly \in Polys(q) /\ h \in Polys(q)
  BY <1>1, <1>2, ZeroIs, PolySumType
<1>5. Coef(h, w) = 1
  <2>1. Coef(h, w) = (Coef(ZeroPoly, w) + c * Coef(f, w)) % q
    <3>1. IsModulus(q) /\ ZeroPoly \in Polys(q) /\ c \in Int /\ f \in Polys(q) /\ w \in Words
      BY <1>1, <1>4
    <3> HIDE DEF c, f, w
    <3> QED BY ONLY <3>1, SumOfPolys, h = AddScaled(q, ZeroPoly, c, f)
  <2>2. Coef(ZeroPoly, w) + c * Coef(f, w) = c * f[w]
    BY <1>1, <1>4, ZeroIs
  <2> QED BY <1>2, <2>1, <2>2
<1>6. w \in DOMAIN h /\ h # ZeroPoly
  BY <1>5, ZeroIs DEF Coef
<1>7. \A u \in DOMAIN h : u \in DOMAIN f
  BY <1>1, <1>4, SumDomain, ZeroIs
<1>8. LeadOf(h) = w
  BY <1>1, <1>4, <1>6, <1>7, LeadIs, LeadIsUnique
<1>9. f = AddScaled(q, ZeroPoly, f[w], h)
  <2>1. AddScaled(q, ZeroPoly, f[w], h)
          = AddScaled(q, AddScaled(q, ZeroPoly, f[w], ZeroPoly), f[w] * c, f)
    BY <1>1, <1>4, SumsOfPolysLaws
  <2>2. AddScaled(q, ZeroPoly, f[w], ZeroPoly) = ZeroPoly
    BY <1>4, PlusZero
  <2>3. PICK d \in Int : d = f[w] * c /\ (d % q) = 1
    <3>1. f[w] * c \in Int /\ f[w] * c = c * f[w]
      BY <1>4
    <3> QED BY <1>2, <3>1
  <2>4. Congruent(q, d, 1)
    BY <2>3, RemainderOne
  <2>5. AddScaled(q, ZeroPoly, d, f) = AddScaled(q, ZeroPoly, 1, f)
    <3> HIDE DEF f
    <3>1. 1 \in Int
      OBVIOUS
    <3> QED BY <1>1, <1>4, <2>3, <2>4, <3>1, SumsOfPolysLaws
  <2> QED BY <1>1, <2>1, <2>2, <2>3, <2>5, OnePlus
<1>10. ASSUME NEW V, IsSpace(q, V) PROVE h \in V <=> f \in V
  <2>1. ZeroPoly \in V
    BY <1>10 DEF IsSpace
  <2>2. f \in V => h \in V
    BY <1>4, <1>10, <2>1, SpaceSum
  <2>3. h \in V => AddScaled(q, ZeroPoly, f[w], h) \in V
    BY <1>4, <1>10, <2>1, SpaceSum
  <2> QED BY <1>9, <2>2, <2>3
<1> HIDE DEF h, w, f
<1>11. f = e.poly /\ w = LeadOf(f)
  BY DEF f, w
<1> QED BY <1>3, <1>4, <1>5, <1>6, <1>8, <1>10, <1>11

-----------------------------------------------------------------------------
(* Compositions and ambiguities.                                           *)

\* The composition of two multiples with the same leading word.
Composition(q, g, vi, u, h, vj) ==
  AddPoly(q, AddPoly(q, <<>>, 1, <<>>, g, vi), q - 1, u, h, vj)

\* Congruent factors give the same sum.
LEMMA CongruentFactor ==
  \A q : IsModulus(q) =>
    \A f, h \in Polys(q) : \A c, e \in Int :
      Congruent(q, c, e) => AddScaled(q, f, c, h) = AddScaled(q, f, e, h)
BY SumsOfPolysLaws

\* The composition of the code is the difference of two multiples.
LEMMA CompositionIs ==
  ASSUME NEW q, IsModulus(q), NEW g \in Polys(q), NEW h \in Polys(q),
         NEW vi \in Words, NEW u \in Words, NEW vj \in Words
  PROVE  Composition(q, g, vi, u, h, vj)
           = AddScaled(q, Between(EmptyWord, g, vi), -1, Between(u, h, vj))
<1> DEFINE b == Between(EmptyWord, g, vi)
           d == Between(u, h, vj)
<1>1. b \in Polys(q) /\ d \in Polys(q)
  BY CatWithEmpty, BetweenType
<1>2. Composition(q, g, vi, u, h, vj) = AddScaled(q, AddScaled(q, ZeroPoly, 1, b), q - 1, d)
  BY AddPolyIs DEF Composition, ZeroPoly, EmptyWord
<1>3. AddScaled(q, ZeroPoly, 1, b) = b
  BY <1>1, OnePlus
<1>4. AddScaled(q, b, q - 1, d) = AddScaled(q, b, -1, d)
  <2>1. q - 1 \in Int /\ -1 \in Int
    BY DEF IsModulus
  <2>2. Congruent(q, q - 1, -1)
    <3>1. q - 1 = -1 + 1 * q
      BY DEF IsModulus
    <3> QED BY <3>1 DEF Congruent
  <2>3. PICK c \in Int : c = q - 1
    BY <2>1
  <2>4. PICK e \in Int : e = -1
    BY <2>1
  <2>5. Congruent(q, c, e)
    BY <2>2, <2>3, <2>4
  <2>6. AddScaled(q, b, c, d) = AddScaled(q, b, e, d)
    BY <1>1, <2>5, CongruentFactor
  <2> QED BY <2>3, <2>4, <2>6
<1> QED BY <1>2, <1>3, <1>4

\* Its leading words cancel.
LEMMA CompositionBelow ==
  ASSUME NEW q, IsModulus(q), NEW g \in Polys(q), NEW h \in Polys(q), g # ZeroPoly, h # ZeroPoly,
         Coef(g, LeadOf(g)) = 1, Coef(h, LeadOf(h)) = 1,
         NEW vi \in Words, NEW u \in Words, NEW vj \in Words,
         Put(EmptyWord, LeadOf(g), vi) = Put(u, LeadOf(h), vj)
  PROVE  /\ Composition(q, g, vi, u, h, vj) \in Polys(q)
         /\ \A w \in DOMAIN Composition(q, g, vi, u, h, vj) : WordLess(w, Put(EmptyWord, LeadOf(g), vi))
         /\ \A V : IsSpace(q, V) =>
              (Composition(q, g, vi, u, h, vj) \in V
               <=> SameModulo(q, V, Between(EmptyWord, g, vi), Between(u, h, vj)))
<1> DEFINE b == Between(EmptyWord, g, vi)
           d == Between(u, h, vj)
           s == Put(EmptyWord, LeadOf(g), vi)
           f == AddScaled(q, b, -1, d)
<1>1. b \in Polys(q) /\ d \in Polys(q) /\ f \in Polys(q)
  BY CatWithEmpty, BetweenType, PolySumType
<1>2. Composition(q, g, vi, u, h, vj) = f
  BY CompositionIs
<1>3. LeadOf(g) \in Words /\ LeadOf(h) \in Words /\ s \in Words /\ EmptyWord \in Words
  BY CatWithEmpty, LeadIs, PutType
<1>4. \A w \in DOMAIN b : w # s => WordLess(w, s)
  BY <1>3, LeadOfBetween
<1>5. \A w \in DOMAIN d : w # s => WordLess(w, s)
  BY <1>3, LeadOfBetween
<1>6. Coef(b, s) = 1
  BY <1>3, BetweenCoef
<1>7. Coef(d, s) = 1
  BY <1>3, BetweenCoef
<1>8. s \notin DOMAIN f
  <2>1. Coef(f, s) = (Coef(b, s) + (-1) * Coef(d, s)) % q
    BY <1>1, <1>3, SumOfPolys
  <2>2. Coef(b, s) + (-1) * Coef(d, s) = 0
    BY <1>6, <1>7
  <2>3. 0 % q = 0
    BY Remainder DEF IsModulus
  <2>4. Coef(f, s) = 0
    BY <2>1, <2>2, <2>3
  <2> QED BY <1>1, <2>4, CoefIs
<1>9. \A w \in DOMAIN f : WordLess(w, s)
  <2>1. DOMAIN f \subseteq DOMAIN b \cup DOMAIN d
    BY <1>1, SumDomain
  <2> QED BY <1>4, <1>5, <1>8, <2>1
<1> QED BY <1>1, <1>2, <1>9 DEF SameModulo

KeyOf(i, j, kind, offset) == <<i, j, kind, offset>>

\* The keys of a pair: its proper overlaps and its inclusions.
LEMMA PairAmbiguitiesAre ==
  ASSUME NEW i, NEW j, NEW li, NEW lj, NEW key
  PROVE  key \in PairAmbiguities(i, j, li, lj) <=>
           \/ \E k \in 1 .. Min({Len(li), Len(lj)}) - 1 :
                /\ SubSeq(li, Len(li) - k + 1, Len(li)) = SubSeq(lj, 1, k)
                /\ key = KeyOf(i, j, Overlap, Len(li) - k)
           \/ /\ Len(lj) < Len(li)
              /\ \E k \in Occurrences(li, lj) : key = KeyOf(i, j, Inclusion, k)
BY DEF PairAmbiguities, KeyOf

\* the two words of an overlap share one that is not empty
Shares(li, lj, u, vi) == vi = EmptyWord \/ \E x \in Words : x # EmptyWord /\ li = Cat(u, x) /\ lj = Cat(x, vi)

\* The lesser of two numbers.
LEMMA MinOfTwo ==
  \A a, b \in Nat : Min({a, b}) \in Nat /\ Min({a, b}) <= a /\ Min({a, b}) <= b
                    /\ (Min({a, b}) = a \/ Min({a, b}) = b)
<1> SUFFICES ASSUME NEW a \in Nat, NEW b \in Nat
             PROVE  Min({a, b}) \in {a, b} /\ \A x \in {a, b} : Min({a, b}) <= x
  OBVIOUS
<1> QED BY MinIs

\* A key is an ambiguity of its two words: the contexts are words, and the two
\* multiples have the same leading word.
LEMMA KeyIs ==
  ASSUME NEW i \in Nat, NEW j \in Nat, NEW li \in Words, NEW lj \in Words,
         NEW key \in PairAmbiguities(i, j, li, lj)
  PROVE  /\ key \in Words /\ Len(key) = 4 /\ key[1] = i /\ key[2] = j
         /\ Contexts(key, li, lj).vi \in Words /\ Contexts(key, li, lj).u \in Words
         /\ Contexts(key, li, lj).vj \in Words
         /\ Put(EmptyWord, li, Contexts(key, li, lj).vi)
              = Put(Contexts(key, li, lj).u, lj, Contexts(key, li, lj).vj)
         /\ Shares(li, lj, Contexts(key, li, lj).u, Contexts(key, li, lj).vi)
<1> DEFINE c == Contexts(key, li, lj)
<1>1. Len(li) \in Nat /\ Len(lj) \in Nat
  BY CatLen
<1>2. ASSUME NEW k \in 1 .. Min({Len(li), Len(lj)}) - 1,
             SubSeq(li, Len(li) - k + 1, Len(li)) = SubSeq(lj, 1, k),
             key = KeyOf(i, j, Overlap, Len(li) - k)
      PROVE  /\ key \in Words /\ Len(key) = 4 /\ key[1] = i /\ key[2] = j
             /\ c.vi \in Words /\ c.u \in Words /\ c.vj \in Words
             /\ Put(EmptyWord, li, c.vi) = Put(c.u, lj, c.vj) /\ Shares(li, lj, c.u, c.vi)
  <2>1. k \in Nat /\ k <= Len(li) /\ k <= Len(lj) /\ Len(li) - k \in 0 .. Len(li) /\ k \in 0 .. Len(lj)
        /\ Len(li) - k \in Nat
    BY <1>1, MinOfTwo
  <2>2. key \in Words /\ Len(key) = 4 /\ key[1] = i /\ key[2] = j /\ key[3] = Overlap
        /\ key[4] = Len(li) - k
    BY <1>2, <2>1 DEF KeyOf, Overlap, Words
  <2>3. c = [vi |-> SubSeq(lj, Len(li) - key[4] + 1, Len(lj)), u |-> SubSeq(li, 1, key[4]), vj |-> <<>>]
    BY <2>2 DEF Contexts
  <2>4. Len(li) - key[4] + 1 = k + 1 /\ Len(li) - k + 1 = (Len(li) - k) + 1
    BY <1>1, <2>1, <2>2
  <2>5. c.vi = SubSeq(lj, k + 1, Len(lj)) /\ c.u = SubSeq(li, 1, Len(li) - k) /\ c.vj = EmptyWord
    BY <2>2, <2>3, <2>4 DEF EmptyWord
  <2> DEFINE a == SubSeq(li, 1, Len(li) - k)
             x == SubSeq(lj, 1, k)
             b == SubSeq(lj, k + 1, Len(lj))
  <2>6. a \in Words /\ SubSeq(li, (Len(li) - k) + 1, Len(li)) \in Words
        /\ li = Cat(a, SubSeq(li, (Len(li) - k) + 1, Len(li)))
    BY <2>1, CutWord DEF Cat
  <2>7. x \in Words /\ Len(x) = k /\ b \in Words /\ lj = Cat(x, b)
    BY <2>1, CutWord DEF Cat
  <2>8. li = Cat(a, x)
    BY <1>2, <2>4, <2>6
  <2>9. a \in Words /\ x \in Words /\ b \in Words /\ lj = Cat(x, b) /\ li = Cat(a, x)
    BY <2>6, <2>7, <2>8
  <2>10. Put(EmptyWord, li, b) = Put(a, lj, EmptyWord)
    <3> HIDE DEF a, x, b
    <3>1. Put(EmptyWord, li, b) = Cat(li, b)
      BY <2>9, PutIsCat, CatWithEmpty, CatType
    <3>2. Put(a, lj, EmptyWord) = Cat(a, lj)
      BY <2>9, PutIsCat, CatWithEmpty, CatType
    <3>3. Cat(Cat(a, x), b) = Cat(a, Cat(x, b))
      BY <2>9, CatAssociates
    <3> QED BY <2>9, <3>1, <3>2, <3>3
  <2>11. Shares(li, lj, a, b)
    <3> HIDE DEF a, x, b
    <3>1. x # EmptyWord
      <4>1. Len(EmptyWord) = 0 /\ Len(x) # 0
        BY <2>1, <2>7, CatEmpty DEF EmptyWord
      <4> QED BY <4>1
    <3> QED BY <2>9, <3>1 DEF Shares
  <2> QED BY <2>2, <2>5, <2>6, <2>7, <2>10, <2>11, CatWithEmpty
<1>3. ASSUME NEW k \in Occurrences(li, lj), key = KeyOf(i, j, Inclusion, k)
      PROVE  /\ key \in Words /\ Len(key) = 4 /\ key[1] = i /\ key[2] = j
             /\ c.vi \in Words /\ c.u \in Words /\ c.vj \in Words
             /\ Put(EmptyWord, li, c.vi) = Put(c.u, lj, c.vj) /\ Shares(li, lj, c.u, c.vi)
  <2>1. /\ k \in Nat /\ SubSeq(li, 1, k) \in Words /\ SubSeq(li, k + Len(lj) + 1, Len(li)) \in Words
        /\ li = Put(SubSeq(li, 1, k), lj, SubSeq(li, k + Len(lj) + 1, Len(li)))
    BY FactorIs
  <2>2. key \in Words /\ Len(key) = 4 /\ key[1] = i /\ key[2] = j /\ key[3] = Inclusion /\ key[4] = k
    BY <1>3, <2>1 DEF KeyOf, Inclusion, Words
  <2>3. c = [vi |-> <<>>, u |-> SubSeq(li, 1, key[4]), vj |-> SubSeq(li, key[4] + Len(lj) + 1, Len(li))]
    BY <2>2 DEF Contexts, Overlap, Inclusion
  <2>4. c.vi = EmptyWord /\ c.u = SubSeq(li, 1, k) /\ c.vj = SubSeq(li, k + Len(lj) + 1, Len(li))
    <3> HIDE DEF c
    <3>1. c.vi = <<>> /\ c.u = SubSeq(li, 1, key[4]) /\ c.vj = SubSeq(li, key[4] + Len(lj) + 1, Len(li))
      BY <2>3
    <3> QED BY <2>2, <3>1 DEF EmptyWord
  <2>5. Put(EmptyWord, li, EmptyWord) = li
    BY PutEmpty
  <2>6. Shares(li, lj, c.u, c.vi)
    BY <2>4 DEF Shares
  <2> QED BY <2>1, <2>2, <2>4, <2>5, <2>6, CatWithEmpty
<1>4. \/ \E k \in 1 .. Min({Len(li), Len(lj)}) - 1 :
           /\ SubSeq(li, Len(li) - k + 1, Len(li)) = SubSeq(lj, 1, k)
           /\ key = KeyOf(i, j, Overlap, Len(li) - k)
      \/ \E k \in Occurrences(li, lj) : key = KeyOf(i, j, Inclusion, k)
  BY ONLY key \in PairAmbiguities(i, j, li, lj), PairAmbiguitiesAre
<1> HIDE DEF c
<1>5. /\ key \in Words /\ Len(key) = 4 /\ key[1] = i /\ key[2] = j
      /\ c.vi \in Words /\ c.u \in Words /\ c.vj \in Words
      /\ Put(EmptyWord, li, c.vi) = Put(c.u, lj, c.vj) /\ Shares(li, lj, c.u, c.vi)
  <2>1. CASE \E k \in 1 .. Min({Len(li), Len(lj)}) - 1 :
               /\ SubSeq(li, Len(li) - k + 1, Len(li)) = SubSeq(lj, 1, k)
               /\ key = KeyOf(i, j, Overlap, Len(li) - k)
    BY ONLY <1>2, <2>1
  <2>2. CASE \E k \in Occurrences(li, lj) : key = KeyOf(i, j, Inclusion, k)
    BY ONLY <1>3, <2>2
  <2> QED BY ONLY <1>4, <2>1, <2>2
<1> QED BY ONLY <1>5 DEF c

\* Every overlap of two words has a key.
LEMMA OverlapHasKey ==
  ASSUME NEW i \in Nat, NEW j \in Nat, NEW a \in Words, NEW x \in Words, NEW b \in Words,
         a # EmptyWord, x # EmptyWord, b # EmptyWord
  PROVE  \E key \in PairAmbiguities(i, j, Cat(a, x), Cat(x, b)) :
           LET c == Contexts(key, Cat(a, x), Cat(x, b)) IN c.vi = b /\ c.u = a /\ c.vj = EmptyWord
<1> DEFINE li == Cat(a, x)
           lj == Cat(x, b)
           k == Len(x)
           key == KeyOf(i, j, Overlap, Len(li) - k)
<1>1. /\ li \in Words /\ lj \in Words /\ Len(a) \in Nat /\ Len(x) \in Nat /\ Len(b) \in Nat
      /\ Len(li) = Len(a) + Len(x) /\ Len(lj) = Len(x) + Len(b)
  BY CatType, CatLen DEF Cat
<1>2. Len(a) # 0 /\ Len(x) # 0 /\ Len(b) # 0
  BY DEF EmptyWord, Words
<1>3. k \in 1 .. Min({Len(li), Len(lj)}) - 1
  BY <1>1, <1>2, MinOfTwo
<1>4. SubSeq(li, 1, Len(a)) = a /\ SubSeq(li, Len(a) + 1, Len(a) + Len(x)) = x
  BY PartsOfConcat DEF Cat
<1>5. SubSeq(lj, 1, Len(x)) = x /\ SubSeq(lj, Len(x) + 1, Len(x) + Len(b)) = b
  BY PartsOfConcat DEF Cat
<1>6. Len(li) - k + 1 = Len(a) + 1 /\ Len(li) - k = Len(a) /\ Len(li) = Len(a) + Len(x)
      /\ Len(li) - Len(a) = k
  BY <1>1
<1>7. SubSeq(li, Len(li) - k + 1, Len(li)) = SubSeq(lj, 1, k)
  BY <1>4, <1>5, <1>6
<1>8. key \in PairAmbiguities(i, j, li, lj)
  BY <1>3, <1>7, PairAmbiguitiesAre
<1>9. key[3] = Overlap /\ key[4] = Len(a)
  BY <1>6 DEF KeyOf
<1>10. Contexts(key, li, lj) = [vi |-> SubSeq(lj, Len(li) - key[4] + 1, Len(lj)),
                                u |-> SubSeq(li, 1, key[4]), vj |-> <<>>]
  BY <1>9 DEF Contexts
<1>11. Len(li) - key[4] + 1 = Len(x) + 1 /\ Len(lj) = Len(x) + Len(b)
  BY <1>1, <1>6, <1>9
<1>12. SubSeq(lj, Len(li) - key[4] + 1, Len(lj)) = b
  BY <1>5, <1>11
<1>13. SubSeq(li, 1, key[4]) = a
  BY <1>4, <1>9
<1> HIDE DEF key, li, lj
<1>14. Contexts(key, li, lj).vi = b /\ Contexts(key, li, lj).u = a /\ Contexts(key, li, lj).vj = EmptyWord
  BY <1>10, <1>12, <1>13 DEF EmptyWord
<1> QED BY <1>8, <1>14 DEF li, lj

\* Every factor that is a word of another element has a key.
LEMMA InclusionHasKey ==
  ASSUME NEW i \in Nat, NEW j \in Nat, NEW a \in Words, NEW u \in Words, NEW b \in Words,
         a # EmptyWord \/ b # EmptyWord
  PROVE  \E key \in PairAmbiguities(i, j, Put(a, u, b), u) :
           LET c == Contexts(key, Put(a, u, b), u) IN c.vi = EmptyWord /\ c.u = a /\ c.vj = b
<1> DEFINE li == Put(a, u, b)
           k == Len(a)
           key == KeyOf(i, j, Inclusion, k)
<1>1. /\ li \in Words /\ Len(a) \in Nat /\ Len(u) \in Nat /\ Len(b) \in Nat
      /\ Len(li) = Len(a) + Len(u) + Len(b)
  <2>1. Cat(a, u) \in Words /\ li = Cat(Cat(a, u), b)
    BY CatType, PutIsCat
  <2>2. Len(li) = Len(Cat(a, u)) + Len(b) /\ Len(Cat(a, u)) = Len(a) + Len(u)
    BY <2>1, CatLen DEF Cat
  <2> QED BY <2>1, <2>2, CatLen, PutType
<1>2. Len(a) # 0 \/ Len(b) # 0
  BY DEF EmptyWord, Words
<1>3. Len(u) < Len(li)
  BY <1>1, <1>2
<1>4. k \in Occurrences(li, u)
  BY <1>1, FactorIs
<1>5. key \in PairAmbiguities(i, j, li, u)
  BY <1>3, <1>4, PairAmbiguitiesAre
<1>6. key[3] = Inclusion /\ key[4] = k
  BY DEF KeyOf
<1>7. Contexts(key, li, u) = [vi |-> <<>>, u |-> SubSeq(li, 1, key[4]),
                              vj |-> SubSeq(li, key[4] + Len(u) + 1, Len(li))]
  BY <1>6 DEF Contexts, Overlap, Inclusion
<1>8. SubSeq(li, 1, k) = a
  <2>1. Cat(u, b) \in Words /\ li = Cat(a, Cat(u, b))
    BY CatType, PutCat
  <2> QED BY <2>1, PartsOfConcat DEF Cat
<1>9. SubSeq(li, k + Len(u) + 1, Len(li)) = b
  <2>1. Cat(a, u) \in Words /\ li = Cat(Cat(a, u), b) /\ Len(Cat(a, u)) = Len(a) + Len(u)
    BY CatType, PutIsCat, CatLen DEF Cat
  <2>2. SubSeq(Cat(a, u) \o b, Len(Cat(a, u)) + 1, Len(Cat(a, u)) + Len(b)) = b
    BY <2>1, PartsOfConcat
  <2>3. li = Cat(a, u) \o b
    BY <2>1 DEF Cat
  <2> QED BY <1>1, <2>1, <2>2, <2>3
<1> HIDE DEF key, li
<1>10. Contexts(key, li, u).vi = EmptyWord /\ Contexts(key, li, u).u = a /\ Contexts(key, li, u).vj = b
  BY <1>6, <1>7, <1>8, <1>9 DEF EmptyWord
<1> QED BY <1>5, <1>10 DEF li

-----------------------------------------------------------------------------
(* Sets in an order.                                                       *)

\* what SORTED leaves of a set, whatever the operator that compares is called
IsSorting(S, L, order) ==
  /\ DOMAIN order = 1 .. Cardinality(S)
  /\ \A n \in DOMAIN order : \A x \in S :
       Cardinality({y \in S : WordLess(L[y], L[x])}) = n - 1
       => /\ order[n] \in S
          /\ Cardinality({y \in S : WordLess(L[y], L[order[n]])}) = n - 1

\* the members of a set, each of them once
Lists(order, n, S) ==
  /\ DOMAIN order = 1 .. n
  /\ \A m \in DOMAIN order : order[m] \in S
  /\ \A m, s \in DOMAIN order : m # s => order[m] # order[s]
  /\ \A x \in S : \E m \in DOMAIN order : order[m] = x

\* each one comes after as many as are less
RankIn(S, L, x) == Cardinality({y \in S : WordLess(L[y], L[x])})

AreRanked(S, L, order) == \A n \in DOMAIN order : RankIn(S, L, order[n]) = n - 1

HaveDistinctWords(S, L) ==
  (\A x \in S : L[x] \in Words) /\ (\A x, y \in S : x # y => L[x] # L[y])

\* A sorted set lists each member once.
LEMMA SortedIs ==
  ASSUME NEW S, IsFiniteSet(S), NEW L, HaveDistinctWords(S, L), NEW order, IsSorting(S, L, order)
  PROVE  Cardinality(S) \in Nat /\ Lists(order, Cardinality(S), S) /\ AreRanked(S, L, order)
<1>0. /\ \A x \in S : L[x] \in Words
      /\ \A x, y \in S : x # y => L[x] # L[y]
      /\ DOMAIN order = 1 .. Cardinality(S)
      /\ \A n \in DOMAIN order : \A x \in S :
           Cardinality({y \in S : WordLess(L[y], L[x])}) = n - 1
           => /\ order[n] \in S
              /\ Cardinality({y \in S : WordLess(L[y], L[order[n]])}) = n - 1
  BY DEF HaveDistinctWords, IsSorting
<1> DEFINE Before(x) == {y \in S : WordLess(L[y], L[x])}
           f == [x \in S |-> Cardinality(Before(x)) + 1]
           T == 1 .. Cardinality(S)
<1>1. Cardinality(S) \in Nat
  BY FS_CardinalityType
<1>2. \A x \in S : IsFiniteSet(Before(x)) /\ Cardinality(Before(x)) \in Nat
  BY FS_Subset, FS_CardinalityType
<1>3. ASSUME NEW x \in S PROVE f[x] \in T
  <2>1. x \notin Before(x)
    BY <1>0, WordOrder
  <2>2. Before(x) \in SUBSET S
    OBVIOUS
  <2>3. Cardinality(Before(x)) <= Cardinality(S) /\ Cardinality(Before(x)) # Cardinality(S)
    BY <2>1, <2>2, FS_Subset
  <2> HIDE DEF Before
  <2> QED BY <1>1, <1>2, <2>3
<1>4. ASSUME NEW x \in S, NEW y \in S, x # y PROVE f[x] # f[y]
  <2>1. ASSUME NEW a \in S, NEW b \in S, WordLess(L[a], L[b])
        PROVE  Cardinality(Before(a)) # Cardinality(Before(b))
    <3>1. Before(a) \in SUBSET Before(b)
      BY <1>0, <2>1, WordOrder
    <3>2. a \in Before(b) /\ a \notin Before(a)
      BY <1>0, <2>1, WordOrder
    <3> HIDE DEF Before
    <3> QED BY <1>2, <3>1, <3>2, FS_Subset
  <2>2. WordLess(L[x], L[y]) \/ WordLess(L[y], L[x])
    BY <1>0, <1>4, WordOrder
  <2>3. Cardinality(Before(x)) # Cardinality(Before(y))
    BY <2>1, <2>2
  <2>4. f[x] = Cardinality(Before(x)) + 1 /\ f[y] = Cardinality(Before(y)) + 1
    BY DEF f
  <2> HIDE DEF Before, f
  <2> QED BY <1>2, <2>3, <2>4
<1>5. f \in [S -> T]
  BY <1>3
<1>6. f \in Surjection(S, T)
  <2>1. f \in Injection(S, T)
    <3> HIDE DEF f, T
    <3> QED BY <1>4, <1>5 DEF Injection, IsInjective
  <2>2. IsFiniteSet(T) /\ Cardinality(T) = Cardinality(S)
    <3>1. 1 \in Int /\ Cardinality(S) \in Int
      BY <1>1
    <3>2. IsFiniteSet(T) /\ Cardinality(T) = IF 1 > Cardinality(S) THEN 0 ELSE Cardinality(S) - 1 + 1
      BY <3>1, FS_Interval
    <3>3. PICK n \in Nat : n = Cardinality(S)
      BY <1>1
    <3>4. (IF 1 > n THEN 0 ELSE n - 1 + 1) = n
      OBVIOUS
    <3> QED BY <3>2, <3>3, <3>4
  <2> HIDE DEF f, T
  <2> QED BY <2>1, <2>2, FS_Injection
<1>7. ASSUME NEW n \in T PROVE order[n] \in S /\ f[order[n]] = n
  <2>1. \E x \in S : f[x] = n
    <3> HIDE DEF f, T
    <3> QED BY <1>6 DEF Surjection
  <2>2. PICK x \in S : f[x] = n
    BY <2>1
  <2>3. f[x] = Cardinality(Before(x)) + 1
    BY DEF f
  <2>4. Cardinality(Before(x)) = n - 1
    <3> HIDE DEF Before, f
    <3> QED BY <1>2, <2>2, <2>3
  <2>5. n \in DOMAIN order
    BY <1>0
  <2>6. order[n] \in S /\ Cardinality(Before(order[n])) = n - 1
    BY <1>0, <2>4, <2>5
  <2>7. f[order[n]] = Cardinality(Before(order[n])) + 1
    BY <2>6 DEF f
  <2>8. n \in Int
    BY <1>1
  <2> HIDE DEF Before, f
  <2> QED BY <2>6, <2>7, <2>8
<1>8. DOMAIN order = T
  BY <1>0
<1>9. \A x \in S : \E n \in T : order[n] = x
  <2> SUFFICES ASSUME NEW x \in S PROVE \E n \in T : order[n] = x
    OBVIOUS
  <2> HIDE DEF f
  <2>1. f[x] \in T /\ order[f[x]] \in S /\ f[order[f[x]]] = f[x]
    BY <1>3, <1>7
  <2>2. order[f[x]] = x
    BY <1>4, <2>1
  <2> QED BY <2>1, <2>2
<1> HIDE DEF f, T
<1>10. \A m, n \in T : m # n => order[m] # order[n]
  <2> SUFFICES ASSUME NEW m \in T, NEW n \in T, order[m] = order[n] PROVE m = n
    OBVIOUS
  <2>1. f[order[m]] = m /\ f[order[n]] = n
    BY <1>7
  <2> QED BY <2>1
<1>11. \A n \in T : order[n] \in S
  BY <1>7
<1>12. Cardinality(S) \in Nat /\ DOMAIN order = 1 .. Cardinality(S)
  BY <1>1, <1>8 DEF T
<1>13. AreRanked(S, L, order)
  <2> SUFFICES ASSUME NEW n \in T PROVE RankIn(S, L, order[n]) = n - 1
    BY <1>8 DEF AreRanked
  <2>1. order[n] \in S /\ f[order[n]] = n
    BY <1>7
  <2> PICK x \in S : x = order[n]
    BY <2>1
  <2>2. f[x] = RankIn(S, L, x) + 1
    BY DEF f, RankIn
  <2>3. RankIn(S, L, x) \in Nat
    BY <1>2 DEF RankIn
  <2> QED BY <2>1, <2>2, <2>3
<1> QED BY <1>8, <1>9, <1>10, <1>11, <1>12, <1>13 DEF Lists

-----------------------------------------------------------------------------
(* The automaton.                                                          *)

\* A part of a word.
LEMMA PartIs ==
  ASSUME NEW t \in Words, NEW k \in Nat, NEW j \in Nat, k >= 1, j <= Len(t), k <= j + 1
  PROVE  /\ SubSeq(t, k, j) \in Words /\ Len(SubSeq(t, k, j)) = j - k + 1
         /\ \A i \in 1 .. j - k + 1 : SubSeq(t, k, j)[i] = t[k + i - 1]
<1>1. t \in Seq(Nat)
  BY DEF Words
<1>2. SubSeq(t, k, j) \in Seq(Nat)
  BY <1>1
<1>3. Len(SubSeq(t, k, j)) = j - k + 1
  BY <1>1
<1>4. \A i \in 1 .. j - k + 1 : SubSeq(t, k, j)[i] = t[k + i - 1]
  BY <1>1
<1> QED BY <1>2, <1>3, <1>4 DEF Words

\* Two words are one when they agree everywhere.
LEMMA WordEqual ==
  ASSUME NEW u \in Words, NEW v \in Words, Len(u) = Len(v), \A i \in 1 .. Len(u) : u[i] = v[i]
  PROVE  u = v
BY DEF Words

\* A word is a suffix of another one when it is what follows a place of that one.
LEMMA SuffixIs ==
  ASSUME NEW w \in Words, NEW t \in Words, Len(w) >= 1
  PROVE  IsSuffix(w, t) <=> \E k \in DOMAIN t : SubSeq(t, k, Len(t)) = w
<1> DEFINE n == Len(t)
           m == Len(w)
           r == Reverse(w)
           z == Reverse(t)
<1>1. /\ w \in Seq(Nat) /\ t \in Seq(Nat) /\ n \in Nat /\ m \in Nat /\ m >= 1 /\ DOMAIN t = 1 .. n
      /\ DOMAIN w = 1 .. m
  BY DEF Words
<1>2. /\ r \in Words /\ z \in Words /\ Len(r) = m /\ Len(z) = n
      /\ \A i \in 1 .. m : r[i] = w[m - i + 1]
      /\ \A i \in 1 .. n : z[i] = t[n - i + 1]
  <2>1. /\ \A i \in 1 .. m : m - i + 1 \in 1 .. m
        /\ \A i \in 1 .. n : n - i + 1 \in 1 .. n
    BY <1>1
  <2>2. r = [i \in 1 .. m |-> w[m - i + 1]] /\ z = [i \in 1 .. n |-> t[n - i + 1]]
    BY DEF Reverse
  <2>3. r \in Seq(Nat) /\ Len(r) = m
    BY <1>1, <2>1, <2>2
  <2>4. z \in Seq(Nat) /\ Len(z) = n
    BY <1>1, <2>1, <2>2
  <2> QED BY <2>2, <2>3, <2>4 DEF Words
<1>3. IsSuffix(w, t) <=> m <= n /\ SubSeq(r, 1, m) = SubSeq(z, 1, m)
  BY <1>2 DEF IsSuffix, IsPrefix
<1> HIDE DEF n, m, r, z
<1>4. m <= n => (SubSeq(r, 1, m) = SubSeq(z, 1, m) <=> \A i \in 1 .. m : w[m - i + 1] = t[n - i + 1])
  <2> SUFFICES ASSUME m <= n
               PROVE  SubSeq(r, 1, m) = SubSeq(z, 1, m) <=> \A i \in 1 .. m : w[m - i + 1] = t[n - i + 1]
    OBVIOUS
  <2> DEFINE x == SubSeq(r, 1, m)
             y == SubSeq(z, 1, m)
  <2>1. /\ x \in Words /\ Len(x) = m /\ \A i \in 1 .. m : x[i] = w[m - i + 1]
    <3>1. x \in Words /\ Len(x) = m - 1 + 1 /\ \A i \in 1 .. m - 1 + 1 : x[i] = r[1 + i - 1]
      <4>1. r \in Words /\ 1 \in Nat /\ m \in Nat /\ m <= Len(r) /\ 1 <= m + 1
        BY <1>1, <1>2
      <4> QED BY ONLY <4>1, PartIs
    <3>2. \A i \in 1 .. m : x[i] = r[i]
      BY <1>1, <3>1
    <3> QED BY <1>1, <1>2, <3>1, <3>2
  <2>2. /\ y \in Words /\ Len(y) = m /\ \A i \in 1 .. m : y[i] = t[n - i + 1]
    <3>1. y \in Words /\ Len(y) = m - 1 + 1 /\ \A i \in 1 .. m - 1 + 1 : y[i] = z[1 + i - 1]
      <4>1. z \in Words /\ 1 \in Nat /\ m \in Nat /\ m <= Len(z) /\ 1 <= m + 1
        BY <1>1, <1>2
      <4> QED BY ONLY <4>1, PartIs
    <3>2. \A i \in 1 .. m : y[i] = z[i]
      BY <1>1, <3>1
    <3> QED BY <1>1, <1>2, <3>1, <3>2
  <2> HIDE DEF x, y
  <2>3. (\A i \in 1 .. m : x[i] = y[i]) => x = y
    BY <2>1, <2>2, WordEqual
  <2>4. x = y <=> \A i \in 1 .. m : w[m - i + 1] = t[n - i + 1]
    BY <2>1, <2>2, <2>3
  <2> QED BY <2>4 DEF x, y
<1>5. ASSUME m <= n, \A i \in 1 .. m : w[m - i + 1] = t[n - i + 1]
      PROVE  n - m + 1 \in DOMAIN t /\ SubSeq(t, n - m + 1, n) = w
  <2> DEFINE k == n - m + 1
             x == SubSeq(t, k, n)
  <2>1. k \in 1 .. n /\ k \in Nat /\ n - k + 1 = m
    BY <1>1, <1>5
  <2>2. x \in Words /\ Len(x) = m /\ \A i \in 1 .. m : x[i] = t[k + i - 1]
    <3>1. x \in Words /\ Len(x) = n - k + 1 /\ \A i \in 1 .. n - k + 1 : x[i] = t[k + i - 1]
      <4> HIDE DEF k
      <4> QED BY <1>1, <2>1, PartIs DEF n
    <3> QED BY <2>1, <3>1
  <2>3. ASSUME NEW i \in 1 .. m PROVE x[i] = w[i]
    <3>1. m - i + 1 \in 1 .. m /\ m - (m - i + 1) + 1 = i /\ n - (m - i + 1) + 1 = k + i - 1
      BY <1>1
    <3>2. w[m - (m - i + 1) + 1] = t[n - (m - i + 1) + 1]
      BY <1>5, <3>1
    <3>3. w[i] = t[k + i - 1]
      BY <3>1, <3>2
    <3> QED BY <2>2, <3>3
  <2> HIDE DEF x
  <2>4. x = w
    BY <2>2, <2>3, WordEqual DEF m
  <2> QED BY <1>1, <2>1, <2>4 DEF x
<1>6. ASSUME NEW k \in DOMAIN t, SubSeq(t, k, n) = w
      PROVE  m <= n /\ \A i \in 1 .. m : w[m - i + 1] = t[n - i + 1]
  <2>1. k \in Nat /\ k >= 1 /\ k <= n /\ k <= n + 1
    BY <1>1
  <2>2. m = n - k + 1 /\ \A i \in 1 .. n - k + 1 : w[i] = t[k + i - 1]
    <3>1. Len(SubSeq(t, k, n)) = n - k + 1 /\ \A i \in 1 .. n - k + 1 : SubSeq(t, k, n)[i] = t[k + i - 1]
      BY <1>1, <2>1, PartIs, SMTT(30) DEF n
    <3> QED BY <1>6, <3>1 DEF m
  <2>3. ASSUME NEW i \in 1 .. m PROVE w[m - i + 1] = t[n - i + 1]
    <3>1. m - i + 1 \in 1 .. m /\ k + (m - i + 1) - 1 = n - i + 1
      <4>1. m = n - k + 1 /\ m \in Nat /\ n \in Nat /\ k \in Nat /\ i \in 1 .. m
        BY <1>1, <2>1, <2>2
      <4> QED BY ONLY <4>1
    <3>2. w[m - i + 1] = t[k + (m - i + 1) - 1]
      BY <2>2, <3>1
    <3> QED BY <3>1, <3>2
  <2> QED BY <1>1, <2>1, <2>2, <2>3
<1>7. (\E k \in DOMAIN t : SubSeq(t, k, n) = w) <=> m <= n /\ \A i \in 1 .. m : w[m - i + 1] = t[n - i + 1]
  BY <1>5, <1>6
<1> QED BY <1>3, <1>4, <1>7 DEF n

-----------------------------------------------------------------------------
(* The word the automaton follows.                                         *)

Ending(t, k) == SubSeq(t, k, Len(t))

\* no word of a set is a factor of another one
AreApart(F) == \A u, v \in F : Occurrences(u, v) # {} => u = v

BeginningsOf(F) == UNION {{SubSeq(w, 1, n) : n \in 1 .. Len(w) - 1} : w \in F}

\* When a word of the set ends a word, the longest tracked ending is in the set.
LEMMA LongestEnding ==
  ASSUME NEW F \in SUBSET Words, AreApart(F), NEW t \in Words, NEW k \in DOMAIN t, Ending(t, k) \in F,
         NEW m \in DOMAIN t, m <= k, Ending(t, m) \in F \cup BeginningsOf(F)
  PROVE  Ending(t, m) \in F
<1> SUFFICES ASSUME Ending(t, m) \in BeginningsOf(F) PROVE FALSE
  OBVIOUS
<1> DEFINE n == Len(t)
           w == Ending(t, k)
           s == Ending(t, m)
<1>1. PICK v \in F : \E i \in 1 .. Len(v) - 1 : s = SubSeq(v, 1, i)
  BY DEF BeginningsOf
<1>j. PICK j \in 1 .. Len(v) - 1 : s = SubSeq(v, 1, j)
  BY <1>1
<1>2. /\ n \in Nat /\ DOMAIN t = 1 .. n /\ v \in Words /\ Len(v) \in Nat /\ k \in Nat /\ m \in Nat
      /\ k >= 1 /\ m >= 1 /\ k <= n /\ m <= n /\ j \in Nat /\ j >= 1 /\ j < Len(v)
  BY <1>1, <1>j, SMTT(30) DEF Words
<1>3. /\ w \in Words /\ Len(w) = n - k + 1 /\ \A i \in 1 .. n - k + 1 : w[i] = t[k + i - 1]
  BY <1>2, PartIs, SMTT(30) DEF Ending
<1>4. /\ s \in Words /\ Len(s) = n - m + 1 /\ \A i \in 1 .. n - m + 1 : s[i] = t[m + i - 1]
  BY <1>2, PartIs DEF Ending
<1>5. /\ Len(s) = j - 1 + 1 /\ \A i \in 1 .. j - 1 + 1 : s[i] = v[1 + i - 1]
  BY <1>1, <1>j, <1>2, PartIs
<1> HIDE DEF n, w, s
<1>6. j = n - m + 1 /\ \A i \in 1 .. j : s[i] = v[i]
  BY <1>2, <1>4, <1>5
<1> DEFINE o == k - m
           x == SubSeq(v, o + 1, o + Len(w))
<1>7. /\ o \in 0 .. Len(v) - Len(w) /\ o + Len(w) = j /\ o + 1 \in Nat /\ o + 1 >= 1
      /\ j - (o + 1) + 1 = Len(w) /\ Len(w) < Len(v) /\ o + 1 <= j + 1
  <2>1. /\ m <= k /\ n \in Nat /\ k \in Nat /\ m \in Nat /\ k >= 1 /\ m >= 1 /\ k <= n /\ m <= n
        /\ j \in Nat /\ j < Len(v) /\ Len(v) \in Nat /\ Len(w) = n - k + 1 /\ j = n - m + 1
    BY <1>2, <1>3, <1>6
  <2> QED BY ONLY <2>1, SMTT(30)
<1>8. x \in Words /\ Len(x) = Len(w) /\ \A i \in 1 .. Len(w) : x[i] = v[o + 1 + i - 1]
  <2> HIDE DEF o
  <2>1. /\ SubSeq(v, o + 1, j) \in Words /\ Len(SubSeq(v, o + 1, j)) = j - (o + 1) + 1
        /\ \A i \in 1 .. j - (o + 1) + 1 : SubSeq(v, o + 1, j)[i] = v[o + 1 + i - 1]
    BY <1>2, <1>7, PartIs
  <2> QED BY <1>7, <2>1
<1>9. ASSUME NEW i \in 1 .. Len(w) PROVE x[i] = w[i]
  <2>1. /\ i \in 1 .. n - k + 1 /\ o + i \in 1 .. j /\ o + i \in 1 .. n - m + 1 /\ o + 1 + i - 1 = o + i
        /\ m + (o + i) - 1 = k + i - 1
    <3>1. /\ m <= k /\ n \in Nat /\ k \in Nat /\ m \in Nat /\ k >= 1 /\ m >= 1 /\ k <= n /\ m <= n
          /\ i \in 1 .. Len(w) /\ Len(w) = n - k + 1 /\ j = n - m + 1
      BY <1>2, <1>3, <1>6
    <3> QED BY ONLY <3>1, SMTT(30)
  <2>2. x[i] = v[o + i] /\ w[i] = t[k + i - 1]
    BY <1>3, <1>8, <2>1
  <2>3. s[o + i] = v[o + i] /\ s[o + i] = t[m + (o + i) - 1]
    BY <1>4, <1>6, <2>1
  <2> QED BY <2>1, <2>2, <2>3
<1>10. x = w
  <2> HIDE DEF x
  <2> QED BY <1>3, <1>8, <1>9, WordEqual
<1>11. o \in Occurrences(v, w)
  BY <1>7, <1>10 DEF Occurrences
<1>12. v = w
  BY <1>1, <1>11 DEF AreApart, w
<1> QED BY <1>7, <1>12

\* The places of a word where a tracked ending starts: those of the engine and those of the verifier.
LEMMA TrackedEndings ==
  ASSUME NEW F \in SUBSET Words, AreApart(F), \A w \in F : Len(w) >= 2, NEW t \in Words,
         NEW K, K = {k \in DOMAIN t : Ending(t, k) \in F \cup BeginningsOf(F)},
         NEW C, C = {k \in DOMAIN t : Ending(t, k) \in BeginningsOf(F)}
  PROVE  /\ (\E w \in F : IsSuffix(w, t)) <=> K # {} /\ Ending(t, Min(K)) \in F
         /\ ~(\E w \in F : IsSuffix(w, t)) => K = C
<1>1. \A w \in F : IsSuffix(w, t) <=> \E k \in DOMAIN t : Ending(t, k) = w
  BY SuffixIs DEF Ending
<1>2. (\E w \in F : IsSuffix(w, t)) <=> \E k \in DOMAIN t : Ending(t, k) \in F
  BY <1>1
<1>3. DOMAIN t \subseteq Nat
  BY DEF Words
<1>4. K # {} => Min(K) \in K /\ \A k \in K : Min(K) <= k
  BY <1>3, MinIs
<1>5. ASSUME NEW k \in DOMAIN t, Ending(t, k) \in F PROVE K # {} /\ Ending(t, Min(K)) \in F
  <2>1. k \in K
    BY <1>5
  <2>2. Min(K) \in DOMAIN t /\ Min(K) <= k /\ Ending(t, Min(K)) \in F \cup BeginningsOf(F)
    BY <1>4, <2>1
  <2> QED BY <1>5, <2>1, <2>2, LongestEnding
<1>6. K # {} => Min(K) \in DOMAIN t
  BY <1>4
<1> QED BY <1>2, <1>5, <1>6

\* what the verifier follows an arrow to
FollowedTo(cert, t, a) ==
  LET cuts == {n \in DOMAIN t : SubSeq(t, n, Len(t)) \in Tracked(cert)}
  IN  [vertex |-> cert.quiver.arrows[a][2],
       word |-> IF cuts = {} THEN <<>> ELSE SubSeq(t, Min(cuts), Len(t))]

\* An arrow leads to the same states in the engine and in the verifier.
LEMMA ArrowsAgree ==
  ASSUME NEW pr, NEW cert, cert.quiver.arrows = pr.arrows, NEW F \in SUBSET Words, LeadingWords(cert) = F,
         AreApart(F), \A w \in F : Len(w) >= 2, NEW s, NEW a, Append(s.word, a) \in Words
  PROVE  After(pr, F, s, a) = IF \E w \in F : IsSuffix(w, Append(s.word, a)) THEN {}
                              ELSE {FollowedTo(cert, Append(s.word, a), a)}
<1> DEFINE t == Append(s.word, a)
           K == {k \in DOMAIN t : Ending(t, k) \in F \cup BeginningsOf(F)}
           C == {k \in DOMAIN t : Ending(t, k) \in BeginningsOf(F)}
           v == pr.arrows[a][2]
           Ends == \E w \in F : IsSuffix(w, t)
<1>1. BeginningsOf(F) = ProperPrefixes(F) /\ BeginningsOf(F) = Tracked(cert)
  BY DEF BeginningsOf, ProperPrefixes, Tracked
<1>2. After(pr, F, s, a) = IF K = {} THEN {StartState(v)}
                           ELSE IF Ending(t, Min(K)) \in F THEN {}
                           ELSE {[vertex |-> v, word |-> Ending(t, Min(K))]}
  BY <1>1 DEF After, Ending
<1>3. FollowedTo(cert, t, a) = [vertex |-> v, word |-> IF C = {} THEN <<>> ELSE Ending(t, Min(C))]
  BY <1>1 DEF FollowedTo, Ending
<1> HIDE DEF t, v
<1>4. t \in Words
  BY DEF t
<1> DEFINE k0 == K
           c0 == C
<1>5. /\ (\E w \in F : IsSuffix(w, t)) <=> K # {} /\ Ending(t, Min(K)) \in F
      /\ ~(\E w \in F : IsSuffix(w, t)) => K = C
  BY <1>4, TrackedEndings
<1> HIDE DEF K, C
<1>6. CASE Ends
  BY <1>2, <1>5, <1>6 DEF t
<1>7. CASE ~Ends
  <2>1. K = C
    BY <1>5, <1>7
  <2>2. CASE K = {}
    <3>1. FollowedTo(cert, t, a) = StartState(v)
      BY <1>3, <2>1, <2>2 DEF StartState
    <3> QED BY <1>2, <1>7, <2>2, <3>1 DEF t
  <2>3. CASE K # {}
    <3>1. FollowedTo(cert, t, a) = [vertex |-> v, word |-> Ending(t, Min(K))]
      BY <1>3, <2>1, <2>3
    <3>2. Ending(t, Min(K)) \notin F
      BY <1>5, <1>7, <2>3
    <3>3. After(pr, F, s, a) = {[vertex |-> v, word |-> Ending(t, Min(K))]}
      BY <1>2, <2>3, <3>2
    <3> QED BY <1>7, <3>1, <3>3 DEF t
  <2> QED BY <2>2, <2>3
<1> QED BY <1>6, <1>7

\* The verifier computes the automaton of the engine.
LEMMA AutomatonAgrees ==
  ASSUME NEW pr, NEW cert, cert.quiver.vertices = pr.vertices, cert.quiver.arrows = pr.arrows,
         DOMAIN pr.arrows \subseteq Nat, NEW F \in SUBSET Words, LeadingWords(cert) = F, AreApart(F),
         \A w \in F : Len(w) >= 2, cert.automaton.states = States(pr, F),
         cert.automaton.transitions = Transitions(pr, F)
  PROVE  AutomatonHolds(cert)
<1> DEFINE S == States(pr, F)
           From(s) == ArrowsFrom(pr, s.vertex)
           To(s, a) == FollowedTo(cert, Append(s.word, a), a)
           Ends(s, a) == \E w \in F : IsSuffix(w, Append(s.word, a))
           Open(s) == {a \in From(s) : ~Ends(s, a)}
<1>1. BeginningsOf(F) = ProperPrefixes(F) /\ BeginningsOf(F) = Tracked(cert)
  BY DEF BeginningsOf, ProperPrefixes, Tracked
<1>2. S = AutomatonStates(cert)
  BY <1>1 DEF States, AutomatonStates, StartState, Starts
<1>3. BeginningsOf(F) \subseteq Words
  <2> SUFFICES ASSUME NEW x \in BeginningsOf(F) PROVE x \in Words
    OBVIOUS
  <2>1. PICK w \in F : \E k \in 1 .. Len(w) - 1 : x = SubSeq(w, 1, k)
    BY DEF BeginningsOf
  <2>2. PICK k \in 1 .. Len(w) - 1 : x = SubSeq(w, 1, k)
    BY <2>1
  <2>3. w \in Words /\ Len(w) \in Nat /\ k \in Nat /\ k <= Len(w) /\ 1 <= k + 1
    BY <2>2 DEF Words
  <2> QED BY <2>2, <2>3, PartIs
<1>4. ASSUME NEW s \in S PROVE s.word \in Words
  <2>1. CASE s \in {StartState(v) : v \in 1 .. pr.vertices}
    <3>1. s.word = <<>>
      BY <2>1 DEF StartState
    <3> QED BY <3>1, CatEmpty
  <2>2. CASE s \in {[vertex |-> pr.arrows[w[Len(w)]][2], word |-> w] : w \in ProperPrefixes(F)}
    BY <1>1, <1>3, <2>2
  <2> QED BY <2>1, <2>2 DEF States
<1>5. ASSUME NEW s \in S, NEW a \in From(s) PROVE Append(s.word, a) \in Words
  <2>1. s.word \in Seq(Nat) /\ a \in Nat
    BY <1>4 DEF ArrowsFrom, Words
  <2> QED BY <2>1 DEF Words
<1>6. ASSUME NEW s \in S, NEW a \in From(s)
      PROVE  After(pr, F, s, a) = IF Ends(s, a) THEN {} ELSE {To(s, a)}
  BY <1>5, ArrowsAgree, SMTT(30)
<1>7. ASSUME NEW s \in S PROVE Edges(cert, s) = {<<a, To(s, a)>> : a \in Open(s)}
  BY DEF Edges, FollowedTo, ArrowsFrom
<1> HIDE DEF S, From, To, Ends
<1>8. Transitions(pr, F) =
        UNION {UNION {{<<s, a, t>> : t \in After(pr, F, s, a)} : a \in From(s)} : s \in S}
  BY DEF Transitions, S, From
<1>9. UNION {UNION {{<<s, a, t>> : t \in After(pr, F, s, a)} : a \in From(s)} : s \in S}
        = UNION {{<<s, a, To(s, a)>> : a \in Open(s)} : s \in S}
  <2>1. ASSUME NEW s \in S
        PROVE  UNION {{<<s, a, t>> : t \in After(pr, F, s, a)} : a \in From(s)}
                 = {<<s, a, To(s, a)>> : a \in Open(s)}
    BY <1>6
  <2> QED BY <2>1
<1>10. UNION {{<<s, e[1], e[2]>> : e \in Edges(cert, s)} : s \in S}
         = UNION {{<<s, a, To(s, a)>> : a \in Open(s)} : s \in S}
  <2>1. ASSUME NEW s \in S
        PROVE  {<<s, e[1], e[2]>> : e \in Edges(cert, s)} = {<<s, a, To(s, a)>> : a \in Open(s)}
    <3> DEFINE O == Open(s)
               T(a) == To(s, a)
    <3>1. Edges(cert, s) = {<<a, T(a)>> : a \in O}
      BY <1>7
    <3> HIDE DEF O, T
    <3>2. \A e \in {<<a, T(a)>> : a \in O} : e = <<e[1], e[2]>> /\ e[1] \in O /\ e[2] = T(e[1])
      OBVIOUS
    <3>3. \A a \in O : <<a, T(a)>> \in {<<b, T(b)>> : b \in O} /\ <<a, T(a)>>[1] = a /\ <<a, T(a)>>[2] = T(a)
      OBVIOUS
    <3>4. {<<s, e[1], e[2]>> : e \in {<<a, T(a)>> : a \in O}} \subseteq {<<s, a, T(a)>> : a \in O}
      BY <3>2
    <3>5. {<<s, a, T(a)>> : a \in O} \subseteq {<<s, e[1], e[2]>> : e \in {<<a, T(a)>> : a \in O}}
      BY <3>3
    <3>6. {<<s, e[1], e[2]>> : e \in Edges(cert, s)} = {<<s, a, T(a)>> : a \in O}
      BY <3>1, <3>4, <3>5
    <3> QED BY <3>6 DEF O, T
  <2> QED BY <2>1
<1> QED BY <1>2, <1>8, <1>9, <1>10 DEF AutomatonHolds, S

-----------------------------------------------------------------------------
(* What an origin expands to.                                              *)

\* origins: functions from finitely many terms to coefficients other than zero
IsSparse(q, o) ==
  /\ IsFiniteSet(DOMAIN o) /\ o = [t \in DOMAIN o |-> o[t]]
  /\ \A t \in DOMAIN o : o[t] \in 1 .. q - 1

\* The coefficient of a term.
LEMMA SparseCoef ==
  ASSUME NEW q, IsModulus(q), NEW o, IsSparse(q, o)
  PROVE  \A t : /\ Coef(o, t) \in 0 .. q - 1 /\ Coef(o, t) \in Int
                /\ (Coef(o, t) # 0 <=> t \in DOMAIN o) /\ (t \in DOMAIN o => o[t] = Coef(o, t))
BY DEF IsSparse, Coef, IsModulus

\* Origins with the same coefficients are equal.
LEMMA SparseEqual ==
  ASSUME NEW q, IsModulus(q), NEW o, IsSparse(q, o), NEW s, IsSparse(q, s),
         \A t : Coef(o, t) = Coef(s, t)
  PROVE  o = s
<1>1. DOMAIN o = DOMAIN s
  BY SparseCoef
<1>2. \A t \in DOMAIN o : o[t] = s[t]
  BY <1>1, SparseCoef
<1>3. o = [t \in DOMAIN o |-> o[t]] /\ s = [t \in DOMAIN s |-> s[t]]
  BY DEF IsSparse
<1> QED BY <1>1, <1>2, <1>3

\* Sums of origins, by their coefficients.
LEMMA SumOfSparse ==
  ASSUME NEW q, IsModulus(q), NEW o, IsSparse(q, o), NEW c \in Int, NEW s, IsSparse(q, s)
  PROVE  /\ IsSparse(q, AddScaled(q, o, c, s))
         /\ \A t : Coef(AddScaled(q, o, c, s), t) = ((Coef(o, t) + c * Coef(s, t)) % q)
         /\ DOMAIN AddScaled(q, o, c, s) \subseteq DOMAIN o \cup DOMAIN s
<1> DEFINE T(t) == Coef(o, t) + c * Coef(s, t)
           D == {t \in DOMAIN o \cup DOMAIN s : T(t) % q # 0}
           h == [t \in D |-> T(t) % q]
<1>1. AddScaled(q, o, c, s) = h
  <2>1. \A t : (IF t \in DOMAIN s THEN c * s[t] ELSE 0) = c * Coef(s, t)
    BY DEF Coef
  <2>2. \A t : T(t) = (IF t \in DOMAIN o THEN o[t] ELSE 0) + (IF t \in DOMAIN s THEN c * s[t] ELSE 0)
    BY <2>1 DEF Coef
  <2> QED BY <2>2 DEF AddScaled
<1>2. IsFiniteSet(DOMAIN o) /\ IsFiniteSet(DOMAIN s)
  BY DEF IsSparse
<1>3. \A t : T(t) \in Int /\ T(t) % q \in 0 .. q - 1
  <2>1. \A t : Coef(o, t) \in Int /\ Coef(s, t) \in Int
    BY SparseCoef
  <2>2. \A t : T(t) \in Int
    BY <2>1
  <2>3. \A a \in Int : a % q \in 0 .. q - 1
    BY Remainder
  <2> HIDE DEF T
  <2> QED BY <2>2, <2>3
<1>4. IsFiniteSet(D)
  <2>1. IsFiniteSet(DOMAIN o \cup DOMAIN s)
    BY <1>2, FS_Union
  <2> QED BY <2>1, FS_Subset
<1>5. DOMAIN h = D /\ \A t \in D : h[t] = T(t) % q
  OBVIOUS
<1>6. \A t \in D : h[t] \in 1 .. q - 1
  <2> HIDE DEF T
  <2>1. \A t \in D : T(t) % q \in 0 .. q - 1 /\ T(t) % q # 0
    BY <1>3
  <2> QED BY <2>1, <1>5 DEF IsModulus
<1>7. IsSparse(q, h)
  <2>1. h = [t \in DOMAIN h |-> h[t]]
    BY <1>5
  <2> HIDE DEF h, D
  <2> QED BY <1>4, <1>5, <1>6, <2>1 DEF IsSparse
<1>8. ASSUME NEW t PROVE Coef(h, t) = T(t) % q
  <2>1. CASE t \in D
    BY <1>5, <2>1 DEF Coef
  <2>2. CASE t \notin DOMAIN o \cup DOMAIN s
    <3>1. T(t) = 0 + c * 0 /\ t \notin D
      BY <2>2 DEF Coef
    <3>2. 0 % q = 0 /\ T(t) = 0
      <4>1. 0 \in 0 .. q - 1
        BY DEF IsModulus
      <4> QED BY <3>1, <4>1, Remainder
    <3> QED BY <1>5, <3>1, <3>2 DEF Coef
  <2>3. CASE t \in (DOMAIN o \cup DOMAIN s) \ D
    <3>1. T(t) % q = 0
      BY <2>3
    <3> QED BY <1>5, <2>3, <3>1 DEF Coef
  <2> QED BY <2>1, <2>2, <2>3
<1>9. D \subseteq DOMAIN o \cup DOMAIN s
  OBVIOUS
<1> HIDE DEF h, D
<1> QED BY <1>1, <1>5, <1>7, <1>8, <1>9

\* The origin without terms.
LEMMA NoOrigin ==
  ASSUME NEW q
  PROVE  IsSparse(q, ZeroPoly) /\ DOMAIN ZeroPoly = {} /\ \A t : Coef(ZeroPoly, t) = 0
<1>1. DOMAIN ZeroPoly = {} /\ ZeroPoly = [t \in DOMAIN ZeroPoly |-> ZeroPoly[t]]
  BY DEF ZeroPoly
<1> QED BY <1>1, FS_EmptySet DEF IsSparse, Coef

\* an origin on some of its terms, and without one
Only(o, D) == [t \in D |-> o[t]]

Without(o, t) == Only(o, DOMAIN o \ {t})

\* What is left of an origin.
LEMMA OnlyIs ==
  ASSUME NEW q, IsModulus(q), NEW o, IsSparse(q, o), NEW D \in SUBSET DOMAIN o
  PROVE  /\ IsSparse(q, Only(o, D)) /\ DOMAIN Only(o, D) = D
         /\ \A t \in D : Only(o, D)[t] = o[t]
         /\ \A t : Coef(Only(o, D), t) = IF t \in D THEN Coef(o, t) ELSE 0
<1>1. IsFiniteSet(D)
  BY FS_Subset DEF IsSparse
<1>2. DOMAIN Only(o, D) = D /\ \A t \in D : Only(o, D)[t] = o[t]
  BY DEF Only
<1>3. Only(o, D) = [t \in DOMAIN Only(o, D) |-> Only(o, D)[t]]
  BY DEF Only
<1>4. \A t \in D : o[t] \in 1 .. q - 1
  BY DEF IsSparse
<1> QED BY <1>1, <1>2, <1>3, <1>4 DEF IsSparse, Coef

\* g has the multiples of the polynomials m added up over each subset of an origin's terms
Adds(q, g, o, m) ==
  g = [s \in SUBSET DOMAIN o |->
         IF s = {} THEN ZeroPoly ELSE AddScaled(q, g[s \ {Pick(s)}], o[Pick(s)], m[Pick(s)])]

Expansion(q, o, m) == (CHOOSE g : Adds(q, g, o, m))[DOMAIN o]

Adding(q, o, m) == [t \in DOMAIN o |-> [f \in Polys(q) |-> AddScaled(q, f, o[t], m[t])]]

Picks(D) == [s \in SUBSET D |-> Pick(s)]

\* polynomials for the terms of an origin
Expandable(q, T, o, m) == IsSparse(q, o) /\ DOMAIN o \subseteq T /\ m \in [T -> Polys(q)]

\* The steps of an expansion are taken in any order.
LEMMA AddingIs ==
  ASSUME NEW q, IsModulus(q), NEW T, NEW o, NEW m, Expandable(q, T, o, m)
  PROVE  /\ Adding(q, o, m) \in [DOMAIN o -> [Polys(q) -> Polys(q)]]
         /\ \A t \in DOMAIN o : \A f \in Polys(q) : Adding(q, o, m)[t][f] = AddScaled(q, f, o[t], m[t])
         /\ AreCommuting(Adding(q, o, m), DOMAIN o, Polys(q))
<1>1. \A t \in DOMAIN o : o[t] \in Int /\ m[t] \in Polys(q)
  BY DEF Expandable, IsSparse
<1>2. \A t \in DOMAIN o : \A f \in Polys(q) : AddScaled(q, f, o[t], m[t]) \in Polys(q)
  BY <1>1, PolySumType
<1>3. \A t \in DOMAIN o : \A f \in Polys(q) : Adding(q, o, m)[t][f] = AddScaled(q, f, o[t], m[t])
  BY DEF Adding
<1>4. Adding(q, o, m) \in [DOMAIN o -> [Polys(q) -> Polys(q)]]
  BY <1>2 DEF Adding
<1>5. ASSUME NEW t \in DOMAIN o, NEW u \in DOMAIN o, NEW f \in Polys(q)
      PROVE  Adding(q, o, m)[t][Adding(q, o, m)[u][f]] = Adding(q, o, m)[u][Adding(q, o, m)[t][f]]
  <2>1. AddScaled(q, AddScaled(q, f, o[u], m[u]), o[t], m[t])
          = AddScaled(q, AddScaled(q, f, o[t], m[t]), o[u], m[u])
    BY <1>1, SumsOfPolysLaws
  <2> QED BY <1>2, <1>3, <2>1
<1> QED BY <1>3, <1>4, <1>5 DEF AreCommuting

\* Expansions are defined.
LEMMA ExpansionIs ==
  ASSUME NEW q, IsModulus(q), NEW T, NEW o, NEW m, Expandable(q, T, o, m)
  PROVE  \E g \in [SUBSET DOMAIN o -> Polys(q)] :
           /\ Runs(g, DOMAIN o, ZeroPoly, Adding(q, o, m), Picks(DOMAIN o))
           /\ g[DOMAIN o] = Expansion(q, o, m)
<1> DEFINE D == DOMAIN o
           step == Adding(q, o, m)
           pick == Picks(D)
<1>1. IsFiniteSet(D) /\ ZeroPoly \in Polys(q)
  BY ZeroIs DEF Expandable, IsSparse
<1>2. /\ step \in [D -> [Polys(q) -> Polys(q)]]
      /\ \A t \in D : \A f \in Polys(q) : step[t][f] = AddScaled(q, f, o[t], m[t])
  BY AddingIs
<1>3. \A s \in SUBSET D : pick[s] = Pick(s) /\ (s # {} => Pick(s) \in s)
  BY PickIsElement DEF Picks
<1>4. \A t \in D : o[t] \in Int /\ m[t] \in Polys(q)
  BY DEF Expandable, IsSparse
<1> HIDE DEF D, step, pick
<1>5. ASSUME NEW g \in [SUBSET D -> Polys(q)], NEW s \in SUBSET D, s # {}
      PROVE  step[pick[s]][g[s \ {pick[s]}]] = AddScaled(q, g[s \ {Pick(s)}], o[Pick(s)], m[Pick(s)])
  <2>1. pick[s] = Pick(s) /\ Pick(s) \in D /\ g[s \ {Pick(s)}] \in Polys(q)
    BY <1>3, <1>5
  <2> QED BY <1>2, <2>1
<1>6. \A g \in [SUBSET D -> Polys(q)] : Runs(g, D, ZeroPoly, step, pick) <=> Adds(q, g, o, m)
  <2> SUFFICES ASSUME NEW g \in [SUBSET D -> Polys(q)]
               PROVE  Runs(g, D, ZeroPoly, step, pick) <=> Adds(q, g, o, m)
    OBVIOUS
  <2> DEFINE a == [s \in SUBSET D |-> IF s = {} THEN ZeroPoly ELSE step[pick[s]][g[s \ {pick[s]}]]]
             b == [s \in SUBSET D |-> IF s = {} THEN ZeroPoly
                                      ELSE AddScaled(q, g[s \ {Pick(s)}], o[Pick(s)], m[Pick(s)])]
  <2>1. a = b
    BY <1>5
  <2>2. Runs(g, D, ZeroPoly, step, pick) <=> g = a
    BY DEF Runs
  <2>3. Adds(q, g, o, m) <=> g = b
    BY DEF Adds, D
  <2> QED BY ONLY <2>1, <2>2, <2>3
<1>7. \E g \in [SUBSET D -> Polys(q)] : Runs(g, D, ZeroPoly, step, pick)
  <2>1. \A s \in SUBSET D : s # {} => pick[s] \in s
    BY <1>3
  <2>2. PICK A : A = Polys(q)
    OBVIOUS
  <2>3. ZeroPoly \in A /\ step \in [D -> [A -> A]]
    BY <1>1, <1>2, <2>2
  <2>4. \E g \in [SUBSET D -> A] : Runs(g, D, ZeroPoly, step, pick)
    BY ONLY <1>1, <2>1, <2>3, RunsExist
  <2> QED BY <2>2, <2>4
<1>8. PICK g : g = CHOOSE h : Adds(q, h, o, m)
  OBVIOUS
<1>9. Adds(q, g, o, m)
  BY <1>6, <1>7, <1>8
<1>10. g[{}] = ZeroPoly
       /\ \A s \in SUBSET D : s # {} => g[s] = AddScaled(q, g[s \ {Pick(s)}], o[Pick(s)], m[Pick(s)])
  BY <1>9 DEF Adds, D
<1>11. \A s \in SUBSET D : g[s] \in Polys(q)
  <2> DEFINE P == {s \in SUBSET D : g[s] \in Polys(q)}
  <2>1. {} \in P
    BY <1>1, <1>10
  <2>2. ASSUME NEW s \in SUBSET D, s # {}, \A x \in s : s \ {x} \in P PROVE s \in P
    <3>1. Pick(s) \in s /\ Pick(s) \in D /\ g[s \ {Pick(s)}] \in Polys(q)
      BY <1>3, <2>2
    <3>2. AddScaled(q, g[s \ {Pick(s)}], o[Pick(s)], m[Pick(s)]) \in Polys(q)
      BY <1>4, <3>1, PolySumType
    <3> QED BY <1>10, <2>2, <3>2
  <2>3. SUBSET D \subseteq P
    <3> HIDE DEF P
    <3> QED BY <1>1, <2>1, <2>2, SubsetInduction
  <2> QED BY <2>3
<1>12. g = [s \in SUBSET D |-> g[s]]
  BY <1>9 DEF Adds, D
<1>13. g \in [SUBSET D -> Polys(q)]
  BY <1>11, <1>12
<1>14. Runs(g, D, ZeroPoly, step, pick)
  BY <1>6, <1>9, <1>13
<1>15. g[D] = Expansion(q, o, m)
  BY <1>8 DEF Expansion, D
<1> QED BY <1>13, <1>14, <1>15 DEF D, step, pick

\* An expansion is a polynomial, zero without terms.
LEMMA ExpansionType ==
  ASSUME NEW q, IsModulus(q), NEW T, NEW o, NEW m, Expandable(q, T, o, m)
  PROVE  Expansion(q, o, m) \in Polys(q) /\ (DOMAIN o = {} => Expansion(q, o, m) = ZeroPoly)
<1>1. PICK g \in [SUBSET DOMAIN o -> Polys(q)] :
           /\ Runs(g, DOMAIN o, ZeroPoly, Adding(q, o, m), Picks(DOMAIN o))
           /\ g[DOMAIN o] = Expansion(q, o, m)
  BY ExpansionIs
<1>2. g[{}] = ZeroPoly
  BY <1>1 DEF Runs
<1> QED BY <1>1, <1>2

\* An expansion is that without a term, and the multiple of that term's polynomial.
LEMMA ExpansionWithout ==
  ASSUME NEW q, IsModulus(q), NEW T, NEW o, NEW m, Expandable(q, T, o, m), NEW t \in T
  PROVE  /\ Expandable(q, T, Without(o, t), m)
         /\ Expansion(q, o, m) = AddScaled(q, Expansion(q, Without(o, t), m), Coef(o, t), m[t])
<1> DEFINE D == DOMAIN o
           E == D \ {t}
           v == Without(o, t)
<1>1. IsSparse(q, o) /\ D \subseteq T /\ m[t] \in Polys(q) /\ E \in SUBSET D /\ IsFiniteSet(E)
  BY FS_Subset DEF Expandable, IsSparse
<1>2. IsSparse(q, v) /\ DOMAIN v = E /\ \A u \in E : v[u] = o[u]
  BY <1>1, OnlyIs DEF Without
<1>3. Expandable(q, T, v, m)
  BY <1>1, <1>2 DEF Expandable
<1>4. CASE t \notin D
  <2>1. E = D /\ Coef(o, t) = 0
    BY <1>4 DEF Coef
  <2>2. v = o
    <3>1. v = [u \in D |-> o[u]] /\ o = [u \in D |-> o[u]]
      BY <1>1, <2>1 DEF Without, Only, IsSparse
    <3> QED BY ONLY <3>1
  <2>3. Expansion(q, o, m) \in Polys(q)
    BY ExpansionType
  <2> QED BY <1>1, <1>3, <2>1, <2>2, <2>3, ZeroTimes
<1>5. CASE t \in D
  <2>1. PICK g \in [SUBSET D -> Polys(q)] :
           Runs(g, D, ZeroPoly, Adding(q, o, m), Picks(D)) /\ g[D] = Expansion(q, o, m)
    BY ExpansionIs
  <2>2. PICK h \in [SUBSET E -> Polys(q)] :
           Runs(h, E, ZeroPoly, Adding(q, v, m), Picks(E)) /\ h[E] = Expansion(q, v, m)
    <3>1. \E h \in [SUBSET DOMAIN v -> Polys(q)] :
             /\ Runs(h, DOMAIN v, ZeroPoly, Adding(q, v, m), Picks(DOMAIN v))
             /\ h[DOMAIN v] = Expansion(q, v, m)
      <4> HIDE DEF v
      <4> QED BY <1>3, ExpansionIs
    <3> QED BY ONLY <1>2, <3>1
  <2>3. /\ Adding(q, o, m) \in [D -> [Polys(q) -> Polys(q)]]
        /\ \A x \in D : \A f \in Polys(q) : Adding(q, o, m)[x][f] = AddScaled(q, f, o[x], m[x])
        /\ AreCommuting(Adding(q, o, m), D, Polys(q))
    BY AddingIs
  <2>4. \A s \in SUBSET D : s # {} => Picks(D)[s] \in s
    BY PickIsElement DEF Picks
  <2>5. g[D] = AddScaled(q, g[E], o[t], m[t])
    <3>1. ZeroPoly \in Polys(q) /\ IsFiniteSet(D) /\ D \in SUBSET D
      BY <1>1, ZeroIs DEF IsSparse
    <3>2. PICK A, step, pick : A = Polys(q) /\ step = Adding(q, o, m) /\ pick = Picks(D)
      OBVIOUS
    <3>3. g[D] = step[t][g[E]]
      <4>1. IsRun(g, D, A, ZeroPoly, step, pick) /\ AreCommuting(step, D, A)
        BY <2>1, <2>3, <2>4, <3>1, <3>2 DEF IsRun
      <4>2. g[D] = step[t][g[D \ {t}]]
        BY <1>5, <3>1, <4>1, RunsInAnyOrder
      <4> QED BY <4>2
    <3>4. g[E] \in Polys(q)
      BY <1>1
    <3> QED BY <1>5, <2>3, <3>2, <3>3, <3>4
  <2>6. g[E] = h[E]
    <3>1. E \in SUBSET (D \cap E)
      OBVIOUS
    <3>2. \A x \in E : Adding(q, o, m)[x] = Adding(q, v, m)[x]
      BY <1>2 DEF Adding
    <3>3. \A s \in SUBSET E : s # {} => Picks(D)[s] \in s /\ Picks(E)[s] = Picks(D)[s]
      BY PickIsElement DEF Picks
    <3>4. PICK step, other, pick, take : /\ step = Adding(q, o, m) /\ other = Adding(q, v, m)
                                         /\ pick = Picks(D) /\ take = Picks(E)
      OBVIOUS
    <3>5. /\ Runs(g, D, ZeroPoly, step, pick) /\ Runs(h, E, ZeroPoly, other, take)
          /\ \A x \in E : step[x] = other[x]
          /\ \A s \in SUBSET E : s # {} => pick[s] \in s /\ take[s] = pick[s]
      BY <2>1, <2>2, <3>2, <3>3, <3>4
    <3> HIDE DEF D, E
    <3> QED BY ONLY <1>1, <3>1, <3>5, RunsAgree
  <2>7. o[t] = Coef(o, t)
    BY <1>5 DEF Coef
  <2> QED BY <1>3, <2>1, <2>2, <2>5, <2>6, <2>7
<1> QED BY <1>4, <1>5

\* A multiple of a term added to an origin is added to what it expands to.
LEMMA ExpansionAdds ==
  ASSUME NEW q, IsModulus(q), NEW T, NEW o, NEW m, Expandable(q, T, o, m), NEW t \in T,
         NEW h, Expandable(q, T, h, m), NEW k \in Int, Congruent(q, Coef(h, t), Coef(o, t) + k),
         \A u : u # t => Coef(h, u) = Coef(o, u)
  PROVE  Expansion(q, h, m) = AddScaled(q, Expansion(q, o, m), k, m[t])
<1>1. /\ IsSparse(q, o) /\ IsSparse(q, h) /\ m[t] \in Polys(q)
      /\ Coef(o, t) \in Int /\ Coef(h, t) \in Int
  BY SparseCoef DEF Expandable
<1>2. Without(o, t) = Without(h, t)
  <2>1. /\ IsSparse(q, Without(o, t)) /\ IsSparse(q, Without(h, t))
        /\ \A u : Coef(Without(o, t), u) = IF u \in DOMAIN o \ {t} THEN Coef(o, u) ELSE 0
        /\ \A u : Coef(Without(h, t), u) = IF u \in DOMAIN h \ {t} THEN Coef(h, u) ELSE 0
    BY <1>1, OnlyIs DEF Without
  <2>2. \A u : Coef(Without(o, t), u) = Coef(Without(h, t), u)
    <3> SUFFICES ASSUME NEW u PROVE Coef(Without(o, t), u) = Coef(Without(h, t), u)
      OBVIOUS
    <3>1. CASE u = t
      BY <2>1, <3>1
    <3>2. CASE u # t
      <4>1. (Coef(o, u) # 0 <=> u \in DOMAIN o) /\ (Coef(h, u) # 0 <=> u \in DOMAIN h)
        BY <1>1, SparseCoef
      <4> QED BY <2>1, <3>2, <4>1
    <3> QED BY <3>1, <3>2
  <2> QED BY <2>1, <2>2, SparseEqual
<1>3. PICK w : w = Expansion(q, Without(o, t), m)
  OBVIOUS
<1>4. /\ w \in Polys(q)
      /\ Expansion(q, o, m) = AddScaled(q, w, Coef(o, t), m[t])
      /\ Expansion(q, h, m) = AddScaled(q, w, Coef(h, t), m[t])
  BY <1>2, <1>3, ExpansionWithout, ExpansionType
<1>5. AddScaled(q, AddScaled(q, w, Coef(o, t), m[t]), k, m[t]) = AddScaled(q, w, Coef(o, t) + k, m[t])
  BY <1>1, <1>4, SumsOfPolysLaws
<1>6. AddScaled(q, w, Coef(h, t), m[t]) = AddScaled(q, w, Coef(o, t) + k, m[t])
  <2>1. Coef(o, t) + k \in Int
    BY <1>1
  <2>2. \A c, e \in Int : Congruent(q, c, e) => AddScaled(q, w, c, m[t]) = AddScaled(q, w, e, m[t])
    <3> SUFFICES ASSUME NEW c \in Int, NEW e \in Int, Congruent(q, c, e)
                 PROVE  AddScaled(q, w, c, m[t]) = AddScaled(q, w, e, m[t])
      OBVIOUS
    <3>1. PICK b \in Polys(q) : b = m[t]
      BY <1>1
    <3>2. AddScaled(q, w, c, b) = AddScaled(q, w, e, b)
      BY <1>4, SumsOfPolysLaws
    <3> QED BY <3>1, <3>2
  <2> QED BY <1>1, <2>1, <2>2
<1> QED BY <1>4, <1>5, <1>6

\* the terms of origins: an input relation between two words, and its polynomial
Triples(rels) == (DOMAIN rels) \X Words \X Words

Shift(l, t, r) == <<t[1], Cat(l, t[2]), Cat(t[3], r)>>

Unshift(l, t, r) ==
  <<t[1], SubSeq(t[2], Len(l) + 1, Len(t[2])), SubSeq(t[3], 1, Len(t[3]) - Len(r))>>

OriginTerms(rels) == [t \in Triples(rels) |-> Between(t[2], rels[t[1]], t[3])]

\* the relations are polynomials
ArePolys(q, rels) == \A n \in DOMAIN rels : rels[n] \in Polys(q)

\* The parts of a term.
LEMMA TripleIs ==
  ASSUME NEW rels
  PROVE  /\ \A t \in Triples(rels) : t[1] \in DOMAIN rels /\ t[2] \in Words /\ t[3] \in Words
                                     /\ t = <<t[1], t[2], t[3]>>
         /\ \A n \in DOMAIN rels : \A l, r \in Words : <<n, l, r>> \in Triples(rels)
<1>1. ASSUME NEW t \in Triples(rels)
      PROVE  t[1] \in DOMAIN rels /\ t[2] \in Words /\ t[3] \in Words /\ t = <<t[1], t[2], t[3]>>
  BY DEF Triples
<1>2. ASSUME NEW n \in DOMAIN rels, NEW l \in Words, NEW r \in Words PROVE <<n, l, r>> \in Triples(rels)
  BY DEF Triples
<1> QED BY <1>1, <1>2

\* A term between words is taken out again.
LEMMA ShiftIs ==
  ASSUME NEW rels, NEW l \in Words, NEW r \in Words, NEW t \in Triples(rels)
  PROVE  Shift(l, t, r) \in Triples(rels) /\ Unshift(l, Shift(l, t, r), r) = t
<1>1. /\ t[1] \in DOMAIN rels /\ t[2] \in Words /\ t[3] \in Words /\ t = <<t[1], t[2], t[3]>>
  BY TripleIs
<1>2. PICK n, a, b : n = t[1] /\ a = t[2] /\ b = t[3]
  OBVIOUS
<1>3. Cat(l, a) \in Words /\ Cat(b, r) \in Words
  BY <1>1, <1>2, CatType
<1>4. Shift(l, t, r) = <<n, Cat(l, a), Cat(b, r)>>
  BY <1>2 DEF Shift
<1>5. SubSeq(Cat(l, a), Len(l) + 1, Len(l) + Len(a)) = a /\ SubSeq(Cat(b, r), 1, Len(b)) = b
  BY <1>1, <1>2, PartsOfConcat DEF Cat
<1>6. Len(Cat(l, a)) = Len(l) + Len(a) /\ Len(Cat(b, r)) - Len(r) = Len(b)
  <2>1. /\ Len(Cat(l, a)) = Len(l) + Len(a) /\ Len(Cat(b, r)) = Len(b) + Len(r)
        /\ Len(l) \in Nat /\ Len(a) \in Nat /\ Len(b) \in Nat /\ Len(r) \in Nat
    BY <1>1, <1>2, CatLen DEF Cat
  <2> QED BY <2>1
<1>7. Shift(l, t, r) \in Triples(rels)
  BY <1>1, <1>2, <1>3, <1>4, TripleIs
<1>8. Shift(l, t, r)[1] = n /\ Shift(l, t, r)[2] = Cat(l, a) /\ Shift(l, t, r)[3] = Cat(b, r)
  BY <1>4
<1> QED BY <1>1, <1>2, <1>5, <1>6, <1>7, <1>8 DEF Unshift

\* Different terms stay different.
LEMMA ShiftCancels ==
  ASSUME NEW rels, NEW l \in Words, NEW r \in Words, NEW t \in Triples(rels), NEW u \in Triples(rels),
         Shift(l, t, r) = Shift(l, u, r)
  PROVE  t = u
<1>1. Unshift(l, Shift(l, t, r), r) = t /\ Unshift(l, Shift(l, u, r), r) = u
  BY ShiftIs
<1> QED BY <1>1

\* The polynomial of a term between words.
LEMMA TermShifts ==
  ASSUME NEW q, IsModulus(q), NEW rels, ArePolys(q, rels), NEW l \in Words, NEW r \in Words,
         NEW t \in Triples(rels)
  PROVE  /\ OriginTerms(rels) \in [Triples(rels) -> Polys(q)]
         /\ OriginTerms(rels)[Shift(l, t, r)] = Between(l, OriginTerms(rels)[t], r)
<1>1. \A u \in Triples(rels) :
        /\ u[1] \in DOMAIN rels /\ rels[u[1]] \in Polys(q) /\ u[2] \in Words /\ u[3] \in Words
        /\ OriginTerms(rels)[u] = Between(u[2], rels[u[1]], u[3])
  BY TripleIs DEF ArePolys, OriginTerms
<1>2. \A u \in Triples(rels) : OriginTerms(rels)[u] \in Polys(q)
  BY <1>1, BetweenType
<1>3. OriginTerms(rels) \in [Triples(rels) -> Polys(q)]
  <2>1. OriginTerms(rels) = [u \in Triples(rels) |-> OriginTerms(rels)[u]]
    BY DEF OriginTerms
  <2> QED BY <1>2, <2>1
<1>4. Shift(l, t, r) \in Triples(rels)
  BY ShiftIs
<1>5. PICK n, a, b : n = t[1] /\ a = t[2] /\ b = t[3]
  OBVIOUS
<1>6. rels[n] \in Polys(q) /\ a \in Words /\ b \in Words
  BY <1>1, <1>5
<1>7. Shift(l, t, r) = <<n, Cat(l, a), Cat(b, r)>>
  BY <1>5 DEF Shift
<1>8. OriginTerms(rels)[Shift(l, t, r)] = Between(Cat(l, a), rels[n], Cat(b, r))
  BY <1>1, <1>4, <1>7
<1>9. OriginTerms(rels)[t] = Between(a, rels[n], b)
  BY <1>1, <1>5
<1>10. Between(l, Between(a, rels[n], b), r) = Between(Cat(l, a), rels[n], Cat(b, r))
  BY <1>6, BetweenBetween
<1> QED BY <1>3, <1>8, <1>9, <1>10

\* an origin on the terms of the relations
IsOrigin(q, rels, o) == IsSparse(q, o) /\ DOMAIN o \subseteq Triples(rels)

\* An origin between words.
LEMMA OriginBetweenIs ==
  ASSUME NEW q, IsModulus(q), NEW rels, NEW l \in Words, NEW r \in Words, NEW o, IsOrigin(q, rels, o)
  PROVE  /\ IsOrigin(q, rels, OriginBetween(l, o, r))
         /\ \A k : k \in DOMAIN OriginBetween(l, o, r) <=> \E t \in DOMAIN o : k = Shift(l, t, r)
         /\ \A t \in Triples(rels) : Coef(OriginBetween(l, o, r), Shift(l, t, r)) = Coef(o, t)
<1> DEFINE D == {Shift(l, t, r) : t \in DOMAIN o}
           h == [k \in D |-> o[Unshift(l, k, r)]]
<1>1. OriginBetween(l, o, r) = h
  <2>1. D = {<<t[1], l \o t[2], t[3] \o r>> : t \in DOMAIN o}
    BY DEF Shift, Cat
  <2> QED BY <2>1, Zenon DEF OriginBetween, Unshift
<1>2. \A t \in DOMAIN o :
        t \in Triples(rels) /\ Shift(l, t, r) \in Triples(rels) /\ Unshift(l, Shift(l, t, r), r) = t
  <2> SUFFICES ASSUME NEW t \in DOMAIN o
               PROVE  /\ t \in Triples(rels) /\ Shift(l, t, r) \in Triples(rels)
                      /\ Unshift(l, Shift(l, t, r), r) = t
    OBVIOUS
  <2>1. t \in Triples(rels)
    BY DEF IsOrigin
  <2> QED BY <2>1, ShiftIs
<1>3. D \subseteq Triples(rels) /\ DOMAIN h = D
  BY <1>2
<1>4. \A t \in DOMAIN o : h[Shift(l, t, r)] = o[t]
  BY <1>2
<1>5. IsFiniteSet(D)
  <2>1. IsFiniteSet(DOMAIN o)
    BY DEF IsOrigin, IsSparse
  <2> DEFINE f == [t \in DOMAIN o |-> Shift(l, t, r)]
  <2>2. f \in Surjection(DOMAIN o, D)
    BY DEF Surjection
  <2> QED BY <2>1, <2>2, FS_Surjection
<1>6. \A k \in D : h[k] \in 1 .. q - 1
  <2>1. \A t \in DOMAIN o : o[t] \in 1 .. q - 1
    BY DEF IsOrigin, IsSparse
  <2> QED BY <1>4, <2>1
<1>7. h = [k \in DOMAIN h |-> h[k]]
  OBVIOUS
<1> HIDE DEF h
<1>8. IsSparse(q, h)
  BY <1>3, <1>5, <1>6, <1>7 DEF IsSparse
<1>9. ASSUME NEW t \in Triples(rels) PROVE Coef(h, Shift(l, t, r)) = Coef(o, t)
  <2>1. CASE t \in DOMAIN o
    BY <1>3, <1>4, <2>1 DEF Coef
  <2>2. CASE t \notin DOMAIN o
    <3>1. Shift(l, t, r) \notin D
      <4> SUFFICES ASSUME NEW u \in DOMAIN o, Shift(l, t, r) = Shift(l, u, r) PROVE FALSE
        OBVIOUS
      <4>1. t = u
        BY <1>2, ShiftCancels
      <4> QED BY <2>2, <4>1
    <3> QED BY <1>3, <2>2, <3>1 DEF Coef
  <2> QED BY <2>1, <2>2
<1>10. \A k : k \in D <=> \E t \in DOMAIN o : k = Shift(l, t, r)
  OBVIOUS
<1> HIDE DEF D
<1> QED BY <1>1, <1>3, <1>8, <1>9, <1>10 DEF IsOrigin

\* what an origin expands to over the relations
Expanded(q, rels, o) == Expansion(q, o, OriginTerms(rels))

\* The relations give each term a polynomial.
LEMMA OriginExpands ==
  ASSUME NEW q, IsModulus(q), NEW rels, ArePolys(q, rels), NEW o, IsOrigin(q, rels, o)
  PROVE  Expandable(q, Triples(rels), o, OriginTerms(rels)) /\ Expanded(q, rels, o) \in Polys(q)
<1>1. \A t \in Triples(rels) : OriginTerms(rels)[t] \in Polys(q)
  <2> SUFFICES ASSUME NEW t \in Triples(rels) PROVE OriginTerms(rels)[t] \in Polys(q)
    OBVIOUS
  <2>1. rels[t[1]] \in Polys(q) /\ t[2] \in Words /\ t[3] \in Words
    BY TripleIs DEF ArePolys
  <2> QED BY <2>1, BetweenType DEF OriginTerms
<1>2. OriginTerms(rels) = [t \in Triples(rels) |-> OriginTerms(rels)[t]]
  BY DEF OriginTerms
<1>3. OriginTerms(rels) \in [Triples(rels) -> Polys(q)]
  BY <1>1, <1>2
<1>4. Expandable(q, Triples(rels), o, OriginTerms(rels))
  BY <1>3 DEF Expandable, IsOrigin
<1> QED BY <1>4, ExpansionType DEF Expanded

\* A multiple of an origin added to another one.
LEMMA AddOriginIs ==
  ASSUME NEW q, IsModulus(q), NEW rels, NEW o, IsOrigin(q, rels, o), NEW s, IsOrigin(q, rels, s),
         NEW c \in Int, NEW l \in Words, NEW r \in Words
  PROVE  /\ IsOrigin(q, rels, AddOrigin(q, o, c, l, s, r))
         /\ DOMAIN AddOrigin(q, o, c, l, s, r) \subseteq DOMAIN o \cup DOMAIN OriginBetween(l, s, r)
<1>1. IsOrigin(q, rels, OriginBetween(l, s, r))
  BY OriginBetweenIs
<1>2. PICK b : b = OriginBetween(l, s, r)
  OBVIOUS
<1>3. /\ IsSparse(q, AddScaled(q, o, c, b))
      /\ DOMAIN AddScaled(q, o, c, b) \subseteq DOMAIN o \cup DOMAIN b
  BY <1>1, <1>2, SumOfSparse DEF IsOrigin
<1>4. AddOrigin(q, o, c, l, s, r) = AddScaled(q, o, c, b)
  BY <1>2 DEF AddOrigin
<1> QED BY <1>1, <1>2, <1>3, <1>4 DEF IsOrigin

\* Its coefficients.
LEMMA AddOriginCoef ==
  ASSUME NEW q, IsModulus(q), NEW rels, NEW o, IsOrigin(q, rels, o), NEW s, IsOrigin(q, rels, s),
         NEW c \in Int, NEW l \in Words, NEW r \in Words, NEW t
  PROVE  Coef(AddOrigin(q, o, c, l, s, r), t)
           = ((Coef(o, t) + c * Coef(OriginBetween(l, s, r), t)) % q)
<1>1. IsOrigin(q, rels, OriginBetween(l, s, r))
  BY OriginBetweenIs
<1>2. PICK b : b = OriginBetween(l, s, r)
  OBVIOUS
<1>3. Coef(AddScaled(q, o, c, b), t) = ((Coef(o, t) + c * Coef(b, t)) % q)
  BY <1>1, <1>2, SumOfSparse DEF IsOrigin
<1> QED BY <1>2, <1>3 DEF AddOrigin

\* The coefficients of sums that differ in one term.
LEMMA OneTermMore ==
  ASSUME NEW q, IsModulus(q), NEW x \in Int, NEW y \in Int, NEW c \in Int,
         NEW a \in Int, a = ((x + c * 0) % q), NEW b \in Int, b = ((x + c * y) % q)
  PROVE  Congruent(q, b, a + c * y)
<1>1. c * y \in Int /\ x + c * 0 = x /\ x + c * y \in Int
  OBVIOUS
<1>2. PICK m \in Int : m = c * y
  BY <1>1
<1>3. Congruent(q, b, x + m) /\ Congruent(q, a, x)
  BY <1>1, <1>2, Remainder
<1>4. Congruent(q, x + m, a + m)
  BY <1>2, <1>3, CongruenceLaws
<1>5. x + m \in Int /\ a + m \in Int
  OBVIOUS
<1>6. Congruent(q, b, a + m)
  BY ONLY <1>3, <1>4, <1>5, b \in Int, IsModulus(q), CongruenceLaws
<1> QED BY <1>2, <1>6

\* A multiple of an origin expands to that multiple: with one term more.
LEMMA ShiftOneMore ==
  ASSUME NEW q, IsModulus(q), NEW rels, ArePolys(q, rels), NEW o, IsOrigin(q, rels, o),
         NEW b, IsOrigin(q, rels, b), NEW u \in DOMAIN b, NEW a, a = Without(b, u),
         NEW c \in Int, NEW l \in Words, NEW r \in Words,
         Expanded(q, rels, AddOrigin(q, o, c, l, a, r))
           = AddPoly(q, Expanded(q, rels, o), c, l, Expanded(q, rels, a), r)
  PROVE  Expanded(q, rels, AddOrigin(q, o, c, l, b, r))
           = AddPoly(q, Expanded(q, rels, o), c, l, Expanded(q, rels, b), r)
<1> DEFINE T == Triples(rels)
           m == OriginTerms(rels)
           t == Shift(l, u, r)
           g == AddOrigin(q, o, c, l, a, r)
           h == AddOrigin(q, o, c, l, b, r)
           y == Coef(b, u)
<1>1. /\ IsSparse(q, a) /\ DOMAIN a = DOMAIN b \ {u} /\ IsSparse(q, b) /\ DOMAIN b \subseteq T
      /\ \A v : Coef(a, v) = IF v \in DOMAIN b \ {u} THEN Coef(b, v) ELSE 0
  BY OnlyIs DEF Without, IsOrigin
<1>2. IsOrigin(q, rels, a) /\ u \in T /\ Coef(a, u) = 0 /\ \A v : v # u => Coef(a, v) = Coef(b, v)
  BY <1>1, SparseCoef DEF IsOrigin
<1>3. /\ IsOrigin(q, rels, g) /\ IsOrigin(q, rels, h)
      /\ \A v : Coef(g, v) = ((Coef(o, v) + c * Coef(OriginBetween(l, a, r), v)) % q)
      /\ \A v : Coef(h, v) = ((Coef(o, v) + c * Coef(OriginBetween(l, b, r), v)) % q)
  <2>1. IsOrigin(q, rels, g)
    BY <1>2, AddOriginIs
  <2>2. IsOrigin(q, rels, h)
    BY AddOriginIs
  <2>3. ASSUME NEW v PROVE Coef(g, v) = ((Coef(o, v) + c * Coef(OriginBetween(l, a, r), v)) % q)
    <3> PICK x : x = a
      OBVIOUS
    <3>1. IsOrigin(q, rels, x)
      BY <1>2
    <3> HIDE DEF g
    <3>2. Coef(AddOrigin(q, o, c, l, x, r), v) = ((Coef(o, v) + c * Coef(OriginBetween(l, x, r), v)) % q)
      BY <3>1, AddOriginCoef
    <3> QED BY <3>2 DEF g
  <2>4. ASSUME NEW v PROVE Coef(h, v) = ((Coef(o, v) + c * Coef(OriginBetween(l, b, r), v)) % q)
    <3>1. Coef(AddOrigin(q, o, c, l, b, r), v) = ((Coef(o, v) + c * Coef(OriginBetween(l, b, r), v)) % q)
      BY AddOriginCoef
    <3> QED BY <3>1
  <2> HIDE DEF g, h
  <2> QED BY <2>1, <2>2, <2>3, <2>4
<1>4. t \in T /\ m[t] = Between(l, m[u], r) /\ m[u] \in Polys(q)
  BY <1>2, ShiftIs, TermShifts
<1>5. /\ \A k : k \in DOMAIN OriginBetween(l, a, r) <=> \E v \in DOMAIN a : k = Shift(l, v, r)
      /\ \A k : k \in DOMAIN OriginBetween(l, b, r) <=> \E v \in DOMAIN b : k = Shift(l, v, r)
      /\ \A v \in T : Coef(OriginBetween(l, a, r), Shift(l, v, r)) = Coef(a, v)
      /\ \A v \in T : Coef(OriginBetween(l, b, r), Shift(l, v, r)) = Coef(b, v)
  BY <1>2, OriginBetweenIs
<1>6. ASSUME NEW v, v # t PROVE Coef(h, v) = Coef(g, v)
  <2>1. Coef(OriginBetween(l, a, r), v) = Coef(OriginBetween(l, b, r), v)
    <3>1. CASE \E w \in DOMAIN b : v = Shift(l, w, r)
      <4>1. PICK w \in DOMAIN b : v = Shift(l, w, r)
        BY <3>1
      <4>2. w # u /\ w \in T
        BY <1>1, <1>6, <4>1
      <4> QED BY <1>2, <1>5, <4>1, <4>2
    <3>2. CASE ~ \E w \in DOMAIN b : v = Shift(l, w, r)
      <4>1. v \notin DOMAIN OriginBetween(l, a, r) /\ v \notin DOMAIN OriginBetween(l, b, r)
        BY <1>1, <1>5, <3>2
      <4> QED BY <4>1 DEF Coef
    <3> QED BY <3>1, <3>2
  <2> QED BY <1>3, <2>1
<1>7. Congruent(q, Coef(h, t), Coef(g, t) + c * y)
  <2>1. Coef(OriginBetween(l, a, r), t) = 0 /\ Coef(OriginBetween(l, b, r), t) = y
    BY <1>2, <1>5
  <2>2. Coef(g, t) = ((Coef(o, t) + c * 0) % q) /\ Coef(h, t) = ((Coef(o, t) + c * y) % q)
    BY <1>3, <2>1
  <2>3. Coef(o, t) \in Int /\ y \in Int /\ Coef(g, t) \in Int /\ Coef(h, t) \in Int
    BY <1>1, <1>3, SparseCoef DEF IsOrigin
  <2> HIDE DEF t, y, g, h
  <2> QED BY <2>2, <2>3, OneTermMore
<1>8. y \in Int /\ c * y \in Int
  <2>1. y \in Int
    BY <1>1, SparseCoef
  <2> QED BY <2>1
<1>9. /\ Expandable(q, T, g, m) /\ Expandable(q, T, h, m) /\ Expandable(q, T, b, m)
      /\ Expanded(q, rels, g) \in Polys(q) /\ Expanded(q, rels, o) \in Polys(q)
      /\ Expanded(q, rels, a) \in Polys(q)
  BY <1>2, <1>3, OriginExpands
<1> HIDE DEF T, m, t, g, h, y
<1>10. Expansion(q, h, m) = AddScaled(q, Expansion(q, g, m), c * y, m[t])
  BY <1>4, <1>6, <1>7, <1>8, <1>9, ExpansionAdds
<1>11. Expansion(q, b, m) = AddScaled(q, Expansion(q, a, m), y, m[u])
  BY <1>2, <1>9, ExpansionWithout DEF y
<1>12. PICK xo, xa, xg, mu : /\ xo = Expanded(q, rels, o) /\ xa = Expanded(q, rels, a)
                             /\ xg = Expanded(q, rels, g) /\ mu = m[u]
  OBVIOUS
<1>13. /\ xo \in Polys(q) /\ xa \in Polys(q) /\ mu \in Polys(q)
       /\ Between(l, xa, r) \in Polys(q) /\ Between(l, mu, r) \in Polys(q)
  BY <1>4, <1>9, <1>12, BetweenType
<1>14. /\ Expanded(q, rels, h) = AddScaled(q, xg, c * y, Between(l, mu, r))
       /\ Expanded(q, rels, b) = AddScaled(q, xa, y, mu)
       /\ xg = AddScaled(q, xo, c, Between(l, xa, r))
  BY <1>4, <1>10, <1>11, <1>12, AddPolyIs DEF Expanded, m, g
<1>15. Between(l, AddScaled(q, xa, y, mu), r) = AddScaled(q, Between(l, xa, r), y, Between(l, mu, r))
  BY <1>8, <1>13, BetweenSum
<1>16. AddScaled(q, xo, c, AddScaled(q, Between(l, xa, r), y, Between(l, mu, r)))
         = AddScaled(q, AddScaled(q, xo, c, Between(l, xa, r)), c * y, Between(l, mu, r))
  BY <1>8, <1>13, SumsOfPolysLaws
<1>17. AddPoly(q, xo, c, l, Expanded(q, rels, b), r)
         = AddScaled(q, xo, c, Between(l, Expanded(q, rels, b), r))
  BY AddPolyIs
<1>18. Expanded(q, rels, h) = AddPoly(q, xo, c, l, Expanded(q, rels, b), r)
  BY <1>14, <1>15, <1>16, <1>17
<1> QED BY <1>12, <1>18 DEF h

\* A multiple of an origin, added to another one, expands to that multiple.
LEMMA ExpansionShifts ==
  ASSUME NEW q, IsModulus(q), NEW rels, ArePolys(q, rels), NEW o, IsOrigin(q, rels, o),
         NEW s, IsOrigin(q, rels, s), NEW c \in Int, NEW l \in Words, NEW r \in Words
  PROVE  Expanded(q, rels, AddOrigin(q, o, c, l, s, r))
           = AddPoly(q, Expanded(q, rels, o), c, l, Expanded(q, rels, s), r)
<1> DEFINE D == DOMAIN s
           Holds(a) == Expanded(q, rels, AddOrigin(q, o, c, l, a, r))
                         = AddPoly(q, Expanded(q, rels, o), c, l, Expanded(q, rels, a), r)
           P == {d \in SUBSET D : Holds(Only(s, d))}
<1>1. IsFiniteSet(D) /\ IsSparse(q, s) /\ D \subseteq Triples(rels) /\ IsSparse(q, o)
  BY DEF IsOrigin, IsSparse
<1>2. \A d \in SUBSET D : IsOrigin(q, rels, Only(s, d)) /\ DOMAIN Only(s, d) = d
  BY <1>1, OnlyIs DEF IsOrigin
<1>3. {} \in P
  <2>1. PICK z : z = Only(s, {})
    OBVIOUS
  <2>2. IsOrigin(q, rels, z) /\ DOMAIN z = {}
    BY <1>2, <2>1
  <2>3. Expanded(q, rels, z) = ZeroPoly
    BY <2>2, OriginExpands, ExpansionType DEF Expanded
  <2>4. Expanded(q, rels, o) \in Polys(q)
    BY OriginExpands
  <2>5. AddPoly(q, Expanded(q, rels, o), c, l, ZeroPoly, r) = Expanded(q, rels, o)
    BY <2>4, AddPolyIs, BetweenNothing, PlusZero
  <2>6. AddOrigin(q, o, c, l, z, r) = o
    <3>1. DOMAIN OriginBetween(l, z, r) = {}
      <4>1. \A k : k \in DOMAIN OriginBetween(l, z, r) <=> \E t \in DOMAIN z : k = Shift(l, t, r)
        BY <2>2, OriginBetweenIs
      <4> QED BY ONLY <2>2, <4>1
    <3>2. IsOrigin(q, rels, AddOrigin(q, o, c, l, z, r))
          /\ \A t : Coef(AddOrigin(q, o, c, l, z, r), t)
                      = ((Coef(o, t) + c * Coef(OriginBetween(l, z, r), t)) % q)
      BY <2>2, AddOriginIs, AddOriginCoef
    <3>3. ASSUME NEW t PROVE Coef(AddOrigin(q, o, c, l, z, r), t) = Coef(o, t)
      <4>1. Coef(OriginBetween(l, z, r), t) = 0
        BY <3>1 DEF Coef
      <4>2. Coef(o, t) \in 0 .. q - 1 /\ Coef(o, t) \in Int
        BY <1>1, SparseCoef
      <4>3. Coef(o, t) + c * 0 = Coef(o, t)
        BY <4>2
      <4> QED BY <3>2, <4>1, <4>2, <4>3, Remainder
    <3> QED BY <1>1, <3>2, <3>3, SparseEqual DEF IsOrigin
  <2> QED BY <2>1, <2>3, <2>5, <2>6
<1>4. ASSUME NEW d \in SUBSET D, d # {}, \A u \in d : d \ {u} \in P PROVE d \in P
  <2>1. PICK u \in d : TRUE
    BY <1>4
  <2>2. PICK b : b = Only(s, d)
    OBVIOUS
  <2>3. IsOrigin(q, rels, b) /\ DOMAIN b = d /\ \A v \in d : b[v] = s[v]
    BY <1>2, <2>2 DEF Only
  <2>4. Without(b, u) = Only(s, d \ {u})
    BY <2>3 DEF Without, Only
  <2>5. PICK a : a = Without(b, u)
    OBVIOUS
  <2>6. Holds(a)
    BY <1>4, <2>1, <2>4, <2>5
  <2>7. Holds(b)
    BY <2>1, <2>3, <2>5, <2>6, ShiftOneMore
  <2> QED BY <2>2, <2>7
<1>5. D \in P
  <2> HIDE DEF P, D, Holds
  <2>1. SUBSET D \subseteq P
    BY <1>1, <1>3, <1>4, SubsetInduction
  <2> QED BY <2>1
<1>6. Only(s, D) = s
  BY <1>1 DEF Only, IsSparse
<1> QED BY <1>5, <1>6

-----------------------------------------------------------------------------
(* The verifier's expansion.                                               *)

\* a term of an origin that is added to a sum, as the verifier does it
OriginTerm(q, rels, o, t) == AddPoly(q, <<>>, o[t], t[2], rels[t[1]], t[3])

AddTerm(q, rels, o, t, sum) == AddPoly(q, sum, 1, <<>>, OriginTerm(q, rels, o, t), <<>>)

OriginSum(q, rels, o) == FoldSet(LAMBDA t, sum : AddTerm(q, rels, o, t, sum), <<>>, DOMAIN o)

\* g has the sum over each subset of the terms
SumsTerms(q, rels, o, g) ==
  g = [s \in SUBSET DOMAIN o |-> IF s = {} THEN ZeroPoly ELSE AddTerm(q, rels, o, Pick(s), g[s \ {Pick(s)}])]

\* The fold is such a sum.
LEMMA OriginSumIs ==
  ASSUME NEW q, NEW rels, NEW o
  PROVE  OriginSum(q, rels, o) = (CHOOSE g : SumsTerms(q, rels, o, g))[DOMAIN o]
<1>1. OriginSum(q, rels, o)
        = (CHOOSE g : g = [s \in SUBSET DOMAIN o |->
             IF s = {} THEN <<>>
             ELSE AddTerm(q, rels, o, CHOOSE x \in s : TRUE, g[s \ {CHOOSE x \in s : TRUE}])])[DOMAIN o]
  BY Zenon DEF OriginSum, FoldSet, MapThenFoldSet
<1> QED BY <1>1, Zenon DEF SumsTerms, Pick, ZeroPoly

\* What adding a term gives.
LEMMA AddTermIs ==
  ASSUME NEW q, IsModulus(q), NEW rels, ArePolys(q, rels), NEW o, IsOrigin(q, rels, o),
         NEW t \in DOMAIN o, NEW f \in Polys(q)
  PROVE  AddTerm(q, rels, o, t, f) = AddScaled(q, f, o[t], OriginTerms(rels)[t])
<1>1. t \in Triples(rels) /\ o[t] \in Int
  BY DEF IsOrigin, IsSparse
<1>2. PICK m, c : m = OriginTerms(rels)[t] /\ c = o[t]
  OBVIOUS
<1>3. m = Between(t[2], rels[t[1]], t[3]) /\ c \in Int
  BY <1>1, <1>2 DEF OriginTerms
<1>4. m \in Polys(q)
  <2>1. rels[t[1]] \in Polys(q) /\ t[2] \in Words /\ t[3] \in Words
    BY <1>1, TripleIs DEF ArePolys
  <2> QED BY <1>3, <2>1, BetweenType
<1>5. OriginTerm(q, rels, o, t) = AddScaled(q, ZeroPoly, c, m)
  BY <1>2, <1>3, AddPolyIs DEF OriginTerm, ZeroPoly
<1>6. ZeroPoly \in Polys(q) /\ AddScaled(q, ZeroPoly, c, m) \in Polys(q)
  BY <1>3, <1>4, ZeroIs, PolySumType
<1>7. AddTerm(q, rels, o, t, f) = AddScaled(q, f, 1, AddScaled(q, ZeroPoly, c, m))
  <2>1. AddTerm(q, rels, o, t, f) = AddScaled(q, f, 1,
          Between(EmptyWord, AddScaled(q, ZeroPoly, c, m), EmptyWord))
    BY <1>5, AddPolyIs DEF AddTerm, EmptyWord
  <2> QED BY <1>6, <2>1, BetweenNothing
<1>8. AddScaled(q, f, 1, AddScaled(q, ZeroPoly, c, m)) = AddScaled(q, AddScaled(q, f, 1, ZeroPoly), 1 * c, m)
  BY <1>3, <1>4, <1>6, 1 \in Int, SumsOfPolysLaws
<1>9. AddScaled(q, f, 1, ZeroPoly) = f /\ 1 * c = c
  BY <1>3, PlusZero
<1> QED BY <1>2, <1>7, <1>8, <1>9

\* The verifier's sum is what the origin expands to.
LEMMA SumIsExpansion ==
  ASSUME NEW q, IsModulus(q), NEW rels, ArePolys(q, rels), NEW o, IsOrigin(q, rels, o)
  PROVE  OriginSum(q, rels, o) = Expanded(q, rels, o)
<1> DEFINE D == DOMAIN o
           m == OriginTerms(rels)
<1>1. Expandable(q, Triples(rels), o, m)
  BY OriginExpands
<1>2. PICK g \in [SUBSET D -> Polys(q)] :
           Runs(g, D, ZeroPoly, Adding(q, o, m), Picks(D)) /\ g[D] = Expanded(q, rels, o)
  BY <1>1, ExpansionIs DEF Expanded
<1>3. \A t \in D : \A f \in Polys(q) : Adding(q, o, m)[t][f] = AddScaled(q, f, o[t], m[t])
  BY <1>1, AddingIs
<1>4. IsFiniteSet(D)
  BY DEF IsOrigin, IsSparse
<1>5. ASSUME NEW s \in SUBSET D, s # {}
      PROVE  /\ Picks(D)[s] = Pick(s) /\ Pick(s) \in s
             /\ Adding(q, o, m)[Picks(D)[s]][g[s \ {Picks(D)[s]}]]
                  = AddTerm(q, rels, o, Pick(s), g[s \ {Pick(s)}])
  <2>1. Picks(D)[s] = Pick(s) /\ Pick(s) \in s
    BY <1>5, PickIsElement DEF Picks
  <2>2. Pick(s) \in D /\ g[s \ {Pick(s)}] \in Polys(q)
    BY <2>1
  <2>3. PICK t, f : t = Pick(s) /\ f = g[s \ {Pick(s)}]
    OBVIOUS
  <2>4. AddTerm(q, rels, o, t, f) = AddScaled(q, f, o[t], m[t])
    BY <2>2, <2>3, AddTermIs
  <2>5. Adding(q, o, m)[t][f] = AddScaled(q, f, o[t], m[t])
    BY <1>3, <2>2, <2>3, SMTT(30)
  <2> QED BY <2>1, <2>3, <2>4, <2>5
<1>6. SumsTerms(q, rels, o, g)
  <2> DEFINE a == [s \in SUBSET D |-> IF s = {} THEN ZeroPoly
                                      ELSE Adding(q, o, m)[Picks(D)[s]][g[s \ {Picks(D)[s]}]]]
             b == [s \in SUBSET D |-> IF s = {} THEN ZeroPoly
                                      ELSE AddTerm(q, rels, o, Pick(s), g[s \ {Pick(s)}])]
  <2>1. a = b
    BY <1>5
  <2>2. g = a
    BY <1>2 DEF Runs
  <2>3. SumsTerms(q, rels, o, g) <=> g = b
    BY DEF SumsTerms
  <2> QED BY ONLY <2>1, <2>2, <2>3
<1>7. PICK h : h = CHOOSE f : SumsTerms(q, rels, o, f)
  OBVIOUS
<1>8. SumsTerms(q, rels, o, h)
  BY <1>6, <1>7
<1>9. \A f : SumsTerms(q, rels, o, f) =>
        /\ f[{}] = ZeroPoly
        /\ \A s \in SUBSET D : s # {} => f[s] = AddTerm(q, rels, o, Pick(s), f[s \ {Pick(s)}])
  BY DEF SumsTerms
<1> DEFINE P == {s \in SUBSET D : h[s] = g[s]}
<1>10. {} \in P
  BY <1>6, <1>8, <1>9
<1>11. ASSUME NEW s \in SUBSET D, s # {}, \A x \in s : s \ {x} \in P PROVE s \in P
  <2>1. Pick(s) \in s
    BY <1>5, <1>11
  <2>2. h[s \ {Pick(s)}] = g[s \ {Pick(s)}]
    BY <1>11, <2>1
  <2>3. /\ h[s] = AddTerm(q, rels, o, Pick(s), h[s \ {Pick(s)}])
        /\ g[s] = AddTerm(q, rels, o, Pick(s), g[s \ {Pick(s)}])
    BY <1>6, <1>8, <1>9, <1>11
  <2> QED BY <2>2, <2>3
<1>12. D \in P
  <2> HIDE DEF P, D, m
  <2>1. SUBSET D \subseteq P
    BY <1>4, <1>10, <1>11, SubsetInduction
  <2> QED BY <2>1
<1>13. h[D] = g[D]
  BY <1>12
<1> QED BY <1>2, <1>7, <1>13, OriginSumIs

-----------------------------------------------------------------------------
(* The states of the automaton and what it follows.                        *)

\* cert shows the automaton of the words F over the quiver of pr
IsFor(cert, pr, F) ==
  /\ cert.quiver.vertices = pr.vertices /\ cert.quiver.arrows = pr.arrows
  /\ pr.vertices \in Nat /\ pr.arrows \in Seq((1 .. pr.vertices) \X (1 .. pr.vertices))
  /\ F \in SUBSET Words /\ IsFiniteSet(F) /\ LeadingWords(cert) = F /\ AreApart(F)
  /\ \A w \in F : Len(w) >= 2 /\ IsPath(pr, w)

\* the state after the first n arrows of a forbidden word
At(pr, w, n) ==
  IF n = 0 THEN StartState(pr.arrows[w[1]][1])
  ELSE [vertex |-> pr.arrows[w[n]][2], word |-> SubSeq(w, 1, n)]

\* the longest ending of x that begins a word of F, empty if there is none
IsLongest(F, x, y) ==
  \/ y = EmptyWord /\ \A k \in DOMAIN x : Ending(x, k) \notin BeginningsOf(F)
  \/ \E k \in DOMAIN x : /\ y = Ending(x, k) /\ y \in BeginningsOf(F)
                         /\ \A j \in DOMAIN x : Ending(x, j) \in BeginningsOf(F) => k <= j

\* an arrow from a state to another one, as the verifier follows it
Moves(cert, s, a, t) == <<a, t>> \in Edges(cert, s)

\* Beginnings of forbidden words are nonempty paths.
LEMMA BeginningIs ==
  ASSUME NEW cert, NEW pr, NEW F, IsFor(cert, pr, F), NEW x \in BeginningsOf(F)
  PROVE  /\ x \in Words /\ Len(x) >= 1 /\ \A i \in 1 .. Len(x) : x[i] \in DOMAIN pr.arrows
         /\ \E w \in F : \E n \in 1 .. Len(w) - 1 : x = SubSeq(w, 1, n) /\ Len(x) = n /\ x[n] = w[n]
<1>1. PICK w \in F : \E n \in 1 .. Len(w) - 1 : x = SubSeq(w, 1, n)
  BY DEF BeginningsOf
<1>2. PICK n \in 1 .. Len(w) - 1 : x = SubSeq(w, 1, n)
  BY <1>1
<1>3. w \in Words /\ Len(w) \in Nat /\ n \in Nat /\ n >= 1 /\ n < Len(w) /\ DOMAIN w = 1 .. Len(w)
  BY <1>2 DEF IsFor, Words
<1>4. x \in Words /\ Len(x) = n - 1 + 1 /\ \A i \in 1 .. n - 1 + 1 : x[i] = w[1 + i - 1]
  BY <1>2, <1>3, PartIs
<1>5. Len(x) = n /\ \A i \in 1 .. n : x[i] = w[i]
  BY <1>3, <1>4
<1>6. \A i \in 1 .. n : w[i] \in DOMAIN pr.arrows
  BY <1>3 DEF IsFor, IsPath
<1> QED BY <1>2, <1>3, <1>4, <1>5, <1>6

\* The arrows of a quiver and their ends.
LEMMA ArrowIs ==
  ASSUME NEW cert, NEW pr, NEW F, IsFor(cert, pr, F), NEW a \in DOMAIN pr.arrows
  PROVE  a \in Nat /\ pr.arrows[a][1] \in 1 .. pr.vertices /\ pr.arrows[a][2] \in 1 .. pr.vertices
<1> DEFINE V == 1 .. pr.vertices
<1>1. pr.arrows \in Seq(V \X V)
  BY DEF IsFor
<1> HIDE DEF V
<1>2. a \in 1 .. Len(pr.arrows) /\ Len(pr.arrows) \in Nat
  BY <1>1, LenProperties
<1>3. pr.arrows[a] \in V \X V
  BY <1>1, <1>2, ElementOfSeq
<1> QED BY <1>2, <1>3 DEF V

\* The states are the vertices and the beginnings of forbidden words, for both sides.
LEMMA StatesAre ==
  ASSUME NEW cert, NEW pr, NEW F, IsFor(cert, pr, F)
  PROVE  /\ States(pr, F) = AutomatonStates(cert)
         /\ Starts(cert) = {StartState(v) : v \in 1 .. pr.vertices}
         /\ Starts(cert) \subseteq States(pr, F)
         /\ \A x \in BeginningsOf(F) : [vertex |-> pr.arrows[x[Len(x)]][2], word |-> x] \in States(pr, F)
<1>1. BeginningsOf(F) = ProperPrefixes(F) /\ BeginningsOf(F) = Tracked(cert)
  BY DEF BeginningsOf, ProperPrefixes, Tracked, IsFor
<1>2. Starts(cert) = {StartState(v) : v \in 1 .. pr.vertices}
  BY DEF Starts, StartState, IsFor
<1> QED BY <1>1, <1>2 DEF States, AutomatonStates, IsFor

\* One state.
LEMMA StateIs ==
  ASSUME NEW cert, NEW pr, NEW F, IsFor(cert, pr, F), NEW s \in States(pr, F)
  PROVE  /\ s = [vertex |-> s.vertex, word |-> s.word]
         /\ s.vertex \in 1 .. pr.vertices /\ s.word \in Words
         /\ s \in Starts(cert) \/ \E w \in F : \E n \in 1 .. Len(w) - 1 : s = At(pr, w, n)
<1>1. BeginningsOf(F) = ProperPrefixes(F)
  BY DEF BeginningsOf, ProperPrefixes
<1>2. CASE s \in {StartState(v) : v \in 1 .. pr.vertices}
  <2>1. PICK v \in 1 .. pr.vertices : s = [vertex |-> v, word |-> <<>>]
    BY <1>2 DEF StartState
  <2> QED BY <1>2, <2>1, StatesAre, CatEmpty
<1>3. CASE s \in {[vertex |-> pr.arrows[w[Len(w)]][2], word |-> w] : w \in ProperPrefixes(F)}
  <2>1. PICK x \in BeginningsOf(F) : s = [vertex |-> pr.arrows[x[Len(x)]][2], word |-> x]
    BY <1>1, <1>3
  <2>2. /\ x \in Words /\ Len(x) >= 1 /\ \A i \in 1 .. Len(x) : x[i] \in DOMAIN pr.arrows
        /\ \E w \in F : \E n \in 1 .. Len(w) - 1 : x = SubSeq(w, 1, n) /\ Len(x) = n /\ x[n] = w[n]
    BY BeginningIs
  <2>3. PICK w \in F : \E n \in 1 .. Len(w) - 1 : x = SubSeq(w, 1, n) /\ Len(x) = n /\ x[n] = w[n]
    BY <2>2
  <2>4. PICK n \in 1 .. Len(w) - 1 : x = SubSeq(w, 1, n) /\ Len(x) = n /\ x[n] = w[n]
    BY <2>3
  <2>5. n # 0 /\ s = At(pr, w, n)
    BY <2>1, <2>4 DEF At
  <2>6. pr.arrows[x[Len(x)]][2] \in 1 .. pr.vertices
    <3>1. Len(x) \in 1 .. Len(x)
      BY <2>2, <2>4
    <3> QED BY <2>2, <3>1, ArrowIs
  <2> QED BY <2>1, <2>2, <2>5, <2>6
<1> QED BY <1>2, <1>3 DEF States

\* Where the verifier follows an arrow to.
LEMMA FollowIs ==
  ASSUME NEW cert, NEW pr, NEW F, IsFor(cert, pr, F), NEW x \in Words, NEW a,
         NEW f, f = FollowedTo(cert, x, a)
  PROVE  f = [vertex |-> pr.arrows[a][2], word |-> f.word] /\ IsLongest(F, x, f.word)
<1> DEFINE C == {k \in DOMAIN x : Ending(x, k) \in BeginningsOf(F)}
<1>1. BeginningsOf(F) = Tracked(cert)
  BY DEF BeginningsOf, Tracked, IsFor
<1>2. f = [vertex |-> pr.arrows[a][2], word |-> IF C = {} THEN <<>> ELSE Ending(x, Min(C))]
  BY <1>1 DEF FollowedTo, Ending, IsFor
<1>3. C \in SUBSET Nat
  BY DEF Words
<1>4. CASE C = {}
  BY <1>2, <1>4 DEF IsLongest, EmptyWord
<1>5. CASE C # {}
  <2>1. Min(C) \in C /\ \A k \in C : Min(C) <= k
    <3> HIDE DEF C
    <3> QED BY <1>3, <1>5, MinIs
  <2>2. PICK k \in C : k = Min(C)
    BY <2>1
  <2>3. f = [vertex |-> pr.arrows[a][2], word |-> Ending(x, k)]
    BY <1>2, <1>5, <2>2
  <2>4. \A j \in DOMAIN x : Ending(x, j) \in BeginningsOf(F) => k <= j
    BY <2>1, <2>2
  <2>5. k \in DOMAIN x /\ Ending(x, k) \in BeginningsOf(F)
    OBVIOUS
  <2>6. IsLongest(F, x, Ending(x, k))
    BY <2>4, <2>5 DEF IsLongest
  <2>7. f.word = Ending(x, k)
    BY <2>3
  <2> QED BY <2>3, <2>6, <2>7
<1> QED BY <1>4, <1>5

\* A word with an arrow more.
LEMMA OneArrowMore ==
  ASSUME NEW x \in Words, NEW a \in Nat
  PROVE  /\ Append(x, a) \in Words /\ Len(Append(x, a)) = Len(x) + 1 /\ Len(x) \in Nat
         /\ Append(x, a)[Len(x) + 1] = a /\ \A i \in 1 .. Len(x) : Append(x, a)[i] = x[i]
<1>1. x \in Seq(Nat)
  BY DEF Words
<1> QED BY <1>1, AppendProperties, LenProperties DEF Words

\* The longest ending of a word with an arrow more is a state's word.
LEMMA LongestIsState ==
  ASSUME NEW cert, NEW pr, NEW F, IsFor(cert, pr, F), NEW x \in Words, NEW a \in DOMAIN pr.arrows,
         NEW y, IsLongest(F, Append(x, a), y)
  PROVE  y \in Words /\ [vertex |-> pr.arrows[a][2], word |-> y] \in States(pr, F)
<1> DEFINE t == Append(x, a)
           n == Len(x)
<1>1. a \in Nat /\ pr.arrows[a][2] \in 1 .. pr.vertices
  BY ArrowIs
<1>2. /\ t \in Words /\ Len(t) = n + 1 /\ n \in Nat /\ t[n + 1] = a /\ DOMAIN t = 1 .. n + 1
  BY <1>1, OneArrowMore DEF Words
<1>3. CASE y = EmptyWord
  <2>1. [vertex |-> pr.arrows[a][2], word |-> y] = StartState(pr.arrows[a][2])
    BY <1>3 DEF StartState, EmptyWord
  <2> QED BY <1>1, <1>3, <2>1, StatesAre, CatEmpty DEF EmptyWord
<1>4. CASE \E k \in DOMAIN t : y = Ending(t, k) /\ y \in BeginningsOf(F)
  <2>1. PICK k \in DOMAIN t : y = Ending(t, k) /\ y \in BeginningsOf(F)
    BY <1>4
  <2> HIDE DEF t, n
  <2>2. k \in Nat /\ k >= 1 /\ k <= n + 1
    BY <1>2, <2>1
  <2>3. Len(y) = (n + 1) - k + 1 /\ \A i \in 1 .. (n + 1) - k + 1 : y[i] = t[k + i - 1]
    BY <1>2, <2>1, <2>2, PartIs DEF Ending
  <2>4. Len(y) \in 1 .. (n + 1) - k + 1 /\ k + Len(y) - 1 = n + 1
    BY <1>2, <2>2, <2>3
  <2>5. y[Len(y)] = a
    BY <1>2, <2>3, <2>4
  <2> QED BY <2>1, <2>5, StatesAre, BeginningIs
<1> QED BY <1>3, <1>4 DEF IsLongest

\* What a move of the verifier is.
LEMMA MoveIs ==
  ASSUME NEW cert, NEW pr, NEW F, IsFor(cert, pr, F), NEW s, NEW a, NEW t
  PROVE  /\ Moves(cert, s, a, t) <=> /\ a \in ArrowsFrom(pr, s.vertex)
                                     /\ \A w \in F : ~IsSuffix(w, Append(s.word, a))
                                     /\ t = FollowedTo(cert, Append(s.word, a), a)
         /\ \A e \in Edges(cert, s) : e = <<e[1], e[2]>>
<1> DEFINE Fol(b) == FollowedTo(cert, Append(s.word, b), b)
           B == {b \in ArrowsFrom(pr, s.vertex) : \A w \in F : ~IsSuffix(w, Append(s.word, b))}
<1>1. Edges(cert, s) = {<<b, Fol(b)>> : b \in B}
  BY DEF Edges, FollowedTo, ArrowsFrom, IsFor
<1> HIDE DEF Fol, B
<1>2. <<a, t>> \in {<<b, Fol(b)>> : b \in B} <=> a \in B /\ t = Fol(a)
  OBVIOUS
<1>3. \A e \in {<<b, Fol(b)>> : b \in B} : e = <<e[1], e[2]>>
  OBVIOUS
<1> QED BY <1>1, <1>2, <1>3 DEF Moves, B, Fol

\* Where a move leads.
LEMMA MoveGives ==
  ASSUME NEW cert, NEW pr, NEW F, IsFor(cert, pr, F), NEW s \in States(pr, F), NEW a, NEW t,
           Moves(cert, s, a, t)
  PROVE  /\ a \in DOMAIN pr.arrows /\ a \in Nat /\ pr.arrows[a][1] = s.vertex /\ t.vertex = pr.arrows[a][2]
         /\ t \in States(pr, F)
         /\ \A w \in F : ~IsSuffix(w, Append(s.word, a))
         /\ IsLongest(F, Append(s.word, a), t.word)
         /\ \A u : Moves(cert, s, a, u) => u = t
<1>1. /\ a \in ArrowsFrom(pr, s.vertex) /\ \A w \in F : ~IsSuffix(w, Append(s.word, a))
      /\ t = FollowedTo(cert, Append(s.word, a), a)
  BY MoveIs
<1>2. a \in DOMAIN pr.arrows /\ pr.arrows[a][1] = s.vertex
  BY <1>1 DEF ArrowsFrom
<1>3. a \in Nat /\ s.word \in Words
  BY <1>2, ArrowIs, StateIs
<1>4. t = [vertex |-> pr.arrows[a][2], word |-> t.word] /\ IsLongest(F, Append(s.word, a), t.word)
  BY <1>1, <1>3, OneArrowMore, FollowIs
<1>5. t \in States(pr, F)
  BY <1>2, <1>3, <1>4, LongestIsState
<1>6. t.vertex = pr.arrows[a][2]
  BY <1>4
<1>7. \A u : Moves(cert, s, a, u) => u = t
  BY <1>1, MoveIs
<1> QED BY <1>1, <1>2, <1>3, <1>4, <1>5, <1>6, <1>7

\* An arrow that completes no forbidden word leads on.
LEMMA MoveExists ==
  ASSUME NEW cert, NEW pr, NEW F, IsFor(cert, pr, F), NEW s \in States(pr, F),
           NEW a \in ArrowsFrom(pr, s.vertex),
         \A w \in F : ~IsSuffix(w, Append(s.word, a))
  PROVE  \E t \in States(pr, F) : Moves(cert, s, a, t)
<1>1. PICK t : t = FollowedTo(cert, Append(s.word, a), a)
  OBVIOUS
<1>2. Moves(cert, s, a, t)
  BY <1>1, MoveIs
<1> QED BY <1>2, MoveGives

\* The engine moves as the verifier does.
LEMMA MovesAgree ==
  ASSUME NEW cert, NEW pr, NEW F, IsFor(cert, pr, F), NEW s \in States(pr, F), NEW a, NEW t
  PROVE  Moves(cert, s, a, t) <=> a \in ArrowsFrom(pr, s.vertex) /\ t \in After(pr, F, s, a)
<1> SUFFICES ASSUME a \in ArrowsFrom(pr, s.vertex)
             PROVE  Moves(cert, s, a, t) <=> t \in After(pr, F, s, a)
  BY MoveIs
<1>1. a \in Nat /\ s.word \in Words
  BY ArrowIs, StateIs DEF ArrowsFrom
<1>2. Append(s.word, a) \in Words
  BY <1>1, OneArrowMore
<1>3. After(pr, F, s, a) = IF \E w \in F : IsSuffix(w, Append(s.word, a)) THEN {}
                           ELSE {FollowedTo(cert, Append(s.word, a), a)}
  <2>1. /\ cert.quiver.arrows = pr.arrows /\ F \in SUBSET Words /\ LeadingWords(cert) = F
        /\ AreApart(F) /\ \A w \in F : Len(w) >= 2
    BY DEF IsFor
  <2> QED BY ONLY <1>2, <2>1, ArrowsAgree
<1> QED BY <1>3, MoveIs

\* The successors of a state.
LEMMA SuccessorIs ==
  ASSUME NEW cert, NEW pr, NEW F, IsFor(cert, pr, F), NEW s, NEW t
  PROVE  t \in Successors(cert, s) <=> \E a : Moves(cert, s, a, t)
<1>1. \A e \in Edges(cert, s) : e = <<e[1], e[2]>>
  BY MoveIs
<1>2. ASSUME t \in Successors(cert, s) PROVE \E a : Moves(cert, s, a, t)
  <2>1. PICK e \in Edges(cert, s) : t = e[2]
    BY <1>2 DEF Successors
  <2>2. <<e[1], t>> \in Edges(cert, s)
    BY <1>1, <2>1
  <2> QED BY <2>2 DEF Moves
<1>3. ASSUME NEW a, Moves(cert, s, a, t) PROVE t \in Successors(cert, s)
  <2>1. <<a, t>> \in Edges(cert, s) /\ <<a, t>>[2] = t
    BY <1>3 DEF Moves
  <2> QED BY <2>1 DEF Successors
<1> QED BY <1>2, <1>3

\* A function has a finite image.
LEMMA ImageIsFinite ==
  ASSUME NEW D, IsFiniteSet(D), NEW f, DOMAIN f = D
  PROVE  IsFiniteSet({f[x] : x \in D})
<1> DEFINE g == [x \in D |-> f[x]]
<1>1. g \in Surjection(D, {f[x] : x \in D})
  BY DEF Surjection
<1> QED BY <1>1, FS_Surjection

\* The part of a word up to a place.
LEMMA StartOfWord ==
  ASSUME NEW w \in Words, NEW n \in 0 .. Len(w)
  PROVE  /\ SubSeq(w, 1, n) \in Words /\ Len(SubSeq(w, 1, n)) = n /\ n \in Nat /\ Len(w) \in Nat
         /\ \A i \in 1 .. n : SubSeq(w, 1, n)[i] = w[i]
         /\ n = 0 => SubSeq(w, 1, n) = EmptyWord
         /\ n # 0 => n - 1 \in 0 .. Len(w) /\ SubSeq(w, 1, n) = Append(SubSeq(w, 1, n - 1), w[n])
<1>1. Len(w) \in Nat /\ n \in Nat /\ n <= Len(w) /\ w \in Seq(Nat)
  BY LenProperties DEF Words
<1>2. /\ SubSeq(w, 1, n) \in Words /\ Len(SubSeq(w, 1, n)) = n - 1 + 1
      /\ \A i \in 1 .. n - 1 + 1 : SubSeq(w, 1, n)[i] = w[1 + i - 1]
  <2>1. w \in Words /\ 1 \in Nat /\ n \in Nat /\ 1 >= 1 /\ n <= Len(w) /\ 1 <= n + 1
    BY <1>1
  <2> QED BY ONLY <2>1, PartIs, Zenon
<1>3. n - 1 + 1 = n /\ \A i \in 1 .. n : 1 + i - 1 = i
  BY <1>1
<1>4. Len(SubSeq(w, 1, n)) = n /\ \A i \in 1 .. n : SubSeq(w, 1, n)[i] = w[i]
  BY <1>2, <1>3
<1>5. n = 0 => SubSeq(w, 1, n) = EmptyWord
  BY <1>2, <1>4, EmptySeq DEF Words, EmptyWord
<1>6. ASSUME n # 0 PROVE n - 1 \in 0 .. Len(w) /\ SubSeq(w, 1, n) = Append(SubSeq(w, 1, n - 1), w[n])
  <2> DEFINE x == SubSeq(w, 1, n - 1)
             y == SubSeq(w, 1, n)
  <2>1. n - 1 \in Nat /\ n - 1 <= Len(w) /\ n \in 1 .. Len(w)
    BY <1>1, <1>6
  <2>2. x \in Words /\ Len(x) = (n - 1) - 1 + 1 /\ \A i \in 1 .. (n - 1) - 1 + 1 : x[i] = w[1 + i - 1]
    <3>1. w \in Words /\ 1 \in Nat /\ n - 1 \in Nat /\ 1 >= 1 /\ n - 1 <= Len(w) /\ 1 <= (n - 1) + 1
      BY <1>1, <2>1
    <3> QED BY ONLY <3>1, PartIs, Zenon
  <2>3. Len(x) = n - 1 /\ \A i \in 1 .. n - 1 : x[i] = w[i]
    BY <1>1, <2>2
  <2>4. w[n] \in Nat
    BY <1>1, <2>1, ElementOfSeq
  <2>5. /\ Append(x, w[n]) \in Words /\ Len(Append(x, w[n])) = Len(x) + 1
        /\ Append(x, w[n])[Len(x) + 1] = w[n] /\ \A i \in 1 .. Len(x) : Append(x, w[n])[i] = x[i]
    BY <2>2, <2>4, OneArrowMore
  <2> HIDE DEF x
  <2>6. Len(Append(x, w[n])) = n /\ \A i \in 1 .. n : Append(x, w[n])[i] = w[i]
    <3>1. Len(x) + 1 = n
      BY <1>1, <2>3
    <3>2. ASSUME NEW i \in 1 .. n PROVE Append(x, w[n])[i] = w[i]
      <4>1. i = n \/ i \in 1 .. n - 1
        BY <1>1
      <4> QED BY <2>3, <2>5, <3>1, <4>1
    <3> QED BY <2>5, <3>1, <3>2
  <2>7. y = Append(x, w[n])
    <3>1. y \in Words /\ Len(y) = n /\ \A i \in 1 .. n : y[i] = w[i]
      BY <1>2, <1>4
    <3> HIDE DEF y
    <3> QED BY <2>5, <2>6, <3>1, WordEqual
  <2> QED BY <1>1, <2>1, <2>7 DEF x
<1> QED BY <1>1, <1>2, <1>4, <1>5, <1>6

\* The states along a forbidden word.
LEMMA AtIs ==
  ASSUME NEW cert, NEW pr, NEW F, IsFor(cert, pr, F), NEW w \in F, NEW n \in 0 .. Len(w) - 1
  PROVE  /\ At(pr, w, n) \in States(pr, F)
         /\ At(pr, w, n).word = SubSeq(w, 1, n) /\ At(pr, w, n).vertex = pr.arrows[w[n + 1]][1]
         /\ w[n + 1] \in DOMAIN pr.arrows /\ w \in Words /\ n \in 0 .. Len(w)
<1>1. /\ w \in Words /\ Len(w) \in Nat /\ n \in Nat /\ n + 1 \in 1 .. Len(w) /\ n \in 0 .. Len(w)
      /\ Len(w) >= 2 /\ DOMAIN w = 1 .. Len(w)
  BY DEF IsFor, Words
<1>2. /\ \A i \in 1 .. Len(w) : w[i] \in DOMAIN pr.arrows
      /\ \A i \in 1 .. Len(w) - 1 : pr.arrows[w[i]][2] = pr.arrows[w[i + 1]][1]
  BY <1>1 DEF IsFor, IsPath
<1>3. CASE n = 0
  <2>1. At(pr, w, n) = StartState(pr.arrows[w[1]][1])
    BY <1>3 DEF At
  <2>2. pr.arrows[w[1]][1] \in 1 .. pr.vertices
    BY <1>1, <1>2, <1>3, ArrowIs
  <2>3. SubSeq(w, 1, n) = <<>>
    BY <1>1, <1>3, StartOfWord DEF EmptyWord
  <2>4. At(pr, w, n) \in States(pr, F)
    BY <2>1, <2>2, StatesAre
  <2>5. At(pr, w, n).word = <<>> /\ At(pr, w, n).vertex = pr.arrows[w[1]][1] /\ n + 1 = 1
    BY <1>3, <2>1 DEF StartState
  <2> QED BY <1>1, <1>2, <2>3, <2>4, <2>5
<1>4. CASE n # 0
  <2> DEFINE x == SubSeq(w, 1, n)
  <2>1. At(pr, w, n) = [vertex |-> pr.arrows[w[n]][2], word |-> x]
    BY <1>4 DEF At
  <2>2. n \in 1 .. Len(w) - 1 /\ n \in 1 .. n
    BY <1>1, <1>4
  <2>3. x \in BeginningsOf(F)
    BY <2>2 DEF BeginningsOf
  <2>4. Len(x) = n /\ x[n] = w[n]
    BY <1>1, <2>2, StartOfWord
  <2>5. At(pr, w, n) \in States(pr, F)
    <3> HIDE DEF x
    <3> QED BY <2>1, <2>3, <2>4, StatesAre
  <2>6. pr.arrows[w[n]][2] = pr.arrows[w[n + 1]][1]
    BY <1>2, <2>2
  <2> QED BY <1>1, <1>2, <2>1, <2>5, <2>6
<1> QED BY <1>3, <1>4

\* Before its last arrow no forbidden word ends in one.
LEMMA NoneInside ==
  ASSUME NEW cert, NEW pr, NEW F, IsFor(cert, pr, F), NEW w \in F, NEW n \in 1 .. Len(w) - 1,
         NEW u \in F
  PROVE  ~IsSuffix(u, SubSeq(w, 1, n))
<1> DEFINE t == SubSeq(w, 1, n)
<1>1. /\ w \in Words /\ Len(w) \in Nat /\ n \in Nat /\ n >= 1 /\ n <= Len(w) - 1 /\ n \in 0 .. Len(w)
      /\ u \in Words /\ Len(u) >= 1 /\ Len(u) \in Nat
  BY DEF IsFor, Words
<1>2. /\ t \in Words /\ Len(t) = n /\ \A i \in 1 .. n : t[i] = w[i]
  BY <1>1, StartOfWord
<1> HIDE DEF t
<1> SUFFICES ASSUME IsSuffix(u, t) PROVE FALSE
  BY DEF t
<1>3. PICK k \in DOMAIN t : SubSeq(t, k, Len(t)) = u
  BY <1>1, <1>2, SuffixIs
<1>4. k \in Nat /\ k >= 1 /\ k <= n
  BY <1>2 DEF Words
<1>5. Len(u) = n - k + 1 /\ \A i \in 1 .. n - k + 1 : u[i] = t[k + i - 1]
  <2>1. k <= Len(t) /\ k <= Len(t) + 1 /\ Len(t) \in Nat /\ Len(t) <= Len(t)
    BY <1>1, <1>2, <1>4
  <2>2. /\ Len(SubSeq(t, k, Len(t))) = Len(t) - k + 1
        /\ \A i \in 1 .. Len(t) - k + 1 : SubSeq(t, k, Len(t))[i] = t[k + i - 1]
    BY <1>2, <1>4, <2>1, PartIs
  <2> QED BY <1>2, <1>3, <2>2
<1> DEFINE v == SubSeq(w, k, n)
<1>6. v \in Words /\ Len(v) = n - k + 1 /\ \A i \in 1 .. n - k + 1 : v[i] = w[k + i - 1]
  BY <1>1, <1>4, PartIs
<1>7. \A i \in 1 .. n - k + 1 : k + i - 1 \in 1 .. n
  BY <1>1, <1>4
<1> HIDE DEF v
<1>8. v = u
  BY <1>1, <1>2, <1>5, <1>6, <1>7, WordEqual
<1>9. k - 1 \in 0 .. Len(w) - Len(u) /\ (k - 1) + 1 = k /\ (k - 1) + Len(u) = n
  BY <1>1, <1>4, <1>5
<1>10. k - 1 \in Occurrences(w, u)
  BY <1>8, <1>9 DEF Occurrences, v
<1>11. w = u
  BY <1>10 DEF IsFor, AreApart
<1> QED BY <1>1, <1>4, <1>5, <1>11

\* From one state along a forbidden word the arrow leads to the next one.
LEMMA AlongForbidden ==
  ASSUME NEW cert, NEW pr, NEW F, IsFor(cert, pr, F), NEW w \in F, NEW n \in 1 .. Len(w) - 1
  PROVE  Moves(cert, At(pr, w, n - 1), w[n], At(pr, w, n))
<1> DEFINE s == At(pr, w, n - 1)
           t == SubSeq(w, 1, n)
           a == w[n]
<1>0. w \in Words /\ Len(w) \in Nat /\ n - 1 \in 0 .. Len(w) - 1 /\ (n - 1) + 1 = n /\ n # 0
        /\ n \in 0 .. Len(w)
  BY DEF IsFor, Words
<1>1. s.word = SubSeq(w, 1, n - 1) /\ s.vertex = pr.arrows[a][1] /\ a \in DOMAIN pr.arrows
  BY <1>0, AtIs
<1>2. t \in Words /\ Len(t) = n /\ t = Append(s.word, a)
  BY <1>0, <1>1, StartOfWord
<1>3. \A u \in F : ~IsSuffix(u, Append(s.word, a))
  BY <1>2, NoneInside
<1>4. At(pr, w, n) = [vertex |-> pr.arrows[a][2], word |-> t]
  BY <1>0 DEF At
<1>5. t \in BeginningsOf(F)
  BY DEF BeginningsOf
<1> HIDE DEF s, t, a
<1>6. PICK f : f = FollowedTo(cert, t, a)
  OBVIOUS
<1>7. f = [vertex |-> pr.arrows[a][2], word |-> f.word] /\ IsLongest(F, t, f.word)
  BY <1>2, <1>6, FollowIs
<1>8. 1 \in DOMAIN t /\ Ending(t, 1) = t /\ DOMAIN t \subseteq Nat
  <2>1. n >= 1 /\ n \in Nat
    OBVIOUS
  <2>2. DOMAIN t = 1 .. n
    BY <1>2 DEF Words
  <2>3. SubSeq(t, 1, n) = t
    <3>1. n \in 0 .. Len(t)
      BY <1>2, <2>1
    <3>2. SubSeq(t, 1, n) \in Words /\ Len(SubSeq(t, 1, n)) = n /\ \A i \in 1 .. n : SubSeq(t, 1, n)[i] = t[i]
      BY <1>2, <3>1, StartOfWord
    <3> QED BY <1>2, <3>2, WordEqual
  <2> QED BY <1>2, <2>1, <2>2, <2>3 DEF Ending
<1>9. f.word = t
  <2>1. \E k \in DOMAIN t : f.word = Ending(t, k)
          /\ \A j \in DOMAIN t : Ending(t, j) \in BeginningsOf(F) => k <= j
    BY <1>5, <1>7, <1>8 DEF IsLongest
  <2>2. PICK k \in DOMAIN t : f.word = Ending(t, k)
               /\ \A j \in DOMAIN t : Ending(t, j) \in BeginningsOf(F) => k <= j
    BY <2>1
  <2>3. k <= 1 /\ k \in Nat /\ k >= 1
    <3>1. DOMAIN t = 1 .. n
      BY <1>2 DEF Words
    <3> QED BY <1>5, <1>8, <2>2, <3>1
  <2>4. k = 1
    BY <2>3
  <2> QED BY <1>8, <2>2, <2>4
<1>10. f = At(pr, w, n)
  BY <1>4, <1>7, <1>9
<1>11. a \in ArrowsFrom(pr, s.vertex)
  BY <1>1 DEF ArrowsFrom
<1>12. Moves(cert, s, a, f)
  BY <1>2, <1>3, <1>6, <1>11, MoveIs
<1> QED BY <1>10, <1>12 DEF s, a

\* What contains the starts and every state a move leads to contains every state.
LEMMA AllStatesMet ==
  ASSUME NEW cert, NEW pr, NEW F, IsFor(cert, pr, F), NEW X, Starts(cert) \subseteq X,
         \A s \in X \cap States(pr, F) : Successors(cert, s) \subseteq X
  PROVE  States(pr, F) \subseteq X
<1> SUFFICES ASSUME NEW s \in States(pr, F) PROVE s \in X
  OBVIOUS
<1>1. CASE s \in Starts(cert)
  BY <1>1
<1>2. CASE \E w \in F : \E n \in 1 .. Len(w) - 1 : s = At(pr, w, n)
  <2>1. PICK w \in F : \E n \in 1 .. Len(w) - 1 : s = At(pr, w, n)
    BY <1>2
  <2>2. PICK n \in 1 .. Len(w) - 1 : s = At(pr, w, n)
    BY <2>1
  <2>3. w \in Words /\ Len(w) \in Nat /\ Len(w) >= 2
    BY DEF IsFor, Words
  <2> DEFINE m == Len(w) - 1
             P == {i \in 0 .. m : At(pr, w, i) \in X}
  <2>4. m \in Nat /\ 0 \in 0 .. m
    BY <2>3
  <2>5. 0 \in P
    <3>1. At(pr, w, 0) = StartState(pr.arrows[w[1]][1])
      BY DEF At
    <3>2. w[0 + 1] \in DOMAIN pr.arrows
      BY <2>4, AtIs
    <3>3. At(pr, w, 0) \in Starts(cert)
      BY <3>1, <3>2, StatesAre, ArrowIs
    <3> QED BY <2>4, <3>3
  <2>6. ASSUME NEW i \in 1 .. m, i - 1 \in P PROVE i \in P
    <3>1. i \in 0 .. m /\ i - 1 \in 0 .. m
      BY <2>4
    <3>2. At(pr, w, i - 1) \in X \cap States(pr, F)
      BY <2>6, <3>1, AtIs
    <3>3. Moves(cert, At(pr, w, i - 1), w[i], At(pr, w, i))
      BY AlongForbidden
    <3>4. At(pr, w, i) \in Successors(cert, At(pr, w, i - 1))
      BY <3>3, SuccessorIs
    <3> QED BY <3>1, <3>2, <3>4
  <2>7. 0 .. m \subseteq P
    <3> HIDE DEF m, P
    <3> QED BY <2>4, <2>5, <2>6, IntervalInduction
  <2>8. n \in 0 .. m
    BY <2>2, <2>3
  <2> QED BY <2>2, <2>7, <2>8
<1> QED BY <1>1, <1>2, StateIs

-----------------------------------------------------------------------------
(* What the automaton reaches and what is on a cycle.                      *)

SuccOf(cert, S) == [s \in S |-> Successors(cert, s)]

\* the steps of the recursions of the model, for the verifier and for the engine
NextFor(cert, X) == UNION {Successors(cert, s) : s \in X}

OnwardFor(cert, X) == {s \in X : Successors(cert, s) \cap X # {}}

NextIn(pr, F, X) == UNION {UNION {After(pr, F, s, a) : a \in ArrowsFrom(pr, s.vertex)} : s \in X}

OnwardIn(pr, F, X) == {s \in X : \E a \in ArrowsFrom(pr, s.vertex) : After(pr, F, s, a) \cap X # {}}

\* the recursions, each as the functions it chooses from
IsMet(cert, n, f) ==
  f = [i \in 0 .. n |-> IF i = 0 THEN Starts(cert) ELSE f[i - 1] \cup NextFor(cert, f[i - 1])]

IsLeft(cert, n, f) ==
  f = [i \in 0 .. n |-> IF i = 0 THEN ReachableStates(cert) ELSE OnwardFor(cert, f[i - 1])]

IsLayers(pr, F, n, f) ==
  f = [i \in 0 .. n |-> IF i = 0 THEN {StartState(v) : v \in 1 .. pr.vertices} ELSE NextIn(pr, F, f[i - 1])]

IsLive(pr, F, reachable, n, f) ==
  f = [i \in 0 .. n |-> IF i = 0 THEN reachable ELSE OnwardIn(pr, F, f[i - 1])]

\* The states are a finite graph.
LEMMA StatesAreGraph ==
  ASSUME NEW cert, NEW pr, NEW F, IsFor(cert, pr, F)
  PROVE  /\ IsGraph(States(pr, F), SuccOf(cert, States(pr, F)))
         /\ IsFiniteSet(States(pr, F)) /\ Cardinality(States(pr, F)) \in Nat
<1> DEFINE S == States(pr, F)
           A == {StartState(v) : v \in 1 .. pr.vertices}
           B == {[vertex |-> pr.arrows[w[Len(w)]][2], word |-> w] : w \in ProperPrefixes(F)}
<1>1. IsFiniteSet(A)
  <2> DEFINE f == [v \in 1 .. pr.vertices |-> StartState(v)]
  <2>1. IsFiniteSet(1 .. pr.vertices)
    <3>1. pr.vertices \in Nat
      BY DEF IsFor
    <3> QED BY ONLY <3>1, FS_Interval
  <2>2. A = {f[v] : v \in 1 .. pr.vertices} /\ DOMAIN f = 1 .. pr.vertices
    OBVIOUS
  <2> HIDE DEF f
  <2> QED BY <2>1, <2>2, ImageIsFinite
<1>2. IsFiniteSet(ProperPrefixes(F))
  <2> DEFINE f == [w \in F |-> {SubSeq(w, 1, k) : k \in 1 .. Len(w) - 1}]
  <2>1. IsFiniteSet({f[w] : w \in F})
    <3>1. IsFiniteSet(F) /\ DOMAIN f = F
      BY DEF IsFor
    <3> HIDE DEF f
    <3> QED BY <3>1, ImageIsFinite
  <2>2. ASSUME NEW w \in F PROVE IsFiniteSet(f[w])
    <3> DEFINE g == [k \in 1 .. Len(w) - 1 |-> SubSeq(w, 1, k)]
    <3>1. Len(w) - 1 \in Int
      BY DEF IsFor, Words
    <3>2. IsFiniteSet(1 .. Len(w) - 1)
      BY <3>1, FS_Interval
    <3>3. f[w] = {g[k] : k \in 1 .. Len(w) - 1} /\ DOMAIN g = 1 .. Len(w) - 1
      OBVIOUS
    <3> HIDE DEF f, g
    <3> QED BY <3>2, <3>3, ImageIsFinite
  <2>3. ProperPrefixes(F) = UNION {f[w] : w \in F}
    BY DEF ProperPrefixes
  <2> HIDE DEF f
  <2> QED BY <2>1, <2>2, <2>3, FS_UNION
<1>3. IsFiniteSet(B)
  <2> DEFINE f == [w \in ProperPrefixes(F) |-> [vertex |-> pr.arrows[w[Len(w)]][2], word |-> w]]
  <2>1. B = {f[w] : w \in ProperPrefixes(F)} /\ DOMAIN f = ProperPrefixes(F)
    OBVIOUS
  <2> HIDE DEF f
  <2> QED BY <1>2, <2>1, ImageIsFinite
<1>4. IsFiniteSet(S)
  <2>1. S = A \cup B
    BY DEF States
  <2> HIDE DEF A, B
  <2> QED BY <1>1, <1>3, <2>1, FS_Union
<1>5. ASSUME NEW s \in S PROVE Successors(cert, s) \subseteq S
  BY SuccessorIs, MoveGives
<1>6. SuccOf(cert, S) \in [S -> SUBSET S]
  BY <1>5 DEF SuccOf
<1> QED BY <1>4, <1>6, FS_CardinalityType DEF IsGraph

\* The steps are those of the graph.
LEMMA StepsAre ==
  ASSUME NEW cert, NEW pr, NEW F, IsFor(cert, pr, F), NEW S, S = States(pr, F), NEW X \in SUBSET S
  PROVE  /\ NextTo(SuccOf(cert, S), X) = NextFor(cert, X)
         /\ NextTo(SuccOf(cert, S), X) = NextIn(pr, F, X)
         /\ Onward(SuccOf(cert, S), X) = OnwardFor(cert, X)
         /\ Onward(SuccOf(cert, S), X) = OnwardIn(pr, F, X)
         /\ NextTo(SuccOf(cert, S), X) \in SUBSET S /\ Onward(SuccOf(cert, S), X) \in SUBSET S
<1>1. \A s \in S : SuccOf(cert, S)[s] = Successors(cert, s) /\ Successors(cert, s) \subseteq S
  BY StatesAreGraph DEF IsGraph, SuccOf
<1>2. ASSUME NEW s \in S
      PROVE  Successors(cert, s) = UNION {After(pr, F, s, a) : a \in ArrowsFrom(pr, s.vertex)}
  <2>1. ASSUME NEW t \in Successors(cert, s)
        PROVE  t \in UNION {After(pr, F, s, a) : a \in ArrowsFrom(pr, s.vertex)}
    BY SuccessorIs, MovesAgree
  <2>2. ASSUME NEW a \in ArrowsFrom(pr, s.vertex), NEW t \in After(pr, F, s, a)
        PROVE  t \in Successors(cert, s)
    BY SuccessorIs, MovesAgree
  <2> QED BY <2>1, <2>2
<1>3. NextTo(SuccOf(cert, S), X) = NextFor(cert, X)
  BY <1>1 DEF NextTo, NextFor
<1>4. NextIn(pr, F, X) = NextFor(cert, X)
  BY <1>2 DEF NextIn, NextFor
<1>5. OnwardFor(cert, X) = Onward(SuccOf(cert, S), X)
  BY <1>1 DEF Onward, OnwardFor
<1>6. ASSUME NEW s \in X
      PROVE  Successors(cert, s) \cap X # {}
               <=> \E a \in ArrowsFrom(pr, s.vertex) : After(pr, F, s, a) \cap X # {}
  BY <1>2
<1>7. OnwardIn(pr, F, X) = OnwardFor(cert, X)
  BY <1>6 DEF OnwardIn, OnwardFor
<1>8. NextTo(SuccOf(cert, S), X) \in SUBSET S /\ Onward(SuccOf(cert, S), X) \in SUBSET S
  BY <1>1 DEF NextTo, Onward
<1> QED BY <1>3, <1>4, <1>5, <1>7, <1>8

\* Every state is reachable, for the verifier.
LEMMA AllReachable ==
  ASSUME NEW cert, NEW pr, NEW F, IsFor(cert, pr, F)
  PROVE  ReachableStates(cert) = States(pr, F)
<1> DEFINE Sd == States(pr, F)
<1>0. PICK S : S = Sd
  OBVIOUS
<1> HIDE DEF Sd
<1> DEFINE V == SUBSET S
           step == [X \in V |-> GrownBy(SuccOf(cert, S), X)]
           n == Cardinality(S)
<1>1. /\ S = States(pr, F) /\ IsGraph(S, SuccOf(cert, S)) /\ n \in Nat /\ IsFiniteSet(S)
      /\ S = AutomatonStates(cert)
  BY <1>0, StatesAreGraph, StatesAre DEF Sd
<1>2. Starts(cert) \in V
  BY <1>1, StatesAre
<1>3. \A X \in V : GrownBy(SuccOf(cert, S), X) = X \cup NextFor(cert, X) /\ GrownBy(SuccOf(cert, S), X) \in V
  <2> SUFFICES ASSUME NEW X \in SUBSET S
        PROVE GrownBy(SuccOf(cert, S), X) = X \cup NextFor(cert, X) /\ GrownBy(SuccOf(cert, S), X) \in SUBSET S
    OBVIOUS
  <2>1. IsFor(cert, pr, F) /\ S = States(pr, F)
    BY <1>1
  <2>2. NextTo(SuccOf(cert, S), X) = NextFor(cert, X) /\ NextTo(SuccOf(cert, S), X) \in SUBSET S
    BY ONLY <2>1, StepsAre
  <2>3. Onward(SuccOf(cert, S), X) = OnwardFor(cert, X) /\ Onward(SuccOf(cert, S), X) \in SUBSET S
    BY ONLY <2>1, StepsAre
  <2> QED BY <2>2, <2>3 DEF GrownBy
<1>4. step \in [V -> V] /\ \A X \in V : step[X] = GrownBy(SuccOf(cert, S), X)
  BY <1>3
<1> HIDE DEF step, n, V
<1>5. \E f : IsMet(cert, n, f)
  <2>1. n \in Nat /\ Starts(cert) \in V /\ step \in [V -> V]
    BY <1>1, <1>2, <1>4
  <2>2. PICK g \in [0 .. n -> V] : IsIterated(g, n, Starts(cert), step)
    BY ONLY <2>1, IteratesExist
  <2>3. \A i \in 0 .. n : i # 0 => g[i - 1] \in V
    BY <2>1
  <2>4. \A i \in 0 .. n : i # 0 => step[g[i - 1]] = g[i - 1] \cup NextFor(cert, g[i - 1])
    BY <1>3, <1>4, <2>3
  <2>5. g = [i \in 0 .. n |-> IF i = 0 THEN Starts(cert) ELSE step[g[i - 1]]]
    BY <2>2 DEF IsIterated
  <2>6. g = [i \in 0 .. n |-> IF i = 0 THEN Starts(cert) ELSE g[i - 1] \cup NextFor(cert, g[i - 1])]
    BY <2>4, <2>5
  <2>7. IsMet(cert, n, g)
    BY <1>1, <2>6 DEF IsMet
  <2> QED BY <2>7
<1>6. PICK h : h = CHOOSE f : IsMet(cert, n, f)
  OBVIOUS
<1>7. IsMet(cert, n, h)
  BY <1>5, <1>6
<1>8. ReachableStates(cert) = h[n]
  BY <1>1, <1>6 DEF ReachableStates, IsMet, NextFor, n
<1>9. Iterates(h, n, V, Starts(cert), step)
  <2>1. h = [i \in 0 .. n |-> h[i]]
    BY <1>7 DEF IsMet
  <2>2. h[0] = Starts(cert)
    BY <1>1, <1>7 DEF IsMet
  <2>3. ASSUME NEW i \in 1 .. n, h[i - 1] \in V PROVE h[i] = step[h[i - 1]]
    <3>1. i \in 0 .. n /\ i # 0
      BY <1>1
    <3>2. h[i] = h[i - 1] \cup NextFor(cert, h[i - 1])
      BY <1>7, <3>1 DEF IsMet
    <3> QED BY <1>3, <1>4, <2>3, <3>2
  <2> QED BY <2>1, <2>2, <2>3 DEF Iterates
<1>10. h \in [0 .. n -> V] /\ \A i \in 1 .. n : h[i] = step[h[i - 1]]
  BY <1>1, <1>2, <1>4, <1>9, IteratesIs
<1>11. \A i \in 1 .. n : h[i] = GrownBy(SuccOf(cert, S), h[i - 1])
  <2> SUFFICES ASSUME NEW i \in 1 .. n PROVE h[i] = GrownBy(SuccOf(cert, S), h[i - 1])
    OBVIOUS
  <2>1. i - 1 \in 0 .. n
    BY <1>1
  <2> QED BY <1>4, <1>10, <2>1
<1>12. h[0] = Starts(cert) /\ 0 \in 0 .. n /\ n \in 0 .. n
  BY <1>1, <1>9 DEF Iterates
<1>13. h[0] \subseteq h[n] /\ IsClosed(SuccOf(cert, S), h[n])
  <2>1. n + Cardinality(h[0]) >= Cardinality(S)
    <3>1. Cardinality(h[0]) \in Nat
      BY <1>1, <1>2, <1>12, FS_Subset, FS_CardinalityType DEF V
    <3> QED BY <1>1, <3>1 DEF n
  <2>2. h \in [0 .. n -> SUBSET S]
    BY <1>10 DEF V
  <2> QED BY <1>1, <1>11, <2>1, <2>2, GrowthSettles
<1>14. h[n] \in V
  BY <1>10, <1>12
<1>15. S \subseteq h[n]
  <2>1. \A s \in h[n] \cap States(pr, F) : Successors(cert, s) \subseteq h[n]
    BY <1>1, <1>13 DEF IsClosed, NextTo, SuccOf
  <2>2. Starts(cert) \subseteq h[n]
    BY <1>12, <1>13
  <2> QED BY <1>1, <2>1, <2>2, AllStatesMet
<1> QED BY <1>1, <1>8, <1>14, <1>15 DEF V

\* The verifier finds a cycle when something is left of the states.
LEMMA LeftIsCore ==
  ASSUME NEW cert, NEW pr, NEW F, IsFor(cert, pr, F)
  PROVE  \E C : IsCore(SuccOf(cert, States(pr, F)), States(pr, F), C) /\ (HasCycle(cert) <=> C # {})
<1> DEFINE Sd == States(pr, F)
<1>0. PICK S : S = Sd
  OBVIOUS
<1> HIDE DEF Sd
<1> DEFINE V == SUBSET S
           step == [X \in V |-> Onward(SuccOf(cert, S), X)]
           n == Cardinality(S)
<1>1. /\ S = States(pr, F) /\ IsGraph(S, SuccOf(cert, S)) /\ n \in Nat /\ IsFiniteSet(S)
      /\ S = AutomatonStates(cert) /\ S = ReachableStates(cert)
  BY <1>0, StatesAreGraph, StatesAre, AllReachable DEF Sd
<1>2. S \in V
  OBVIOUS
<1>3. \A X \in V : Onward(SuccOf(cert, S), X) = OnwardFor(cert, X) /\ Onward(SuccOf(cert, S), X) \in V
  <2> SUFFICES ASSUME NEW X \in SUBSET S
        PROVE Onward(SuccOf(cert, S), X) = OnwardFor(cert, X) /\ Onward(SuccOf(cert, S), X) \in SUBSET S
    OBVIOUS
  <2>1. IsFor(cert, pr, F) /\ S = States(pr, F)
    BY <1>1
  <2>2. NextTo(SuccOf(cert, S), X) = NextFor(cert, X) /\ NextTo(SuccOf(cert, S), X) \in SUBSET S
    BY ONLY <2>1, StepsAre
  <2>3. Onward(SuccOf(cert, S), X) = OnwardFor(cert, X) /\ Onward(SuccOf(cert, S), X) \in SUBSET S
    BY ONLY <2>1, StepsAre
  <2> QED BY <2>2, <2>3
<1>4. step \in [V -> V] /\ \A X \in V : step[X] = Onward(SuccOf(cert, S), X)
  BY <1>3
<1> HIDE DEF step, n, V
<1>5. \E f : IsLeft(cert, n, f)
  <2>1. n \in Nat /\ S \in V /\ step \in [V -> V]
    BY <1>1, <1>2, <1>4
  <2>2. PICK g \in [0 .. n -> V] : IsIterated(g, n, S, step)
    BY ONLY <2>1, IteratesExist
  <2>3. \A i \in 0 .. n : i # 0 => g[i - 1] \in V
    BY <2>1
  <2>4. \A i \in 0 .. n : i # 0 => step[g[i - 1]] = OnwardFor(cert, g[i - 1])
    BY <1>3, <1>4, <2>3
  <2>5. g = [i \in 0 .. n |-> IF i = 0 THEN S ELSE step[g[i - 1]]]
    BY <2>2 DEF IsIterated
  <2>6. g = [i \in 0 .. n |-> IF i = 0 THEN S ELSE OnwardFor(cert, g[i - 1])]
    BY <2>4, <2>5
  <2>7. IsLeft(cert, n, g)
    BY <1>1, <2>6 DEF IsLeft
  <2> QED BY <2>7
<1>6. PICK h : h = CHOOSE f : IsLeft(cert, n, f)
  OBVIOUS
<1>7. IsLeft(cert, n, h)
  BY <1>5, <1>6
<1>8. HasCycle(cert) <=> h[n] # {}
  BY <1>1, <1>6 DEF HasCycle, IsLeft, OnwardFor, n
<1>9. Iterates(h, n, V, S, step)
  <2>1. h = [i \in 0 .. n |-> h[i]]
    BY <1>7 DEF IsLeft
  <2>2. h[0] = S
    BY <1>1, <1>7 DEF IsLeft
  <2>3. ASSUME NEW i \in 1 .. n, h[i - 1] \in V PROVE h[i] = step[h[i - 1]]
    <3>1. i \in 0 .. n /\ i # 0
      BY <1>1
    <3>2. h[i] = OnwardFor(cert, h[i - 1])
      BY <1>7, <3>1 DEF IsLeft
    <3> QED BY <1>3, <1>4, <2>3, <3>2
  <2> QED BY <2>1, <2>2, <2>3 DEF Iterates
<1>10. h \in [0 .. n -> V] /\ \A i \in 1 .. n : h[i] = step[h[i - 1]]
  BY <1>1, <1>2, <1>4, <1>9, IteratesIs
<1>11. \A i \in 1 .. n : h[i] = Onward(SuccOf(cert, S), h[i - 1])
  <2> SUFFICES ASSUME NEW i \in 1 .. n PROVE h[i] = Onward(SuccOf(cert, S), h[i - 1])
    OBVIOUS
  <2>1. i - 1 \in 0 .. n
    BY <1>1
  <2> QED BY <1>4, <1>10, <2>1
<1>12. h[0] = S /\ 0 \in 0 .. n /\ n \in 0 .. n
  BY <1>1, <1>9 DEF Iterates
<1>13. IsCore(SuccOf(cert, S), h[0], h[n])
  <2>1. n >= Cardinality(h[0])
    BY <1>1, <1>12 DEF n
  <2>2. h \in [0 .. n -> SUBSET S]
    BY <1>10 DEF V
  <2> QED BY <1>1, <1>11, <2>1, <2>2, PeelingSettles
<1> QED BY <1>1, <1>8, <1>12, <1>13

\* l are the states that 0, 1, ... N arrows lead to
AreLayers(cert, S, N, l) ==
  /\ l \in [0 .. N -> SUBSET S] /\ l[0] = Starts(cert)
  /\ \A i \in 1 .. N : l[i] = NextTo(SuccOf(cert, S), l[i - 1])

\* The states that n arrows lead to.
LEMMA ReachedIs ==
  ASSUME NEW cert, NEW pr, NEW F, IsFor(cert, pr, F), NEW S, S = States(pr, F), NEW n \in Nat
  PROVE  \E h : AreLayers(cert, S, n, h) /\ Reached(pr, F, n) = h[n]
<1> DEFINE V == SUBSET S
           step == [X \in V |-> NextTo(SuccOf(cert, S), X)]
<1>1. S = States(pr, F) /\ n \in Nat /\ Starts(cert) = {StartState(v) : v \in 1 .. pr.vertices}
  BY StatesAre
<1>2. Starts(cert) \in V
  BY StatesAre
<1>3. \A X \in V : NextTo(SuccOf(cert, S), X) = NextIn(pr, F, X) /\ NextTo(SuccOf(cert, S), X) \in V
  <2> SUFFICES ASSUME NEW X \in SUBSET S
        PROVE NextTo(SuccOf(cert, S), X) = NextIn(pr, F, X) /\ NextTo(SuccOf(cert, S), X) \in SUBSET S
    OBVIOUS
  <2>1. IsFor(cert, pr, F) /\ S = States(pr, F)
    BY <1>1
  <2> QED BY ONLY <2>1, StepsAre
<1>4. step \in [V -> V] /\ \A X \in V : step[X] = NextTo(SuccOf(cert, S), X)
  BY <1>3
<1> HIDE DEF step, V
<1>5. \E f : IsLayers(pr, F, n, f)
  <2>1. n \in Nat /\ Starts(cert) \in V /\ step \in [V -> V]
    BY <1>1, <1>2, <1>4
  <2>2. PICK g \in [0 .. n -> V] : IsIterated(g, n, Starts(cert), step)
    BY ONLY <2>1, IteratesExist
  <2>3. \A i \in 0 .. n : i # 0 => g[i - 1] \in V
    BY <2>1
  <2>4. \A i \in 0 .. n : i # 0 => step[g[i - 1]] = NextIn(pr, F, g[i - 1])
    BY <1>3, <1>4, <2>3
  <2>5. g = [i \in 0 .. n |-> IF i = 0 THEN Starts(cert) ELSE step[g[i - 1]]]
    BY <2>2 DEF IsIterated
  <2>6. g = [i \in 0 .. n |-> IF i = 0 THEN Starts(cert) ELSE NextIn(pr, F, g[i - 1])]
    BY <2>4, <2>5
  <2>7. IsLayers(pr, F, n, g)
    BY <1>1, <2>6 DEF IsLayers
  <2> QED BY <2>7
<1>6. PICK h : h = CHOOSE f : IsLayers(pr, F, n, f)
  OBVIOUS
<1>7. IsLayers(pr, F, n, h)
  BY <1>5, <1>6
<1>8. Reached(pr, F, n) = h[n]
  BY <1>6 DEF Reached, IsLayers, NextIn
<1>9. Iterates(h, n, V, Starts(cert), step)
  <2>1. h = [i \in 0 .. n |-> h[i]]
    BY <1>7 DEF IsLayers
  <2>2. h[0] = Starts(cert)
    BY <1>1, <1>7 DEF IsLayers
  <2>3. ASSUME NEW i \in 1 .. n, h[i - 1] \in V PROVE h[i] = step[h[i - 1]]
    <3>1. i \in 0 .. n /\ i # 0
      BY <1>1
    <3>2. h[i] = NextIn(pr, F, h[i - 1])
      BY <1>7, <3>1 DEF IsLayers
    <3> QED BY <1>3, <1>4, <2>3, <3>2
  <2> QED BY <2>1, <2>2, <2>3 DEF Iterates
<1>10. h \in [0 .. n -> V] /\ \A i \in 1 .. n : h[i] = step[h[i - 1]]
  BY <1>1, <1>2, <1>4, <1>9, IteratesIs
<1>11. \A i \in 1 .. n : h[i] = NextTo(SuccOf(cert, S), h[i - 1])
  <2> SUFFICES ASSUME NEW i \in 1 .. n PROVE h[i] = NextTo(SuccOf(cert, S), h[i - 1])
    OBVIOUS
  <2>1. i - 1 \in 0 .. n
    BY <1>1
  <2> QED BY <1>4, <1>10, <2>1
<1>12. h[0] = Starts(cert) /\ 0 \in 0 .. n /\ n \in 0 .. n
  BY <1>1, <1>9 DEF Iterates
<1>13. AreLayers(cert, S, n, h)
  BY <1>10, <1>11, <1>12 DEF AreLayers, V
<1> QED BY <1>8, <1>13

\* Shorter layers begin longer ones.
LEMMA LayersAgree ==
  ASSUME NEW cert, NEW S, NEW N \in Nat, NEW l, AreLayers(cert, S, N, l), NEW n \in 0 .. N,
         NEW h, AreLayers(cert, S, n, h)
  PROVE  h[n] = l[n]
<1> DEFINE P == {i \in 0 .. n : h[i] = l[i]}
<1>1. 0 \in P
  BY DEF AreLayers
<1>2. ASSUME NEW i \in 1 .. n, i - 1 \in P PROVE i \in P
  <2>1. i \in 1 .. N
    OBVIOUS
  <2> QED BY <1>2, <2>1 DEF AreLayers
<1>3. 0 .. n \subseteq P
  <2> HIDE DEF P
  <2> QED BY <1>1, <1>2, IntervalInduction
<1> QED BY <1>3

\* What any number of arrows leads to, and one more.
LEMMA ReachedGrows ==
  ASSUME NEW cert, NEW pr, NEW F, IsFor(cert, pr, F), NEW S, S = States(pr, F), NEW n \in Nat
  PROVE  /\ Reached(pr, F, n) \in SUBSET S
         /\ Reached(pr, F, 0) = Starts(cert)
         /\ Reached(pr, F, n + 1) = NextTo(SuccOf(cert, S), Reached(pr, F, n))
<1>1. PICK g : AreLayers(cert, S, n, g) /\ Reached(pr, F, n) = g[n]
  BY ReachedIs
<1>2. PICK h : AreLayers(cert, S, n + 1, h) /\ Reached(pr, F, n + 1) = h[n + 1]
  BY ReachedIs
<1>3. PICK z : AreLayers(cert, S, 0, z) /\ Reached(pr, F, 0) = z[0]
  BY ReachedIs
<1>4. g[n] = h[n]
  <2>1. n \in 0 .. n + 1 /\ n + 1 \in Nat
    OBVIOUS
  <2> QED BY <1>1, <1>2, <2>1, LayersAgree
<1>5. h[n + 1] = NextTo(SuccOf(cert, S), h[n])
  <2>1. n + 1 \in 1 .. n + 1 /\ (n + 1) - 1 = n
    OBVIOUS
  <2> QED BY <1>2, <2>1 DEF AreLayers
<1>6. g[n] \in SUBSET S
  <2>1. n \in 0 .. n
    OBVIOUS
  <2> QED BY <1>1, <2>1 DEF AreLayers
<1>7. z[0] = Starts(cert)
  BY <1>3 DEF AreLayers
<1> QED BY <1>1, <1>2, <1>3, <1>4, <1>5, <1>6, <1>7

ReachableIn(pr, F) == UNION {Reached(pr, F, n) : n \in 0 .. Cardinality(States(pr, F)) - 1}

\* Every state is reachable, for the engine.
LEMMA AllReachableIn ==
  ASSUME NEW cert, NEW pr, NEW F, IsFor(cert, pr, F)
  PROVE  ReachableIn(pr, F) = States(pr, F)
<1>0. PICK S : S = States(pr, F)
  OBVIOUS
<1>1. IsGraph(S, SuccOf(cert, S)) /\ IsFiniteSet(S) /\ Cardinality(S) \in Nat /\ Starts(cert) \subseteq S
  BY <1>0, StatesAreGraph, StatesAre
<1>2. ReachableIn(pr, F) \subseteq S
  BY <1>0, <1>1, ReachedGrows DEF ReachableIn
<1>3. CASE Cardinality(S) = 0
  <2>1. S = {}
    BY <1>1, <1>3, FS_EmptySet
  <2> QED BY <1>0, <1>2, <2>1
<1>4. CASE Cardinality(S) # 0
  <2> DEFINE N == Cardinality(S) - 1
  <2>1. N \in Nat
    BY <1>1, <1>4
  <2>2. PICK l : AreLayers(cert, S, N, l)
    BY <1>0, <2>1, ReachedIs
  <2> HIDE DEF N
  <2>3. \A n \in 0 .. N : Reached(pr, F, n) = l[n]
    <3> SUFFICES ASSUME NEW n \in 0 .. N PROVE Reached(pr, F, n) = l[n]
      OBVIOUS
    <3>1. n \in Nat
      BY <2>1
    <3>2. PICK h : AreLayers(cert, S, n, h) /\ Reached(pr, F, n) = h[n]
      BY <1>0, <3>1, ReachedIs
    <3> QED BY <2>1, <2>2, <3>2, LayersAgree
  <2> DEFINE U == UNION {l[i] : i \in 0 .. N}
  <2>4. Starts(cert) # {}
    <3> SUFFICES ASSUME Starts(cert) = {} PROVE FALSE
      OBVIOUS
    <3>1. States(pr, F) \subseteq {}
      BY AllStatesMet
    <3> QED BY <1>0, <1>1, <1>4, <3>1, FS_EmptySet
  <2>5. N + Cardinality(l[0]) >= Cardinality(S)
    <3>1. l[0] = Starts(cert)
      BY <2>2 DEF AreLayers
    <3>2. IsFiniteSet(l[0]) /\ Cardinality(l[0]) \in Nat /\ Cardinality(l[0]) # 0
      BY <1>1, <2>4, <3>1, FS_Subset, FS_CardinalityType, FS_EmptySet
    <3> QED BY <1>1, <3>2 DEF N
  <2>6. IsClosed(SuccOf(cert, S), U)
    BY <1>1, <2>1, <2>2, <2>5, LayersClosed DEF AreLayers
  <2>7. Starts(cert) \subseteq U
    <3>1. 0 \in 0 .. N
      BY <2>1
    <3> QED BY <2>2, <3>1 DEF AreLayers
  <2> HIDE DEF U
  <2>8. S \subseteq U
    <3>1. \A s \in U \cap States(pr, F) : Successors(cert, s) \subseteq U
      BY <1>0, <2>6 DEF IsClosed, NextTo, SuccOf
    <3> QED BY <1>0, <2>7, <3>1, AllStatesMet
  <2>9. U = ReachableIn(pr, F)
    <3>1. U = UNION {l[i] : i \in 0 .. N}
      BY DEF U
    <3>2. ReachableIn(pr, F) = UNION {Reached(pr, F, n) : n \in 0 .. N}
      BY <1>0 DEF ReachableIn, N
    <3> QED BY <2>3, <3>1, <3>2
  <2> QED BY <1>0, <1>2, <2>8, <2>9
<1> QED BY <1>3, <1>4

\* The states on or before a cycle, for the engine.
LEMMA LiveIsCore ==
  ASSUME NEW cert, NEW pr, NEW F, IsFor(cert, pr, F)
  PROVE  IsCore(SuccOf(cert, States(pr, F)), States(pr, F), LiveStates(pr, F))
<1> DEFINE Sd == States(pr, F)
<1>0. PICK S : S = Sd
  OBVIOUS
<1> HIDE DEF Sd
<1> DEFINE V == SUBSET S
           step == [X \in V |-> Onward(SuccOf(cert, S), X)]
           n == Cardinality(S)
<1>1. /\ S = States(pr, F) /\ IsGraph(S, SuccOf(cert, S)) /\ n \in Nat /\ IsFiniteSet(S)
      /\ S = ReachableIn(pr, F)
  BY <1>0, StatesAreGraph, AllReachableIn DEF Sd
<1>2. S \in V
  OBVIOUS
<1>3. \A X \in V : Onward(SuccOf(cert, S), X) = OnwardIn(pr, F, X) /\ Onward(SuccOf(cert, S), X) \in V
  <2> SUFFICES ASSUME NEW X \in SUBSET S
        PROVE Onward(SuccOf(cert, S), X) = OnwardIn(pr, F, X) /\ Onward(SuccOf(cert, S), X) \in SUBSET S
    OBVIOUS
  <2>1. IsFor(cert, pr, F) /\ S = States(pr, F)
    BY <1>1
  <2> QED BY ONLY <2>1, StepsAre
<1>4. step \in [V -> V] /\ \A X \in V : step[X] = Onward(SuccOf(cert, S), X)
  BY <1>3
<1> HIDE DEF step, V
<1> HIDE DEF n
<1>5. \E f : IsLive(pr, F, S, n, f)
  <2>1. n \in Nat /\ S \in V /\ step \in [V -> V]
    BY <1>1, <1>2, <1>4
  <2>2. PICK g \in [0 .. n -> V] : IsIterated(g, n, S, step)
    BY ONLY <2>1, IteratesExist
  <2>3. \A i \in 0 .. n : i # 0 => g[i - 1] \in V
    BY <2>1
  <2>4. \A i \in 0 .. n : i # 0 => step[g[i - 1]] = OnwardIn(pr, F, g[i - 1])
    BY <1>3, <1>4, <2>3
  <2>5. g = [i \in 0 .. n |-> IF i = 0 THEN S ELSE step[g[i - 1]]]
    BY <2>2 DEF IsIterated
  <2>6. g = [i \in 0 .. n |-> IF i = 0 THEN S ELSE OnwardIn(pr, F, g[i - 1])]
    BY <2>4, <2>5
  <2>7. IsLive(pr, F, S, n, g)
    BY <1>1, <2>6 DEF IsLive
  <2> QED BY <2>7
<1>6. PICK h : h = CHOOSE f : IsLive(pr, F, S, n, f)
  OBVIOUS
<1>7. IsLive(pr, F, S, n, h)
  BY <1>5, <1>6
<1>8. LiveStates(pr, F) = h[n]
  <2>1. LiveStates(pr, F) = (CHOOSE f : IsLive(pr, F, ReachableIn(pr, F), n, f))[n]
    BY <1>1 DEF LiveStates, IsLive, OnwardIn, ReachableIn, n
  <2> QED BY <1>1, <1>6, <2>1
<1>9. Iterates(h, n, V, S, step)
  <2>1. h = [i \in 0 .. n |-> h[i]]
    BY <1>7 DEF IsLive
  <2>2. h[0] = S
    BY <1>1, <1>7 DEF IsLive
  <2>3. ASSUME NEW i \in 1 .. n, h[i - 1] \in V PROVE h[i] = step[h[i - 1]]
    <3>1. i \in 0 .. n /\ i # 0
      BY <1>1
    <3>2. h[i] = OnwardIn(pr, F, h[i - 1])
      BY <1>7, <3>1 DEF IsLive
    <3> QED BY <1>3, <1>4, <2>3, <3>2
  <2> QED BY <2>1, <2>2, <2>3 DEF Iterates
<1>10. h \in [0 .. n -> V] /\ \A i \in 1 .. n : h[i] = step[h[i - 1]]
  BY <1>1, <1>2, <1>4, <1>9, IteratesIs
<1>11. \A i \in 1 .. n : h[i] = Onward(SuccOf(cert, S), h[i - 1])
  <2> SUFFICES ASSUME NEW i \in 1 .. n PROVE h[i] = Onward(SuccOf(cert, S), h[i - 1])
    OBVIOUS
  <2>1. i - 1 \in 0 .. n
    BY <1>1
  <2> QED BY <1>4, <1>10, <2>1
<1>12. h[0] = S /\ 0 \in 0 .. n /\ n \in 0 .. n
  BY <1>1, <1>9 DEF Iterates
<1>13. IsCore(SuccOf(cert, S), h[0], h[n])
  <2>1. n >= Cardinality(h[0])
    BY <1>1, <1>12 DEF n
  <2>2. h \in [0 .. n -> SUBSET S]
    BY <1>10 DEF V
  <2> QED BY <1>1, <1>11, <2>1, <2>2, PeelingSettles
<1> QED BY <1>1, <1>8, <1>12, <1>13

\* Engine and verifier decide alike whether there is a cycle.
LEMMA CycleDecided ==
  ASSUME NEW cert, NEW pr, NEW F, IsFor(cert, pr, F)
  PROVE  HasCycle(cert) <=> ~IsFiniteLanguage(pr, F)
<1>1. PICK C : IsCore(SuccOf(cert, States(pr, F)), States(pr, F), C) /\ (HasCycle(cert) <=> C # {})
  BY LeftIsCore
<1>2. C = LiveStates(pr, F)
  BY <1>1, LiveIsCore, CoreIsUnique
<1> QED BY <1>1, <1>2 DEF IsFiniteLanguage

-----------------------------------------------------------------------------
(* The order of the states.                                                *)

\* the arrows of a word count from 1, and there is nothing after the last one
LetterAt(a, k) == IF k \in DOMAIN a THEN a[k] + 1 ELSE 0

DiffersAt(a, b, k) == LetterAt(a, k) < LetterAt(b, k) /\ \A j \in 1 .. k - 1 : LetterAt(a, j) = LetterAt(b, j)

\* Words of any lengths are compared where they first differ.
LEMMA LexIs ==
  ASSUME NEW a \in Words, NEW b \in Words
  PROVE  /\ LexLess(a, b) <=> \E k \in Nat \ {0} : DiffersAt(a, b, k)
         /\ \A k \in Nat : LetterAt(a, k) \in Nat
<1>1. /\ Len(a) \in Nat /\ Len(b) \in Nat /\ DOMAIN a = 1 .. Len(a) /\ DOMAIN b = 1 .. Len(b)
      /\ \A k \in 1 .. Len(a) : a[k] \in Nat
      /\ \A k \in 1 .. Len(b) : b[k] \in Nat
  BY LenProperties, ElementOfSeq DEF Words
<1>2. \A k \in Nat : LetterAt(a, k) \in Nat
  BY <1>1 DEF LetterAt
<1>3. ASSUME Len(a) < Len(b), SubSeq(b, 1, Len(a)) = a
      PROVE  \E k \in Nat \ {0} : DiffersAt(a, b, k)
  <2> DEFINE k == Len(a) + 1
  <2>1. k \in Nat \ {0} /\ k \in DOMAIN b /\ k \notin DOMAIN a /\ Len(a) \in 0 .. Len(b)
    BY <1>1, <1>3
  <2>2. \A i \in 1 .. Len(a) : a[i] = b[i]
    BY <1>3, <2>1, StartOfWord
  <2>3. LetterAt(a, k) < LetterAt(b, k)
    BY <1>1, <2>1 DEF LetterAt
  <2>4. ASSUME NEW j \in 1 .. k - 1 PROVE LetterAt(a, j) = LetterAt(b, j)
    <3>1. j \in 1 .. Len(a) /\ j \in DOMAIN a /\ j \in DOMAIN b
      BY <1>1, <1>3
    <3> QED BY <2>2, <3>1 DEF LetterAt
  <2> HIDE DEF k
  <2> QED BY <2>1, <2>3, <2>4 DEF DiffersAt
<1>4. ASSUME NEW k \in DOMAIN a \cap DOMAIN b, a[k] < b[k], \A j \in 1 .. k - 1 : a[j] = b[j]
      PROVE  \E i \in Nat \ {0} : DiffersAt(a, b, i)
  <2>1. k \in Nat \ {0} /\ k <= Len(a) /\ k <= Len(b)
    BY <1>1
  <2>2. LetterAt(a, k) < LetterAt(b, k)
    BY <1>1, <1>4, <2>1 DEF LetterAt
  <2>3. ASSUME NEW j \in 1 .. k - 1 PROVE LetterAt(a, j) = LetterAt(b, j)
    <3>1. j \in DOMAIN a /\ j \in DOMAIN b
      BY <1>1, <2>1
    <3> QED BY <1>4, <3>1 DEF LetterAt
  <2> QED BY <2>1, <2>2, <2>3 DEF DiffersAt
<1>5. ASSUME NEW k \in Nat \ {0}, DiffersAt(a, b, k), k \in DOMAIN a PROVE LexLess(a, b)
  <2>1. LetterAt(a, k) = a[k] + 1 /\ LetterAt(a, k) < LetterAt(b, k)
    BY <1>5 DEF LetterAt, DiffersAt
  <2>2. k \in DOMAIN b
    BY <1>1, <1>5, <2>1 DEF LetterAt
  <2>3. a[k] < b[k]
    BY <1>1, <1>5, <2>1, <2>2 DEF LetterAt
  <2>4. ASSUME NEW j \in 1 .. k - 1 PROVE a[j] = b[j]
    <3>1. j \in 1 .. Len(a) /\ j \in 1 .. Len(b)
      BY <1>1, <1>5, <2>2
    <3>2. LetterAt(a, j) = LetterAt(b, j)
      BY <1>5 DEF DiffersAt
    <3>3. a[j] + 1 = b[j] + 1
      BY <1>1, <3>1, <3>2 DEF LetterAt
    <3>4. a[j] \in Nat /\ b[j] \in Nat
      BY <1>1, <3>1
    <3> QED BY <3>3, <3>4
  <2> QED BY <1>5, <2>2, <2>3, <2>4 DEF LexLess
<1>6. ASSUME NEW k \in Nat \ {0}, DiffersAt(a, b, k), k \notin DOMAIN a PROVE LexLess(a, b)
  <2>1. LetterAt(a, k) = 0 /\ LetterAt(a, k) < LetterAt(b, k)
    BY <1>6 DEF LetterAt, DiffersAt
  <2>2. k \in DOMAIN b
    BY <2>1 DEF LetterAt
  <2>3. Len(a) < k /\ k <= Len(b) /\ Len(a) < Len(b) /\ Len(a) \in 0 .. Len(b)
    BY <1>1, <1>6, <2>2
  <2>4. ASSUME NEW j \in 1 .. Len(a) PROVE b[j] = a[j]
    <3>1. j \in 1 .. k - 1 /\ j \in 1 .. Len(b)
      BY <1>1, <2>3
    <3>2. LetterAt(a, j) = LetterAt(b, j)
      BY <1>6, <3>1 DEF DiffersAt
    <3>3. a[j] + 1 = b[j] + 1
      BY <1>1, <3>1, <3>2 DEF LetterAt
    <3>4. a[j] \in Nat /\ b[j] \in Nat
      BY <1>1, <3>1
    <3> QED BY <3>3, <3>4
  <2> DEFINE x == SubSeq(b, 1, Len(a))
  <2>5. x \in Words /\ Len(x) = Len(a) /\ \A i \in 1 .. Len(a) : x[i] = b[i]
    BY <2>3, StartOfWord
  <2> HIDE DEF x
  <2>6. x = a
    BY <2>4, <2>5, WordEqual
  <2> QED BY <2>3, <2>6 DEF LexLess, x
<1>7. LexLess(a, b) <=> \/ Len(a) < Len(b) /\ SubSeq(b, 1, Len(a)) = a
                        \/ \E k \in DOMAIN a \cap DOMAIN b : a[k] < b[k] /\ \A j \in 1 .. k - 1 : a[j] = b[j]
  BY DEF LexLess
<1> QED BY <1>2, <1>3, <1>4, <1>5, <1>6, <1>7

\* It is a total order.
LEMMA LexIsTotal ==
  ASSUME NEW a \in Words, NEW b \in Words
  PROVE  /\ a # b => LexLess(a, b) \/ LexLess(b, a)
         /\ \A c \in Words : LexLess(a, b) /\ LexLess(b, c) => LexLess(a, c)
<1>1. ASSUME a # b PROVE LexLess(a, b) \/ LexLess(b, a)
  <2> DEFINE D == {k \in Nat \ {0} : LetterAt(a, k) # LetterAt(b, k)}
  <2>1. D # {}
    <3> SUFFICES ASSUME D = {} PROVE FALSE
      OBVIOUS
    <3>1. \A k \in Nat \ {0} : LetterAt(a, k) = LetterAt(b, k)
      OBVIOUS
    <3>2. /\ Len(a) \in Nat /\ Len(b) \in Nat /\ DOMAIN a = 1 .. Len(a) /\ DOMAIN b = 1 .. Len(b)
          /\ \A k \in 1 .. Len(a) : a[k] \in Nat
          /\ \A k \in 1 .. Len(b) : b[k] \in Nat
      BY LenProperties, ElementOfSeq DEF Words
    <3> HIDE DEF D
    <3>3. \A k \in Nat \ {0} : k \in DOMAIN a <=> k \in DOMAIN b
      <4> SUFFICES ASSUME NEW k \in Nat \ {0} PROVE k \in DOMAIN a <=> k \in DOMAIN b
        OBVIOUS
      <4>1. LetterAt(a, k) = LetterAt(b, k)
        BY <3>1
      <4>2. k \in DOMAIN a => LetterAt(a, k) # 0
        BY <3>2 DEF LetterAt
      <4>3. k \in DOMAIN b => LetterAt(b, k) # 0
        BY <3>2 DEF LetterAt
      <4>4. k \notin DOMAIN a => LetterAt(a, k) = 0
        BY DEF LetterAt
      <4>5. k \notin DOMAIN b => LetterAt(b, k) = 0
        BY DEF LetterAt
      <4> QED BY ONLY <4>1, <4>2, <4>3, <4>4, <4>5
    <3>4. Len(a) = Len(b)
      <4>1. ~(Len(a) < Len(b))
        <5>1. Len(a) < Len(b) => Len(b) \in DOMAIN b /\ Len(b) \notin DOMAIN a /\ Len(b) \in Nat \ {0}
          BY <3>2
        <5> QED BY <3>3, <5>1
      <4>2. ~(Len(b) < Len(a))
        <5>1. Len(b) < Len(a) => Len(a) \in DOMAIN a /\ Len(a) \notin DOMAIN b /\ Len(a) \in Nat \ {0}
          BY <3>2
        <5> QED BY <3>3, <5>1
      <4>3. Len(a) \in Nat /\ Len(b) \in Nat
        BY <3>2
      <4> QED BY ONLY <4>1, <4>2, <4>3
    <3>5. ASSUME NEW k \in 1 .. Len(a) PROVE a[k] = b[k]
      <4>1. k \in Nat \ {0} /\ k \in DOMAIN a /\ k \in DOMAIN b /\ a[k] \in Nat /\ b[k] \in Nat
        BY <3>2, <3>4
      <4>2. a[k] + 1 = b[k] + 1
        BY <3>1, <4>1 DEF LetterAt
      <4> QED BY <4>1, <4>2
    <3> QED BY <1>1, <3>4, <3>5, WordEqual
  <2>2. PICK k \in D : \A j \in D : k <= j
    <3> HIDE DEF D
    <3>1. D \in SUBSET Nat
      BY DEF D
    <3> QED BY <2>1, <3>1, LeastNumber
  <2>3. k \in Nat \ {0} /\ LetterAt(a, k) # LetterAt(b, k)
    OBVIOUS
  <2>4. \A j \in 1 .. k - 1 : LetterAt(a, j) = LetterAt(b, j)
    <3> SUFFICES ASSUME NEW j \in 1 .. k - 1 PROVE LetterAt(a, j) = LetterAt(b, j)
      OBVIOUS
    <3>1. j \in Nat \ {0} /\ ~(k <= j)
      BY <2>3
    <3> QED BY <2>2, <3>1
  <2>5. LetterAt(a, k) \in Nat /\ LetterAt(b, k) \in Nat
    BY <2>3, LexIs
  <2>6. DiffersAt(a, b, k) \/ DiffersAt(b, a, k)
    BY <2>3, <2>4, <2>5 DEF DiffersAt
  <2> QED BY <2>3, <2>6, LexIs
<1>2. ASSUME NEW c \in Words, LexLess(a, b), LexLess(b, c) PROVE LexLess(a, c)
  <2>1. PICK k \in Nat \ {0} : DiffersAt(a, b, k)
    BY <1>2, LexIs
  <2>2. PICK m \in Nat \ {0} : DiffersAt(b, c, m)
    BY <1>2, LexIs
  <2>3. \A j \in Nat : LetterAt(a, j) \in Nat /\ LetterAt(b, j) \in Nat /\ LetterAt(c, j) \in Nat
    BY LexIs
  <2>4. CASE k <= m
    <3>1. LetterAt(a, k) < LetterAt(c, k)
      <4>1. k = m \/ k \in 1 .. m - 1
        BY <2>4
      <4>2. LetterAt(b, k) <= LetterAt(c, k)
        BY <2>2, <2>3, <4>1 DEF DiffersAt
      <4> QED BY <2>1, <2>3, <4>2 DEF DiffersAt
    <3>2. \A j \in 1 .. k - 1 : LetterAt(a, j) = LetterAt(c, j)
      <4>1. \A j \in 1 .. k - 1 : j \in 1 .. m - 1
        BY <2>4
      <4> QED BY <2>1, <2>2, <4>1 DEF DiffersAt
    <3> QED BY <3>1, <3>2, LexIs DEF DiffersAt
  <2>5. CASE m < k
    <3>1. LetterAt(a, m) < LetterAt(c, m)
      <4>1. m \in 1 .. k - 1
        BY <2>5
      <4>2. LetterAt(a, m) = LetterAt(b, m)
        BY <2>1, <4>1 DEF DiffersAt
      <4> QED BY <2>2, <2>3, <4>2 DEF DiffersAt
    <3>2. \A j \in 1 .. m - 1 : LetterAt(a, j) = LetterAt(c, j)
      <4>1. \A j \in 1 .. m - 1 : j \in 1 .. k - 1
        BY <2>5
      <4> QED BY <2>1, <2>2, <4>1 DEF DiffersAt
    <3> QED BY <3>1, <3>2, LexIs DEF DiffersAt
  <2> QED BY <2>4, <2>5
<1> QED BY <1>1, <1>2

\* Every nonempty set of states has a first one.
LEMMA FirstState ==
  ASSUME NEW cert, NEW pr, NEW F, IsFor(cert, pr, F), NEW X \in SUBSET States(pr, F), X # {}
  PROVE  \E s \in X : \A t \in X \ {s} : StateLess(s, t)
<1>0. PICK S : S = States(pr, F)
  OBVIOUS
<1>1. \A s \in S : s = [vertex |-> s.vertex, word |-> s.word] /\ s.vertex \in Int /\ s.word \in Words
  <2> SUFFICES ASSUME NEW s \in S
               PROVE  s = [vertex |-> s.vertex, word |-> s.word] /\ s.vertex \in Int /\ s.word \in Words
    OBVIOUS
  <2>1. s.vertex \in 1 .. pr.vertices /\ s = [vertex |-> s.vertex, word |-> s.word] /\ s.word \in Words
    BY <1>0, StateIs
  <2> QED BY <2>1 DEF IsFor
<1>2. \A s, t \in S : s # t => StateLess(s, t) \/ StateLess(t, s)
  <2> SUFFICES ASSUME NEW s \in S, NEW t \in S, s # t PROVE StateLess(s, t) \/ StateLess(t, s)
    OBVIOUS
  <2>1. CASE s.word = t.word
    <3>1. s.vertex # t.vertex
      BY <1>1, <2>1
    <3> QED BY <1>1, <2>1, <3>1 DEF StateLess
  <2>2. CASE s.word # t.word
    BY <1>1, <2>2, LexIsTotal DEF StateLess
  <2> QED BY <2>1, <2>2
<1>3. \A s, t, u \in S : StateLess(s, t) /\ StateLess(t, u) => StateLess(s, u)
  <2> SUFFICES ASSUME NEW s \in S, NEW t \in S, NEW u \in S, StateLess(s, t), StateLess(t, u)
               PROVE  StateLess(s, u)
    OBVIOUS
  <2>1. /\ s.vertex \in Int /\ t.vertex \in Int /\ u.vertex \in Int
        /\ s.word \in Words /\ t.word \in Words /\ u.word \in Words
    BY <1>1
  <2>2. LexLess(s.word, t.word) /\ LexLess(t.word, u.word) => LexLess(s.word, u.word)
    BY <2>1, LexIsTotal
  <2> QED BY <2>1, <2>2 DEF StateLess
<1> DEFINE P == {Y \in SUBSET S : Y # {} => \E s \in Y : \A t \in Y \ {s} : StateLess(s, t)}
<1>4. {} \in P
  OBVIOUS
<1>5. ASSUME NEW Y \in SUBSET S, Y # {}, \A x \in Y : Y \ {x} \in P PROVE Y \in P
  <2>1. PICK x \in Y : TRUE
    BY <1>5
  <2>2. CASE Y \ {x} = {}
    BY <2>1, <2>2
  <2>3. CASE Y \ {x} # {}
    <3>1. PICK s \in Y \ {x} : \A t \in (Y \ {x}) \ {s} : StateLess(s, t)
      BY <1>5, <2>1, <2>3
    <3>2. StateLess(s, x) \/ StateLess(x, s)
      BY <1>2, <2>1, <3>1
    <3>3. CASE StateLess(s, x)
      BY <3>1, <3>3
    <3>4. CASE StateLess(x, s)
      BY <1>3, <2>1, <3>1, <3>4
    <3> QED BY <3>2, <3>3, <3>4
  <2> QED BY <2>2, <2>3
<1>6. SUBSET S \subseteq P
  <2>1. IsFiniteSet(S)
    BY <1>0, StatesAreGraph
  <2> HIDE DEF P
  <2> QED BY <1>4, <1>5, <2>1, SubsetInduction
<1> QED BY <1>0, <1>6

-----------------------------------------------------------------------------
(* What the automaton reads.                                               *)

\* z ends at place k of x
EndsAt(x, k, z) == Len(z) <= k /\ \A i \in 1 .. Len(z) : z[i] = x[k - Len(z) + i]

\* y is the longest beginning of a word of F that ends at place k of x
Tracking(F, x, k, y) == EndsAt(x, k, y) /\ \A z \in BeginningsOf(F) : EndsAt(x, k, z) => Len(z) <= Len(y)

\* What ends where a longer word ends is an ending of that one.
LEMMA EndingsShared ==
  ASSUME NEW x \in Words, NEW k \in 0 .. Len(x), NEW t \in Words, EndsAt(x, k, t),
         NEW z \in Words, Len(z) >= 1
  PROVE  Len(z) <= Len(t) /\ EndsAt(x, k, z) <=> \E j \in DOMAIN t : Ending(t, j) = z
<1>1. /\ k \in Nat /\ Len(t) \in Nat /\ Len(z) \in Nat /\ Len(t) <= k /\ DOMAIN t = 1 .. Len(t)
      /\ \A i \in 1 .. Len(t) : t[i] = x[k - Len(t) + i]
  BY DEF EndsAt, Words
<1>2. ASSUME NEW j \in 1 .. Len(t)
      PROVE  /\ Ending(t, j) \in Words /\ Len(Ending(t, j)) = Len(t) - j + 1
             /\ \A i \in 1 .. Len(t) - j + 1 : Ending(t, j)[i] = x[k - Len(t) + (j + i - 1)]
  <2>1. j \in Nat /\ j >= 1 /\ Len(t) <= Len(t) /\ j <= Len(t) + 1
    BY <1>1
  <2>2. /\ Ending(t, j) \in Words /\ Len(Ending(t, j)) = Len(t) - j + 1
        /\ \A i \in 1 .. Len(t) - j + 1 : Ending(t, j)[i] = t[j + i - 1]
    BY <1>1, <2>1, PartIs DEF Ending
  <2>3. \A i \in 1 .. Len(t) - j + 1 : j + i - 1 \in 1 .. Len(t)
    BY <1>1
  <2>4. \A i \in 1 .. Len(t) - j + 1 : t[j + i - 1] = x[k - Len(t) + (j + i - 1)]
    BY <1>1, <2>3
  <2> QED BY <2>2, <2>4
<1>3. ASSUME NEW j \in DOMAIN t, Ending(t, j) = z PROVE Len(z) <= Len(t) /\ EndsAt(x, k, z)
  <2>1. j \in 1 .. Len(t) /\ j \in Nat
    BY <1>1
  <2>2. Len(z) = Len(t) - j + 1 /\ \A i \in 1 .. Len(t) - j + 1 : z[i] = x[k - Len(t) + (j + i - 1)]
    BY <1>2, <1>3, <2>1
  <2>3. \A i \in Int : k - Len(t) + (j + i - 1) = k - Len(z) + i
    BY <1>1, <2>1, <2>2
  <2>4. Len(z) <= Len(t) /\ Len(z) <= k
    BY <1>1, <2>1, <2>2
  <2>5. ASSUME NEW i \in 1 .. Len(z) PROVE z[i] = x[k - Len(z) + i]
    <3>1. i \in 1 .. Len(t) - j + 1 /\ i \in Int
      BY <2>2
    <3>2. z[i] = x[k - Len(t) + (j + i - 1)]
      BY <2>2, <3>1
    <3> QED BY <2>3, <3>1, <3>2
  <2> QED BY <2>4, <2>5 DEF EndsAt
<1>4. ASSUME Len(z) <= Len(t), EndsAt(x, k, z) PROVE \E j \in DOMAIN t : Ending(t, j) = z
  <2>1. PICK j \in Int : j = Len(t) - Len(z) + 1
    BY <1>1
  <2>2. j \in 1 .. Len(t) /\ Len(t) - j + 1 = Len(z)
    BY <1>1, <1>4, <2>1
  <2>3. /\ Ending(t, j) \in Words /\ Len(Ending(t, j)) = Len(z)
        /\ \A i \in 1 .. Len(z) : Ending(t, j)[i] = x[k - Len(t) + (j + i - 1)]
    BY <1>2, <2>2
  <2>4. \A i \in 1 .. Len(z) : k - Len(t) + (j + i - 1) = k - Len(z) + i
    BY <1>1, <2>1
  <2>5. \A i \in 1 .. Len(z) : z[i] = x[k - Len(z) + i]
    BY <1>4 DEF EndsAt
  <2>6. Ending(t, j) = z
    BY <2>3, <2>4, <2>5, WordEqual
  <2> QED BY <1>1, <2>2, <2>6
<1> QED BY <1>3, <1>4

\* What ends at the next place is at most one arrow longer than what is tracked.
LEMMA OneLonger ==
  ASSUME NEW cert, NEW pr, NEW F, IsFor(cert, pr, F), NEW x \in Words, NEW k \in 1 .. Len(x),
         NEW y \in Words, Tracking(F, x, k - 1, y), NEW z \in F \cup BeginningsOf(F), EndsAt(x, k, z)
  PROVE  Len(z) <= Len(y) + 1
<1>1. PICK w \in F : \E n \in 1 .. Len(w) : z = SubSeq(w, 1, n) /\ Len(z) = n
  <2>1. CASE z \in F
    <3>1. z \in Words /\ Len(z) \in Nat /\ Len(z) >= 2
      BY <2>1 DEF IsFor, Words
    <3>2. Len(z) \in 0 .. Len(z) /\ Len(z) \in 1 .. Len(z)
      BY <3>1
    <3> DEFINE v == SubSeq(z, 1, Len(z))
    <3>3. v \in Words /\ Len(v) = Len(z) /\ \A i \in 1 .. Len(z) : v[i] = z[i]
      BY <3>1, <3>2, StartOfWord
    <3> HIDE DEF v
    <3>4. v = z
      BY <3>1, <3>3, WordEqual
    <3> QED BY <2>1, <3>2, <3>4 DEF v
  <2>2. CASE z \in BeginningsOf(F)
    <3>1. PICK w \in F : \E n \in 1 .. Len(w) - 1 : z = SubSeq(w, 1, n) /\ Len(z) = n /\ z[n] = w[n]
      BY <2>2, BeginningIs
    <3>2. Len(w) \in Nat
      BY DEF IsFor, Words
    <3> QED BY <3>1, <3>2
  <2> QED BY <2>1, <2>2, SMTT(30)
<1>2. PICK n \in 1 .. Len(w) : z = SubSeq(w, 1, n) /\ Len(z) = n
  BY <1>1
<1>3. /\ w \in Words /\ Len(w) \in Nat /\ n \in Nat /\ n >= 1 /\ n <= Len(w) /\ Len(y) \in Nat
      /\ k \in Nat /\ k >= 1
  BY SMTT(30) DEF IsFor, Words
<1>4. CASE n = 1
  BY <1>2, <1>3, <1>4
<1>5. CASE n # 1
  <2> DEFINE v == SubSeq(w, 1, n - 1)
  <2>1. n - 1 \in 1 .. Len(w) - 1 /\ n - 1 \in 0 .. Len(w) /\ n \in 0 .. Len(w)
    BY <1>3, <1>5
  <2>2. v \in BeginningsOf(F)
    BY <2>1 DEF BeginningsOf
  <2>3. Len(v) = n - 1 /\ \A i \in 1 .. n - 1 : v[i] = w[i]
    BY <1>3, <2>1, StartOfWord
  <2>4. \A i \in 1 .. n : z[i] = w[i]
    BY <1>2, <1>3, <2>1, StartOfWord
  <2>5. n <= k /\ \A i \in 1 .. n : z[i] = x[k - n + i]
    BY <1>2 DEF EndsAt
  <2> HIDE DEF v
  <2>6. EndsAt(x, k - 1, v)
    <3>1. Len(v) <= k - 1
      BY <1>3, <2>3, <2>5
    <3>2. ASSUME NEW i \in 1 .. Len(v) PROVE v[i] = x[(k - 1) - Len(v) + i]
      <4>1. i \in 1 .. n - 1 /\ i \in 1 .. n /\ (k - 1) - Len(v) + i = k - n + i
        BY <1>3, <2>3
      <4>2. v[i] = w[i] /\ z[i] = w[i] /\ z[i] = x[k - n + i]
        BY <2>3, <2>4, <2>5, <4>1
      <4> QED BY <4>1, <4>2
    <3> QED BY <3>1, <3>2 DEF EndsAt
  <2>7. Len(v) <= Len(y)
    BY <2>2, <2>6 DEF Tracking
  <2> QED BY <1>2, <1>3, <2>3, <2>7
<1> QED BY <1>4, <1>5

\* A word that is tracked, with the next arrow.
LEMMA TrackedMore ==
  ASSUME NEW x \in Words, NEW k \in 1 .. Len(x), NEW y \in Words, EndsAt(x, k - 1, y)
  PROVE  /\ Append(y, x[k]) \in Words /\ Len(Append(y, x[k])) = Len(y) + 1
         /\ EndsAt(x, k, Append(y, x[k])) /\ k \in 0 .. Len(x)
<1>1. k \in Nat /\ k >= 1 /\ Len(x) \in Nat /\ k <= Len(x) /\ Len(y) \in Nat
  BY LenProperties DEF Words
<1>2. x[k] \in Nat
  BY ElementOfSeq DEF Words
<1> DEFINE t == Append(y, x[k])
<1>3. /\ t \in Words /\ Len(t) = Len(y) + 1 /\ t[Len(y) + 1] = x[k]
      /\ \A i \in 1 .. Len(y) : t[i] = y[i]
  BY <1>2, OneArrowMore
<1> HIDE DEF t
<1>4. Len(y) <= k - 1 /\ \A i \in 1 .. Len(y) : y[i] = x[(k - 1) - Len(y) + i]
  BY DEF EndsAt
<1>5. Len(t) <= k
  BY <1>1, <1>3, <1>4
<1>6. ASSUME NEW i \in 1 .. Len(t) PROVE t[i] = x[k - Len(t) + i]
  <2>1. CASE i = Len(y) + 1
    <3>1. k - Len(t) + i = k
      BY <1>1, <1>3, <2>1
    <3> QED BY <1>3, <2>1, <3>1
  <2>2. CASE i # Len(y) + 1
    <3>1. i \in 1 .. Len(y) /\ k - Len(t) + i = (k - 1) - Len(y) + i
      BY <1>1, <1>3, <2>2
    <3> QED BY <1>3, <1>4, <3>1
  <2> QED BY <2>1, <2>2
<1> QED BY <1>1, <1>3, <1>5, <1>6 DEF EndsAt, t

\* One arrow more is tracked, and forbidden words show when they end.
LEMMA TrackStep ==
  ASSUME NEW cert, NEW pr, NEW F, IsFor(cert, pr, F), NEW x \in Words, NEW k \in 1 .. Len(x),
         NEW y \in Words, Tracking(F, x, k - 1, y)
  PROVE  /\ \A w \in F : IsSuffix(w, Append(y, x[k])) <=> EndsAt(x, k, w)
         /\ \A z : IsLongest(F, Append(y, x[k]), z) => Tracking(F, x, k, z)
<1>1. PICK t : t = Append(y, x[k])
  OBVIOUS
<1>2. /\ t \in Words /\ Len(t) = Len(y) + 1 /\ EndsAt(x, k, t) /\ k \in 0 .. Len(x)
      /\ Len(t) \in Nat /\ DOMAIN t = 1 .. Len(t)
  BY <1>1, TrackedMore DEF Tracking, Words
<1>3. ASSUME NEW z \in F \cup BeginningsOf(F)
      PROVE  EndsAt(x, k, z) <=> \E j \in DOMAIN t : Ending(t, j) = z
  <2>1. z \in Words /\ Len(z) >= 1
    <3>1. CASE z \in F
      BY <3>1 DEF IsFor, Words
    <3>2. CASE z \in BeginningsOf(F)
      BY <3>2, BeginningIs
    <3> QED BY <3>1, <3>2
  <2>2. EndsAt(x, k, z) => Len(z) <= Len(t)
    BY <1>2, OneLonger
  <2> QED BY <1>2, <2>1, <2>2, EndingsShared
<1>4. ASSUME NEW w \in F PROVE IsSuffix(w, t) <=> EndsAt(x, k, w)
  <2>1. w \in Words /\ Len(w) >= 1
    BY DEF IsFor, Words
  <2>2. IsSuffix(w, t) <=> \E j \in DOMAIN t : Ending(t, j) = w
    BY <1>2, <2>1, SuffixIs DEF Ending
  <2> QED BY <1>3, <2>2
<1>5. ASSUME NEW z, IsLongest(F, t, z) PROVE Tracking(F, x, k, z)
  <2>1. CASE z = EmptyWord /\ \A j \in DOMAIN t : Ending(t, j) \notin BeginningsOf(F)
    <3>1. \A u \in BeginningsOf(F) : ~EndsAt(x, k, u)
      BY <1>3, <2>1
    <3>2. EndsAt(x, k, z)
      <4>1. Len(z) = 0 /\ k >= 0
        BY <2>1 DEF EmptyWord
      <4> QED BY <4>1 DEF EndsAt
    <3> QED BY <3>1, <3>2 DEF Tracking
  <2>2. CASE \E j \in DOMAIN t : /\ z = Ending(t, j) /\ z \in BeginningsOf(F)
                                 /\ \A i \in DOMAIN t : Ending(t, i) \in BeginningsOf(F) => j <= i
    <3>1. PICK j \in DOMAIN t : /\ z = Ending(t, j) /\ z \in BeginningsOf(F)
                                /\ \A i \in DOMAIN t : Ending(t, i) \in BeginningsOf(F) => j <= i
      BY <2>2
    <3>2. EndsAt(x, k, z)
      BY <1>3, <3>1
    <3>3. \A i \in 1 .. Len(t) : Len(Ending(t, i)) = Len(t) - i + 1
      <4> SUFFICES ASSUME NEW i \in 1 .. Len(t) PROVE Len(Ending(t, i)) = Len(t) - i + 1
        OBVIOUS
      <4>1. i \in Nat /\ i >= 1 /\ Len(t) <= Len(t) /\ i <= Len(t) + 1
        BY <1>2
      <4> QED BY <1>2, <4>1, PartIs DEF Ending
    <3>4. ASSUME NEW u \in BeginningsOf(F), EndsAt(x, k, u) PROVE Len(u) <= Len(z)
      <4>1. PICK i \in DOMAIN t : Ending(t, i) = u
        BY <1>3, <3>4
      <4>2. j <= i /\ i \in 1 .. Len(t) /\ j \in 1 .. Len(t)
        BY <1>2, <3>1, <4>1
      <4>3. Len(u) = Len(t) - i + 1 /\ Len(z) = Len(t) - j + 1
        BY <3>1, <3>3, <4>1, <4>2
      <4> QED BY <1>2, <4>2, <4>3
    <3> QED BY <3>2, <3>4 DEF Tracking
  <2> QED BY <1>5, <2>1, <2>2 DEF IsLongest
<1> QED BY <1>1, <1>4, <1>5

\* h are the states that the verifier passes when it reads x
IsRunOf(cert, h, x) == \A k \in 1 .. Len(x) : Moves(cert, h[k - 1], x[k], h[k])

\* x leads from s to t
Follows(cert, s, x, t) == \E h : IsRunOf(cert, h, x) /\ h[0] = s /\ h[Len(x)] = t

\* The states of a run.
LEMMA RunIs ==
  ASSUME NEW cert, NEW pr, NEW F, IsFor(cert, pr, F), NEW x \in Words, NEW h, IsRunOf(cert, h, x),
         h[0] \in States(pr, F)
  PROVE  \A k \in 0 .. Len(x) : h[k] \in States(pr, F)
<1> DEFINE P == {k \in 0 .. Len(x) : h[k] \in States(pr, F)}
<1>1. Len(x) \in Nat
  BY DEF Words
<1>2. 0 \in P
  BY <1>1
<1>3. ASSUME NEW k \in 1 .. Len(x), k - 1 \in P PROVE k \in P
  <2>1. Moves(cert, h[k - 1], x[k], h[k])
    BY DEF IsRunOf
  <2>2. h[k - 1] \in States(pr, F) /\ k \in 0 .. Len(x)
    BY <1>1, <1>3
  <2>3. h[k] \in States(pr, F)
    BY <2>1, <2>2, MoveGives
  <2> QED BY <2>2, <2>3
<1>4. 0 .. Len(x) \subseteq P
  <2> HIDE DEF P
  <2> QED BY <1>1, <1>2, <1>3, IntervalInduction
<1> QED BY <1>4

\* Nothing is read in no steps.
LEMMA FollowsNothing ==
  ASSUME NEW cert, NEW s
  PROVE  Follows(cert, s, EmptyWord, s)
<1> DEFINE h == [k \in {0} |-> s]
<1>1. Len(EmptyWord) = 0 /\ 1 .. 0 = {}
  BY DEF EmptyWord
<1>2. h[0] = s
  OBVIOUS
<1> HIDE DEF h
<1> QED BY <1>1, <1>2 DEF Follows, IsRunOf

\* One word after the other.
LEMMA FollowsBoth ==
  ASSUME NEW cert, NEW s, NEW t, NEW u, NEW x \in Words, NEW y \in Words, Follows(cert, s, x, t),
         Follows(cert, t, y, u)
  PROVE  Follows(cert, s, Cat(x, y), u)
<1>1. PICK g : IsRunOf(cert, g, x) /\ g[0] = s /\ g[Len(x)] = t
  BY DEF Follows
<1>2. PICK h : IsRunOf(cert, h, y) /\ h[0] = t /\ h[Len(y)] = u
  BY DEF Follows
<1>3. /\ Len(x) \in Nat /\ Len(y) \in Nat /\ Len(Cat(x, y)) = Len(x) + Len(y)
      /\ \A i \in 1 .. Len(x) : Cat(x, y)[i] = x[i]
      /\ \A i \in 1 .. Len(y) : Cat(x, y)[Len(x) + i] = y[i]
  BY ConcatProperties, LenProperties DEF Cat, Words
<1> DEFINE z == Cat(x, y)
           r == [k \in 0 .. Len(x) + Len(y) |-> IF k <= Len(x) THEN g[k] ELSE h[k - Len(x)]]
<1>4. ASSUME NEW k \in 1 .. Len(z) PROVE Moves(cert, r[k - 1], z[k], r[k])
  <2>1. CASE k <= Len(x)
    <3>1. k \in 1 .. Len(x) /\ k - 1 <= Len(x) /\ k - 1 \in 0 .. Len(x) + Len(y) /\ k \in 0 .. Len(x) + Len(y)
      BY <1>3, <2>1
    <3>2. r[k - 1] = g[k - 1] /\ r[k] = g[k] /\ z[k] = x[k]
      BY <1>3, <2>1, <3>1
    <3>3. Moves(cert, g[k - 1], x[k], g[k])
      BY <1>1, <3>1 DEF IsRunOf
    <3> QED BY <3>2, <3>3
  <2>2. CASE ~(k <= Len(x))
    <3>0. k \in Int /\ Len(x) \in Int
      BY <1>3
    <3>1. PICK j \in Int : j = k - Len(x)
      BY <3>0
    <3>2. /\ j \in 1 .. Len(y) /\ k = Len(x) + j /\ k - 1 \in 0 .. Len(x) + Len(y)
          /\ k \in 0 .. Len(x) + Len(y) /\ (k - 1) - Len(x) = j - 1 /\ k - Len(x) = j
          /\ (k - 1 <= Len(x) => k - 1 = Len(x) /\ j - 1 = 0)
      BY <1>3, <2>2, <3>1
    <3>3. z[k] = y[j] /\ r[k] = h[j]
      BY <1>3, <2>2, <3>2
    <3>4. r[k - 1] = h[j - 1]
      <4>1. CASE k - 1 <= Len(x)
        <5>1. r[k - 1] = g[Len(x)]
          BY <3>2, <4>1
        <5> QED BY <1>1, <1>2, <3>2, <4>1, <5>1
      <4>2. CASE ~(k - 1 <= Len(x))
        BY <3>2, <4>2
      <4> QED BY <4>1, <4>2
    <3>5. Moves(cert, h[j - 1], y[j], h[j])
      BY <1>2, <3>2 DEF IsRunOf
    <3> QED BY <3>3, <3>4, <3>5
  <2> QED BY <2>1, <2>2
<1>5. r[0] = s
  <2>1. 0 \in 0 .. Len(x) + Len(y) /\ 0 <= Len(x)
    BY <1>3
  <2> QED BY <1>1, <2>1
<1>6. r[Len(z)] = u
  <2>1. Len(x) + Len(y) \in 0 .. Len(x) + Len(y) /\ (Len(x) + Len(y)) - Len(x) = Len(y)
        /\ (Len(x) + Len(y) <= Len(x) => Len(y) = 0 /\ Len(x) + Len(y) = Len(x))
    BY <1>3
  <2>2. CASE Len(x) + Len(y) <= Len(x)
    <3>1. r[Len(x) + Len(y)] = g[Len(x)]
      BY <2>1, <2>2
    <3> QED BY <1>1, <1>2, <1>3, <2>1, <2>2, <3>1
  <2>3. CASE ~(Len(x) + Len(y) <= Len(x))
    <3>1. r[Len(x) + Len(y)] = h[Len(y)]
      BY <2>1, <2>3
    <3> QED BY <1>2, <1>3, <3>1
  <2> QED BY <2>2, <2>3
<1> HIDE DEF r, z
<1>7. IsRunOf(cert, r, z)
  BY <1>4 DEF IsRunOf
<1> QED BY <1>5, <1>6, <1>7 DEF Follows, z

\* One arrow.
LEMMA FollowsArrow ==
  ASSUME NEW cert, NEW s, NEW a \in Nat, NEW t, Moves(cert, s, a, t)
  PROVE  <<a>> \in Words /\ Follows(cert, s, <<a>>, t)
<1> DEFINE h == [k \in 0 .. 1 |-> IF k = 0 THEN s ELSE t]
<1>1. /\ <<a>> \in Words /\ Len(<<a>>) = 1 /\ <<a>>[1] = a
  BY DEF Words
<1>2. h[0] = s /\ h[1] = t
  OBVIOUS
<1> HIDE DEF h
<1>3. ASSUME NEW k \in 1 .. Len(<<a>>) PROVE Moves(cert, h[k - 1], <<a>>[k], h[k])
  <2>1. k = 1 /\ k - 1 = 0
    BY <1>1
  <2> QED BY <1>1, <1>2, <2>1
<1> QED BY <1>1, <1>2, <1>3 DEF Follows, IsRunOf

\* What is read from a state is a path from its vertex.
LEMMA FollowsPath ==
  ASSUME NEW cert, NEW pr, NEW F, IsFor(cert, pr, F), NEW s \in States(pr, F), NEW x \in Words, NEW t,
         Follows(cert, s, x, t)
  PROVE  /\ t \in States(pr, F) /\ IsPath(pr, x)
         /\ x # EmptyWord => pr.arrows[x[1]][1] = s.vertex
<1>1. PICK h : IsRunOf(cert, h, x) /\ h[0] = s /\ h[Len(x)] = t
  BY DEF Follows
<1>2. Len(x) \in Nat /\ DOMAIN x = 1 .. Len(x)
  BY DEF Words
<1>3. \A k \in 0 .. Len(x) : h[k] \in States(pr, F)
  BY <1>1, RunIs
<1>4. ASSUME NEW k \in 1 .. Len(x)
      PROVE  /\ x[k] \in DOMAIN pr.arrows /\ pr.arrows[x[k]][1] = h[k - 1].vertex
             /\ h[k].vertex = pr.arrows[x[k]][2]
  <2>1. k - 1 \in 0 .. Len(x)
    BY <1>2
  <2>2. h[k - 1] \in States(pr, F) /\ Moves(cert, h[k - 1], x[k], h[k])
    BY <1>1, <1>3, <2>1 DEF IsRunOf
  <2> QED BY <2>2, MoveGives
<1>5. IsPath(pr, x)
  <2>1. ASSUME NEW k \in 1 .. Len(x) - 1 PROVE pr.arrows[x[k]][2] = pr.arrows[x[k + 1]][1]
    <3>1. k \in 1 .. Len(x) /\ k + 1 \in 1 .. Len(x) /\ (k + 1) - 1 = k
      BY <1>2
    <3>2. pr.arrows[x[k]][2] = h[k].vertex
      BY <1>4, <3>1
    <3>3. pr.arrows[x[k + 1]][1] = h[(k + 1) - 1].vertex
      BY <1>4, <3>1
    <3> QED BY <3>1, <3>2, <3>3
  <2> QED BY <1>2, <1>4, <2>1 DEF IsPath
<1>6. ASSUME x # EmptyWord PROVE pr.arrows[x[1]][1] = s.vertex
  <2>1. 1 \in 1 .. Len(x) /\ 1 - 1 = 0
    <3>1. Len(x) # 0
      BY <1>6, EmptySeq DEF Words, EmptyWord
    <3> QED BY <1>2, <3>1
  <2>2. pr.arrows[x[1]][1] = h[1 - 1].vertex
    BY <1>4, <2>1
  <2> QED BY <1>1, <2>1, <2>2
<1>7. Len(x) \in 0 .. Len(x)
  BY <1>2
<1> QED BY <1>1, <1>3, <1>5, <1>6, <1>7

\* the first k arrows of x lead from s to t
ReadsTo(cert, s, x, k, t) ==
  \E h : (\A i \in 1 .. k : Moves(cert, h[i - 1], x[i], h[i])) /\ h[0] = s /\ h[k] = t

\* No arrow, and one arrow more.
LEMMA ReadsNone ==
  ASSUME NEW cert, NEW s, NEW x, NEW t
  PROVE  ReadsTo(cert, s, x, 0, t) <=> t = s
<1>1. ASSUME ReadsTo(cert, s, x, 0, t) PROVE t = s
  BY <1>1 DEF ReadsTo
<1>2. ASSUME t = s PROVE ReadsTo(cert, s, x, 0, t)
  <2> DEFINE h == [k \in {0} |-> s]
  <2>1. h[0] = s /\ 1 .. 0 = {}
    OBVIOUS
  <2> HIDE DEF h
  <2> QED BY <1>2, <2>1 DEF ReadsTo
<1> QED BY <1>1, <1>2

\* Reading k arrows is reading one less and moving once.
LEMMA ReadsMore ==
  ASSUME NEW cert, NEW s, NEW x, NEW k \in Nat \ {0}, NEW t
  PROVE  ReadsTo(cert, s, x, k, t) <=> \E u : ReadsTo(cert, s, x, k - 1, u) /\ Moves(cert, u, x[k], t)
<1>1. ASSUME ReadsTo(cert, s, x, k, t)
      PROVE  \E u : ReadsTo(cert, s, x, k - 1, u) /\ Moves(cert, u, x[k], t)
  <2>1. PICK h : (\A i \in 1 .. k : Moves(cert, h[i - 1], x[i], h[i])) /\ h[0] = s /\ h[k] = t
    BY <1>1 DEF ReadsTo
  <2>2. k \in 1 .. k /\ \A i \in 1 .. k - 1 : i \in 1 .. k
    OBVIOUS
  <2>3. \A i \in 1 .. k - 1 : Moves(cert, h[i - 1], x[i], h[i])
    BY <2>1, <2>2
  <2> QED BY <2>1, <2>2, <2>3 DEF ReadsTo
<1>2. ASSUME NEW u, ReadsTo(cert, s, x, k - 1, u), Moves(cert, u, x[k], t) PROVE ReadsTo(cert, s, x, k, t)
  <2>1. PICK g : (\A i \in 1 .. k - 1 : Moves(cert, g[i - 1], x[i], g[i])) /\ g[0] = s /\ g[k - 1] = u
    BY <1>2 DEF ReadsTo
  <2> DEFINE h == [i \in 0 .. k |-> IF i < k THEN g[i] ELSE t]
  <2>2. h[0] = s /\ h[k] = t /\ \A i \in 0 .. k - 1 : h[i] = g[i]
    BY <2>1
  <2> HIDE DEF h
  <2>3. ASSUME NEW i \in 1 .. k PROVE Moves(cert, h[i - 1], x[i], h[i])
    <3>1. CASE i = k
      <4>1. i - 1 \in 0 .. k - 1 /\ i - 1 = k - 1
        BY <3>1
      <4> QED BY <1>2, <2>1, <2>2, <3>1, <4>1
    <3>2. CASE i # k
      <4>1. i \in 1 .. k - 1 /\ i \in 0 .. k - 1 /\ i - 1 \in 0 .. k - 1
        BY <3>2
      <4> QED BY <2>1, <2>2, <4>1
    <3> QED BY <3>1, <3>2
  <2> QED BY <2>2, <2>3 DEF ReadsTo
<1> QED BY <1>1, <1>2

\* Only states are read from states.
LEMMA ReadsStates ==
  ASSUME NEW cert, NEW pr, NEW F, IsFor(cert, pr, F), NEW s \in States(pr, F), NEW x, NEW n \in Nat, NEW t,
         ReadsTo(cert, s, x, n, t)
  PROVE  t \in States(pr, F)
<1> DEFINE P == {k \in Nat : \A u : ReadsTo(cert, s, x, k, u) => u \in States(pr, F)}
<1>1. 0 \in P
  BY ReadsNone
<1>2. ASSUME NEW k \in Nat, k \in P PROVE k + 1 \in P
  <2>1. k + 1 \in Nat \ {0} /\ (k + 1) - 1 = k
    OBVIOUS
  <2>2. ASSUME NEW u, ReadsTo(cert, s, x, k + 1, u) PROVE u \in States(pr, F)
    <3>1. PICK r : ReadsTo(cert, s, x, k, r) /\ Moves(cert, r, x[k + 1], u)
      BY <2>1, <2>2, ReadsMore
    <3>2. r \in States(pr, F)
      BY <1>2, <3>1
    <3> QED BY <3>1, <3>2, MoveGives
  <2> QED BY <2>1, <2>2
<1>3. Nat \subseteq P
  <2> HIDE DEF P
  <2> QED BY <1>1, <1>2, SetInduction
<1> QED BY <1>3

\* where an arrow leads from the states of X, in the replay of a word
ArriveAt(cert, X, a) == UNION {{e[2] : e \in {d \in Edges(cert, u) : d[1] = a}} : u \in X}

IsRead(cert, s, x, n, f) ==
  f = [i \in 0 .. n |-> IF i = 0 THEN {s} ELSE ArriveAt(cert, f[i - 1], x[i])]

\* Where an arrow leads from a set of states is where it moves one of them.
LEMMA ArriveIs ==
  ASSUME NEW cert, NEW pr, NEW F, IsFor(cert, pr, F), NEW X, NEW a, NEW t
  PROVE  t \in ArriveAt(cert, X, a) <=> \E u \in X : Moves(cert, u, a, t)
<1>1. \A u : \A e \in Edges(cert, u) : e = <<e[1], e[2]>>
  BY MoveIs
<1>2. ASSUME t \in ArriveAt(cert, X, a) PROVE \E u \in X : Moves(cert, u, a, t)
  <2>1. PICK u \in X : \E e \in Edges(cert, u) : e[1] = a /\ t = e[2]
    BY <1>2 DEF ArriveAt
  <2> QED BY <1>1, <2>1 DEF Moves
<1>3. ASSUME NEW u \in X, Moves(cert, u, a, t) PROVE t \in ArriveAt(cert, X, a)
  <2>1. PICK e : e = <<a, t>>
    OBVIOUS
  <2>2. e \in Edges(cert, u) /\ e[1] = a /\ e[2] = t
    BY <1>3, <2>1 DEF Moves
  <2> QED BY <2>2 DEF ArriveAt
<1> QED BY <1>2, <1>3

\* The replay of a word finds where it leads.
LEMMA ReadFromIs ==
  ASSUME NEW cert, NEW pr, NEW F, IsFor(cert, pr, F), NEW s \in States(pr, F), NEW x \in Words, NEW t
  PROVE  t \in ReadFrom(cert, s, x) <=> Follows(cert, s, x, t)
<1> DEFINE n == Len(x)
<1>1. n \in Nat /\ 0 \in 0 .. n /\ n \in 0 .. n
  BY DEF Words
<1> HIDE DEF n
<1>2. \E f : IsRead(cert, s, x, n, f)
  <2> DEFINE f == [i \in 0 .. n |-> {u \in States(pr, F) : ReadsTo(cert, s, x, i, u)}]
  <2>1. f = [i \in 0 .. n |-> f[i]]
    OBVIOUS
  <2>2. \A i \in 0 .. n : \A u : u \in f[i] <=> u \in States(pr, F) /\ ReadsTo(cert, s, x, i, u)
    OBVIOUS
  <2> HIDE DEF f
  <2>3. \A i \in 0 .. n : \A u : u \in f[i] <=> ReadsTo(cert, s, x, i, u)
    BY <1>1, <2>2, ReadsStates
  <2>4. f[0] = {s}
    BY <1>1, <2>3, ReadsNone
  <2>5. ASSUME NEW i \in 0 .. n, i # 0 PROVE f[i] = ArriveAt(cert, f[i - 1], x[i])
    <3>1. i \in Nat \ {0} /\ i - 1 \in 0 .. n
      BY <1>1, <2>5
    <3>2. ASSUME NEW u PROVE u \in f[i] <=> u \in ArriveAt(cert, f[i - 1], x[i])
      <4>1. u \in f[i] <=> ReadsTo(cert, s, x, i, u)
        BY <2>3
      <4>2. u \in ArriveAt(cert, f[i - 1], x[i]) <=> \E r \in f[i - 1] : Moves(cert, r, x[i], u)
        BY ArriveIs
      <4>3. ReadsTo(cert, s, x, i, u) <=> \E r : ReadsTo(cert, s, x, i - 1, r) /\ Moves(cert, r, x[i], u)
        BY <3>1, ReadsMore
      <4> QED BY <2>3, <3>1, <4>1, <4>2, <4>3
    <3> QED BY <3>2
  <2>6. \A i \in 0 .. n : f[i] = IF i = 0 THEN {s} ELSE ArriveAt(cert, f[i - 1], x[i])
    BY <2>4, <2>5
  <2> QED BY <2>1, <2>6 DEF IsRead
<1>3. PICK h : h = CHOOSE f : IsRead(cert, s, x, n, f)
  OBVIOUS
<1>4. IsRead(cert, s, x, n, h)
  BY <1>2, <1>3
<1>5. ReadFrom(cert, s, x) = h[n]
  BY <1>3 DEF ReadFrom, IsRead, ArriveAt, n
<1> DEFINE P == {i \in 0 .. n : \A u : u \in h[i] <=> ReadsTo(cert, s, x, i, u)}
<1>6. 0 \in P
  <2>1. h[0] = {s}
    BY <1>1, <1>4 DEF IsRead
  <2> QED BY <1>1, <2>1, ReadsNone
<1>7. ASSUME NEW i \in 1 .. n, i - 1 \in P PROVE i \in P
  <2>1. i \in 0 .. n /\ i \in Nat \ {0}
    BY <1>1
  <2>2. h[i] = ArriveAt(cert, h[i - 1], x[i])
    BY <1>4, <2>1 DEF IsRead
  <2>3. ASSUME NEW u PROVE u \in h[i] <=> ReadsTo(cert, s, x, i, u)
    <3>1. u \in h[i] <=> \E r \in h[i - 1] : Moves(cert, r, x[i], u)
      BY <2>2, ArriveIs
    <3>2. \A r : r \in h[i - 1] <=> ReadsTo(cert, s, x, i - 1, r)
      BY <1>7
    <3>3. ReadsTo(cert, s, x, i, u) <=> \E r : ReadsTo(cert, s, x, i - 1, r) /\ Moves(cert, r, x[i], u)
      BY <2>1, ReadsMore
    <3> QED BY <3>1, <3>2, <3>3
  <2> QED BY <2>1, <2>3
<1>8. 0 .. n \subseteq P
  <2> HIDE DEF P
  <2> QED BY <1>1, <1>6, <1>7, IntervalInduction
<1>9. t \in h[n] <=> ReadsTo(cert, s, x, n, t)
  BY <1>1, <1>8
<1> QED BY <1>5, <1>9 DEF ReadsTo, Follows, IsRunOf, n

\* A word leads to one state at most.
LEMMA FollowsOne ==
  ASSUME NEW cert, NEW pr, NEW F, IsFor(cert, pr, F), NEW s \in States(pr, F), NEW x \in Words, NEW t, NEW u,
         Follows(cert, s, x, t), Follows(cert, s, x, u)
  PROVE  t = u
<1> DEFINE P == {k \in Nat : \A r, v : ReadsTo(cert, s, x, k, r) /\ ReadsTo(cert, s, x, k, v) => r = v}
<1>1. 0 \in P
  BY ReadsNone
<1>2. ASSUME NEW k \in Nat, k \in P PROVE k + 1 \in P
  <2>1. k + 1 \in Nat \ {0} /\ (k + 1) - 1 = k
    OBVIOUS
  <2>2. ASSUME NEW r, NEW v, ReadsTo(cert, s, x, k + 1, r), ReadsTo(cert, s, x, k + 1, v) PROVE r = v
    <3>1. PICK a : ReadsTo(cert, s, x, k, a) /\ Moves(cert, a, x[k + 1], r)
      BY <2>1, <2>2, ReadsMore
    <3>2. PICK b : ReadsTo(cert, s, x, k, b) /\ Moves(cert, b, x[k + 1], v)
      BY <2>1, <2>2, ReadsMore
    <3>3. a = b /\ a \in States(pr, F)
      BY <1>2, <3>1, <3>2, ReadsStates
    <3> QED BY <3>1, <3>2, <3>3, MoveGives
  <2> QED BY <2>1, <2>2
<1>3. Nat \subseteq P
  <2> HIDE DEF P
  <2> QED BY <1>1, <1>2, SetInduction
<1>4. Len(x) \in Nat /\ ReadsTo(cert, s, x, Len(x), t) /\ ReadsTo(cert, s, x, Len(x), u)
  BY DEF Follows, IsRunOf, ReadsTo, Words
<1> QED BY <1>3, <1>4

\* no word of F ends in the first k arrows of x
IsClean(F, x, k) == \A j \in 1 .. k : \A w \in F : ~EndsAt(x, j, w)

\* What ends at a place is what occurs before it.
LEMMA OccursWhereItEnds ==
  ASSUME NEW x \in Words, NEW w \in Words, Len(w) >= 1
  PROVE  Occurrences(x, w) = {} <=> \A k \in 1 .. Len(x) : ~EndsAt(x, k, w)
<1>1. Len(x) \in Nat /\ Len(w) \in Nat
  BY DEF Words
<1>2. ASSUME NEW o \in Occurrences(x, w) PROVE \E k \in 1 .. Len(x) : EndsAt(x, k, w)
  <2>1. o \in 0 .. Len(x) - Len(w) /\ SubSeq(x, o + 1, o + Len(w)) = w
    BY DEF Occurrences
  <2>2. o + 1 \in Nat /\ o + Len(w) \in Nat /\ o + 1 >= 1 /\ o + Len(w) <= Len(x) /\ o + 1 <= o + Len(w) + 1
    BY <1>1, <2>1
  <2>3. \A i \in 1 .. (o + Len(w)) - (o + 1) + 1 : SubSeq(x, o + 1, o + Len(w))[i] = x[(o + 1) + i - 1]
    BY <2>2, PartIs
  <2>4. PICK k \in Nat : k = o + Len(w)
    BY <2>2
  <2>5. k \in 1 .. Len(x) /\ Len(w) <= k
    BY <1>1, <2>1, <2>4
  <2>6. ASSUME NEW i \in 1 .. Len(w) PROVE w[i] = x[k - Len(w) + i]
    <3>1. i \in 1 .. (o + Len(w)) - (o + 1) + 1 /\ (o + 1) + i - 1 = k - Len(w) + i
      BY <1>1, <2>1, <2>4
    <3> QED BY <2>1, <2>3, <3>1
  <2> QED BY <2>5, <2>6 DEF EndsAt
<1>3. ASSUME NEW k \in 1 .. Len(x), EndsAt(x, k, w) PROVE Occurrences(x, w) # {}
  <2>1. PICK o \in Int : o = k - Len(w)
    BY <1>1
  <2>2. o \in 0 .. Len(x) - Len(w) /\ o + Len(w) = k /\ o \in Nat
    BY <1>1, <1>3, <2>1 DEF EndsAt
  <2>3. o + 1 \in Nat /\ o + Len(w) \in Nat /\ o + 1 >= 1 /\ o + Len(w) <= Len(x) /\ o + 1 <= o + Len(w) + 1
        /\ (o + Len(w)) - (o + 1) + 1 = Len(w)
    BY <1>1, <2>2
  <2> DEFINE v == SubSeq(x, o + 1, o + Len(w))
  <2>4. v \in Words /\ Len(v) = (o + Len(w)) - (o + 1) + 1
        /\ \A i \in 1 .. (o + Len(w)) - (o + 1) + 1 : v[i] = x[(o + 1) + i - 1]
    BY <2>3, PartIs
  <2> HIDE DEF v
  <2>5. Len(v) = Len(w) /\ \A i \in 1 .. Len(w) : v[i] = x[(o + 1) + i - 1]
    BY <2>3, <2>4
  <2>6. ASSUME NEW i \in 1 .. Len(v) PROVE v[i] = w[i]
    <3>1. i \in 1 .. Len(w)
      BY <2>5
    <3>a. i \in Nat /\ (o + 1) + i - 1 = k - Len(w) + i
      <4>1. k \in Int /\ i \in Nat
        BY <1>1, <3>1
      <4> QED BY ONLY <1>1, <2>2, <4>1
    <3>2. w[i] = x[k - Len(w) + i]
      BY <1>3, <3>1 DEF EndsAt
    <3> QED BY <2>5, <3>1, <3>2, <3>a
  <2>7. v = w
    BY <2>4, <2>5, <2>6, WordEqual
  <2> QED BY <2>2, <2>7 DEF Occurrences, v
<1> QED BY <1>2, <1>3

\* A word is normal when it is a path and no forbidden word ends in it.
LEMMA NormalIs ==
  ASSUME NEW cert, NEW pr, NEW F, IsFor(cert, pr, F), NEW x \in Words
  PROVE  IsNormal(pr, F, x) <=> IsPath(pr, x) /\ IsClean(F, x, Len(x))
<1>1. ASSUME NEW w \in F
      PROVE  Occurrences(x, w) = {} <=> \A k \in 1 .. Len(x) : ~EndsAt(x, k, w)
  <2>1. w \in Words /\ Len(w) >= 1
    BY DEF IsFor, Words
  <2> QED BY <2>1, OccursWhereItEnds
<1> QED BY <1>1 DEF IsNormal, IsClean

\* The automaton tracks what it reads, and reads nothing forbidden.
LEMMA ReadsClean ==
  ASSUME NEW cert, NEW pr, NEW F, IsFor(cert, pr, F), NEW s \in Starts(cert), NEW x \in Words,
           NEW n \in 0 .. Len(x),
         NEW t, ReadsTo(cert, s, x, n, t)
  PROVE  Tracking(F, x, n, t.word) /\ IsClean(F, x, n) /\ t \in States(pr, F) /\ t.word \in Words
<1> DEFINE Fine(k, u) == Tracking(F, x, k, u.word) /\ IsClean(F, x, k) /\ u \in States(pr, F)
           P == {k \in 0 .. n : \A u : ReadsTo(cert, s, x, k, u) => Fine(k, u)}
<1>1. Len(x) \in Nat /\ n \in Nat /\ s \in States(pr, F)
  BY StatesAre DEF Words
<1>2. 0 \in P
  <2>1. s.word = <<>>
    BY DEF Starts
  <2>2. Tracking(F, x, 0, s.word)
    <3>1. Len(s.word) = 0
      BY <2>1
    <3>2. EndsAt(x, 0, s.word)
      BY <3>1 DEF EndsAt
    <3>3. \A z \in BeginningsOf(F) : EndsAt(x, 0, z) => Len(z) <= Len(s.word)
      BY <3>1 DEF EndsAt
    <3> QED BY <3>2, <3>3 DEF Tracking
  <2>3. IsClean(F, x, 0)
    BY DEF IsClean
  <2> QED BY <1>1, <2>2, <2>3, ReadsNone
<1>3. ASSUME NEW k \in 1 .. n, k - 1 \in P PROVE k \in P
  <2>1. k \in Nat \ {0} /\ k \in 1 .. Len(x) /\ k \in 0 .. n
    BY <1>1
  <2>2. ASSUME NEW u, ReadsTo(cert, s, x, k, u) PROVE Fine(k, u)
    <3>1. PICK r : ReadsTo(cert, s, x, k - 1, r) /\ Moves(cert, r, x[k], u)
      BY <2>1, <2>2, ReadsMore
    <3>2. Fine(k - 1, r)
      BY <1>3, <3>1
    <3>3. r.word \in Words
      BY <3>2, StateIs
    <3>4. /\ \A w \in F : ~IsSuffix(w, Append(r.word, x[k]))
          /\ IsLongest(F, Append(r.word, x[k]), u.word)
      BY <3>1, <3>2, MoveGives
    <3>5. \A w \in F : IsSuffix(w, Append(r.word, x[k])) <=> EndsAt(x, k, w)
      BY <2>1, <3>2, <3>3, TrackStep
    <3>6. Tracking(F, x, k, u.word)
      BY <2>1, <3>2, <3>3, <3>4, TrackStep
    <3>7. IsClean(F, x, k)
      <4>1. \A j \in 1 .. k : j \in 1 .. k - 1 \/ j = k
        BY <2>1
      <4> QED BY <3>2, <3>4, <3>5, <4>1 DEF IsClean
    <3>8. u \in States(pr, F)
      BY <3>1, <3>2, MoveGives
    <3> QED BY ONLY <3>6, <3>7, <3>8
  <2> HIDE DEF Fine
  <2> QED BY <2>1, <2>2
<1>4. 0 .. n \subseteq P
  <2> HIDE DEF P
  <2> QED BY <1>1, <1>2, <1>3, IntervalInduction
<1>5. n \in 0 .. n
  BY <1>1
<1>6. Fine(n, t)
  BY <1>4, <1>5
<1> QED BY <1>6, StateIs

\* What is read from a vertex is normal.
LEMMA ReadsNormal ==
  ASSUME NEW cert, NEW pr, NEW F, IsFor(cert, pr, F), NEW s \in Starts(cert), NEW x \in Words, NEW t,
         Follows(cert, s, x, t)
  PROVE  IsNormal(pr, F, x)
<1>1. s \in States(pr, F)
  BY StatesAre
<1>2. IsPath(pr, x)
  BY <1>1, FollowsPath
<1>3. Len(x) \in 0 .. Len(x) /\ ReadsTo(cert, s, x, Len(x), t)
  BY DEF Follows, IsRunOf, ReadsTo, Words
<1>4. IsClean(F, x, Len(x))
  BY <1>3, ReadsClean
<1> QED BY <1>2, <1>4, NormalIs

\* A normal word is read from the vertex it starts at.
LEMMA NormalIsRead ==
  ASSUME NEW cert, NEW pr, NEW F, IsFor(cert, pr, F), NEW s \in Starts(cert), NEW x \in Words,
         IsNormal(pr, F, x), x # EmptyWord => pr.arrows[x[1]][1] = s.vertex
  PROVE  \E t : Follows(cert, s, x, t)
<1> DEFINE n == Len(x)
           P == {k \in 0 .. n : \E u \in States(pr, F) :
                   /\ ReadsTo(cert, s, x, k, u)
                   /\ u.vertex = IF k = 0 THEN s.vertex ELSE pr.arrows[x[k]][2]}
<1>1. n \in Nat /\ DOMAIN x = 1 .. n /\ s \in States(pr, F)
  BY StatesAre DEF Words
<1>2. IsPath(pr, x) /\ IsClean(F, x, n)
  BY NormalIs
<1>3. 0 \in P
  BY <1>1, ReadsNone
<1>4. ASSUME NEW k \in 1 .. n, k - 1 \in P PROVE k \in P
  <2>1. k \in Nat \ {0} /\ k \in 1 .. Len(x) /\ k - 1 \in 0 .. Len(x) /\ k \in 0 .. n
    BY <1>1
  <2>2. PICK r \in States(pr, F) : /\ ReadsTo(cert, s, x, k - 1, r)
                                   /\ r.vertex = IF k - 1 = 0 THEN s.vertex ELSE pr.arrows[x[k - 1]][2]
    BY <1>4
  <2>3. x[k] \in ArrowsFrom(pr, r.vertex)
    <3>1. x[k] \in DOMAIN pr.arrows
      BY <1>1, <1>2, <2>1 DEF IsPath
    <3>2. pr.arrows[x[k]][1] = r.vertex
      <4>1. CASE k = 1
        <5>1. x # EmptyWord
          BY <1>1, <2>1 DEF EmptyWord
        <5> QED BY <2>2, <4>1, <5>1
      <4>2. CASE k # 1
        <5>1. k - 1 \in 1 .. Len(x) - 1 /\ (k - 1) + 1 = k /\ k - 1 # 0
          BY <1>1, <2>1, <4>2
        <5>2. pr.arrows[x[k - 1]][2] = pr.arrows[x[(k - 1) + 1]][1]
          BY <1>2, <5>1 DEF IsPath
        <5> QED BY <2>2, <5>1, <5>2
      <4> QED BY <4>1, <4>2
    <3> QED BY <3>1, <3>2 DEF ArrowsFrom
  <2>4. Tracking(F, x, k - 1, r.word) /\ r.word \in Words
    BY <2>1, <2>2, ReadsClean
  <2>5. \A w \in F : IsSuffix(w, Append(r.word, x[k])) <=> EndsAt(x, k, w)
    BY <2>1, <2>4, TrackStep
  <2>6. \A w \in F : ~IsSuffix(w, Append(r.word, x[k]))
    BY <1>2, <2>5 DEF IsClean
  <2>7. PICK u \in States(pr, F) : Moves(cert, r, x[k], u)
    BY <2>3, <2>6, MoveExists
  <2>8. u.vertex = pr.arrows[x[k]][2]
    BY <2>7, MoveGives
  <2>9. ReadsTo(cert, s, x, k, u)
    BY <2>1, <2>2, <2>7, ReadsMore
  <2> QED BY <2>1, <2>8, <2>9
<1>5. 0 .. n \subseteq P
  <2> HIDE DEF P, n
  <2> QED BY <1>1, <1>3, <1>4, IntervalInduction
<1>6. n \in P
  BY <1>1, <1>5
<1> QED BY <1>6 DEF Follows, IsRunOf, ReadsTo

\* A word with an arrow more leads on by that arrow.
LEMMA FollowsAppend ==
  ASSUME NEW cert, NEW s, NEW x \in Words, NEW a \in Nat, NEW t
  PROVE  Follows(cert, s, Append(x, a), t) <=> \E u : Follows(cert, s, x, u) /\ Moves(cert, u, a, t)
<1> DEFINE y == Append(x, a)
           n == Len(x)
<1>0. /\ n \in Nat /\ Len(y) = n + 1 /\ y[n + 1] = a /\ \A i \in 1 .. n : y[i] = x[i]
  BY OneArrowMore
<1> HIDE DEF y, n
<1>1. /\ n \in Nat /\ n + 1 \in Nat \ {0} /\ (n + 1) - 1 = n
      /\ Len(y) = n + 1 /\ y[n + 1] = a /\ \A i \in 1 .. n : y[i] = x[i]
  BY <1>0
<1>2. Follows(cert, s, y, t) <=> ReadsTo(cert, s, y, n + 1, t)
  BY <1>1 DEF Follows, IsRunOf, ReadsTo
<1>3. ReadsTo(cert, s, y, n + 1, t) <=> \E u : ReadsTo(cert, s, y, n, u) /\ Moves(cert, u, a, t)
  BY <1>1, ReadsMore, ZenonT(40)
<1>4. ASSUME NEW u PROVE ReadsTo(cert, s, y, n, u) <=> Follows(cert, s, x, u)
  BY <1>1 DEF Follows, IsRunOf, ReadsTo, n
<1> QED BY <1>2, <1>3, <1>4 DEF y

\* what is read in n arrows, from each vertex
ReadsOf(cert, pr, F, n) ==
  {r \in [source : 1 .. pr.vertices, word : Words, state : States(pr, F)] :
     Len(r.word) = n /\ Follows(cert, StartState(r.source), r.word, r.state)}

ReadOn(r, a, t) == [source |-> r.source, word |-> Append(r.word, a), state |-> t]

ReadMore(pr, F, R) ==
  UNION {UNION {{ReadOn(r, a, t) : t \in After(pr, F, r.state, a)} :
                  a \in ArrowsFrom(pr, r.state.vertex)} : r \in R}

ReadNone(pr) == {[source |-> v, word |-> <<>>, state |-> StartState(v)] : v \in 1 .. pr.vertices}

IsReadings(pr, F, n, f) == f = [m \in 0 .. n |-> IF m = 0 THEN ReadNone(pr) ELSE ReadMore(pr, F, f[m - 1])]

\* A reading is lengthened by one arrow from its vertex, moving its state.
LEMMA ReadMoreIs ==
  ASSUME NEW pr, NEW F, NEW R, NEW q
  PROVE  q \in ReadMore(pr, F, R)
           <=> \E r \in R : \E a \in ArrowsFrom(pr, r.state.vertex) :
                 \E t \in After(pr, F, r.state, a) : q = ReadOn(r, a, t)
BY DEF ReadMore

\* What is read in no arrow: the empty word at each vertex.
LEMMA ReadsFirst ==
  ASSUME NEW cert, NEW pr, NEW F, IsFor(cert, pr, F)
  PROVE  ReadsOf(cert, pr, F, 0) = ReadNone(pr)
<1>1. ASSUME NEW r \in ReadsOf(cert, pr, F, 0) PROVE r \in ReadNone(pr)
  <2>1. /\ r = [source |-> r.source, word |-> r.word, state |-> r.state] /\ r.source \in 1 .. pr.vertices
        /\ r.word \in Words /\ Len(r.word) = 0 /\ Follows(cert, StartState(r.source), r.word, r.state)
    BY <1>1 DEF ReadsOf
  <2>2. r.word = <<>>
    BY <2>1, EmptySeq DEF Words
  <2>3. r.state = StartState(r.source)
    <3>1. StartState(r.source) \in States(pr, F) /\ EmptyWord \in Words /\ r.word = EmptyWord
      BY <2>1, <2>2, StatesAre, CatWithEmpty DEF EmptyWord
    <3>2. PICK u : u = StartState(r.source)
      OBVIOUS
    <3>3. Follows(cert, u, EmptyWord, u) /\ Follows(cert, u, EmptyWord, r.state)
      BY <2>1, <3>1, <3>2, FollowsNothing
    <3>4. u = r.state
      BY <3>1, <3>2, <3>3, FollowsOne
    <3> QED BY <3>2, <3>4
  <2> QED BY <2>1, <2>2, <2>3 DEF ReadNone
<1>2. ASSUME NEW v \in 1 .. pr.vertices
      PROVE  [source |-> v, word |-> <<>>, state |-> StartState(v)] \in ReadsOf(cert, pr, F, 0)
  <2>1. StartState(v) \in States(pr, F) /\ <<>> \in Words /\ Len(<<>>) = 0
    BY StatesAre, CatEmpty
  <2>2. Follows(cert, StartState(v), <<>>, StartState(v))
    BY FollowsNothing DEF EmptyWord
  <2> QED BY <2>1, <2>2 DEF ReadsOf
<1> QED BY <1>1, <1>2 DEF ReadNone

\* What is read in one arrow more is what is read, lengthened.
LEMMA ReadsGrow ==
  ASSUME NEW cert, NEW pr, NEW F, IsFor(cert, pr, F), NEW n \in Nat
  PROVE  ReadsOf(cert, pr, F, n + 1) = ReadMore(pr, F, ReadsOf(cert, pr, F, n))
<1>1. ASSUME NEW q \in ReadsOf(cert, pr, F, n + 1) PROVE q \in ReadMore(pr, F, ReadsOf(cert, pr, F, n))
  <2>1. /\ q = [source |-> q.source, word |-> q.word, state |-> q.state] /\ q.source \in 1 .. pr.vertices
        /\ q.word \in Words /\ q.state \in States(pr, F)
        /\ Len(q.word) = n + 1 /\ Follows(cert, StartState(q.source), q.word, q.state)
    BY <1>1 DEF ReadsOf
  <2>2. PICK x \in Words : x = q.word
    BY <2>1
  <2>3. PICK y \in Words : \E a \in Nat : x = Append(y, a) /\ Len(y) = n
    <3>1. n + 1 \in 0 .. Len(x) /\ n + 1 # 0 /\ (n + 1) - 1 = n /\ n + 1 \in 1 .. Len(x) /\ n \in 0 .. Len(x)
      BY <2>1, <2>2
    <3> DEFINE z == SubSeq(x, 1, n + 1)
               y == SubSeq(x, 1, n)
    <3>2. z \in Words /\ Len(z) = n + 1 /\ (\A i \in 1 .. n + 1 : z[i] = x[i]) /\ z = Append(y, x[n + 1])
      BY <3>1, StartOfWord
    <3>3. y \in Words /\ Len(y) = n
      BY <3>1, StartOfWord
    <3>4. x[n + 1] \in Nat
      BY <3>1, ElementOfSeq DEF Words
    <3> HIDE DEF y, z
    <3>5. z = x
      BY <2>1, <2>2, <3>2, WordEqual
    <3> QED BY <3>2, <3>3, <3>4, <3>5
  <2>4. PICK a \in Nat : x = Append(y, a) /\ Len(y) = n
    BY <2>3
  <2>5. PICK u : Follows(cert, StartState(q.source), y, u) /\ Moves(cert, u, a, q.state)
    BY <2>1, <2>2, <2>4, FollowsAppend
  <2>6. StartState(q.source) \in States(pr, F)
    BY <2>1, StatesAre
  <2>7. u \in States(pr, F)
    BY <2>5, <2>6, FollowsPath
  <2>8. a \in ArrowsFrom(pr, u.vertex) /\ q.state \in After(pr, F, u, a)
    BY <2>5, <2>7, MovesAgree
  <2>9. PICK r : r = [source |-> q.source, word |-> y, state |-> u]
    OBVIOUS
  <2>10. r.source = q.source /\ r.word = y /\ r.state = u
    BY <2>9
  <2>11. r \in ReadsOf(cert, pr, F, n)
    BY <2>1, <2>4, <2>5, <2>7, <2>9, <2>10 DEF ReadsOf
  <2>12. q = ReadOn(r, a, q.state)
    BY <2>1, <2>2, <2>4, <2>10 DEF ReadOn
  <2> QED BY <2>8, <2>10, <2>11, <2>12, ReadMoreIs
<1>2. ASSUME NEW r \in ReadsOf(cert, pr, F, n), NEW a \in ArrowsFrom(pr, r.state.vertex),
             NEW t \in After(pr, F, r.state, a)
      PROVE  ReadOn(r, a, t) \in ReadsOf(cert, pr, F, n + 1)
  <2>1. /\ r.source \in 1 .. pr.vertices /\ r.word \in Words /\ r.state \in States(pr, F) /\ Len(r.word) = n
        /\ Follows(cert, StartState(r.source), r.word, r.state)
    BY <1>2 DEF ReadsOf
  <2>2. Moves(cert, r.state, a, t)
    BY <2>1, MovesAgree
  <2>3. a \in Nat /\ t \in States(pr, F)
    BY <2>1, <2>2, MoveGives
  <2>4. PICK y \in Words : y = Append(r.word, a) /\ Len(y) = n + 1
    BY <2>1, <2>3, OneArrowMore
  <2>5. Follows(cert, StartState(r.source), y, t)
    BY <2>1, <2>2, <2>3, <2>4, FollowsAppend
  <2>6. [source |-> r.source, word |-> y, state |-> t] \in ReadsOf(cert, pr, F, n + 1)
    BY <2>1, <2>3, <2>4, <2>5 DEF ReadsOf
  <2> QED BY <2>4, <2>6 DEF ReadOn
<1>3. ReadMore(pr, F, ReadsOf(cert, pr, F, n)) \subseteq ReadsOf(cert, pr, F, n + 1)
  BY <1>2, ReadMoreIs
<1> QED BY <1>1, <1>3

\* The readings of the model are those.
LEMMA ReadingsAre ==
  ASSUME NEW cert, NEW pr, NEW F, IsFor(cert, pr, F), NEW n \in Nat
  PROVE  Readings(pr, F, n) = ReadsOf(cert, pr, F, n)
<1>1. \E f : IsReadings(pr, F, n, f)
  <2> DEFINE f == [m \in 0 .. n |-> ReadsOf(cert, pr, F, m)]
  <2>1. f = [m \in 0 .. n |-> f[m]] /\ \A m \in 0 .. n : f[m] = ReadsOf(cert, pr, F, m)
    OBVIOUS
  <2> HIDE DEF f
  <2>2. ASSUME NEW m \in 0 .. n PROVE f[m] = IF m = 0 THEN ReadNone(pr) ELSE ReadMore(pr, F, f[m - 1])
    <3>1. CASE m = 0
      BY <2>1, <3>1, ReadsFirst
    <3>2. CASE m # 0
      <4>1. m - 1 \in Nat /\ (m - 1) + 1 = m /\ m - 1 \in 0 .. n
        BY <3>2
      <4>2. ReadsOf(cert, pr, F, (m - 1) + 1) = ReadMore(pr, F, ReadsOf(cert, pr, F, m - 1))
        BY <4>1, ReadsGrow
      <4> QED BY <2>1, <3>2, <4>1, <4>2
    <3> QED BY <3>1, <3>2
  <2> QED BY <2>1, <2>2 DEF IsReadings
<1>2. PICK h : h = CHOOSE f : IsReadings(pr, F, n, f)
  OBVIOUS
<1>3. IsReadings(pr, F, n, h)
  BY <1>1, <1>2
<1>4. Readings(pr, F, n) = h[n]
  BY <1>2 DEF Readings, IsReadings, ReadNone, ReadMore, ReadOn
<1> DEFINE P == {m \in 0 .. n : h[m] = ReadsOf(cert, pr, F, m)}
<1>5. 0 \in P
  <2>1. h[0] = ReadNone(pr)
    BY <1>3 DEF IsReadings
  <2> QED BY <2>1, ReadsFirst
<1>6. ASSUME NEW m \in 1 .. n, m - 1 \in P PROVE m \in P
  <2>1. m \in 0 .. n /\ m # 0 /\ m - 1 \in Nat /\ (m - 1) + 1 = m
    OBVIOUS
  <2>2. h[m] = ReadMore(pr, F, h[m - 1])
    BY <1>3, <2>1 DEF IsReadings
  <2>3. ReadsOf(cert, pr, F, (m - 1) + 1) = ReadMore(pr, F, ReadsOf(cert, pr, F, m - 1))
    BY <2>1, ReadsGrow
  <2> QED BY <1>6, <2>1, <2>2, <2>3
<1>7. 0 .. n \subseteq P
  <2> HIDE DEF P
  <2> QED BY <1>5, <1>6, IntervalInduction
<1> QED BY <1>4, <1>7

\* A state that n arrows lead to is read in n arrows.
LEMMA ReachedIsRead ==
  ASSUME NEW cert, NEW pr, NEW F, IsFor(cert, pr, F), NEW n \in Nat, NEW s \in Reached(pr, F, n)
  PROVE  \E r \in Readings(pr, F, n) : r.state = s
<1> DEFINE P == {m \in Nat : \A t \in Reached(pr, F, m) : \E r \in ReadsOf(cert, pr, F, m) : r.state = t}
<1>0. PICK S : S = States(pr, F)
  OBVIOUS
<1>1. 0 \in P
  <2>1. ASSUME NEW t \in Reached(pr, F, 0) PROVE \E r \in ReadsOf(cert, pr, F, 0) : r.state = t
    <3>1. t \in {StartState(v) : v \in 1 .. pr.vertices}
      BY <1>0, ReachedGrows, StatesAre
    <3>2. PICK v \in 1 .. pr.vertices : t = StartState(v)
      BY <3>1
    <3>3. [source |-> v, word |-> <<>>, state |-> StartState(v)] \in ReadsOf(cert, pr, F, 0)
      BY ReadsFirst DEF ReadNone
    <3> QED BY <3>2, <3>3
  <2> QED BY <2>1
<1>2. ASSUME NEW m \in Nat, m \in P PROVE m + 1 \in P
  <2>1. ASSUME NEW t \in Reached(pr, F, m + 1) PROVE \E r \in ReadsOf(cert, pr, F, m + 1) : r.state = t
    <3>1. Reached(pr, F, m) \in SUBSET S /\ Reached(pr, F, m + 1) = NextTo(SuccOf(cert, S), Reached(pr, F, m))
      BY <1>0, ReachedGrows
    <3>2. PICK u \in Reached(pr, F, m) : t \in Successors(cert, u)
      BY <2>1, <3>1 DEF NextTo, SuccOf
    <3>3. u \in States(pr, F)
      BY <1>0, <3>1
    <3>4. PICK a : Moves(cert, u, a, t)
      BY <3>2, <3>3, SuccessorIs
    <3>5. a \in ArrowsFrom(pr, u.vertex) /\ t \in After(pr, F, u, a)
      BY <3>3, <3>4, MovesAgree
    <3>6. PICK r \in ReadsOf(cert, pr, F, m) : r.state = u
      BY <1>2
    <3>7. ReadOn(r, a, t) \in ReadMore(pr, F, ReadsOf(cert, pr, F, m))
      BY <3>5, <3>6, ReadMoreIs
    <3>8. ReadOn(r, a, t) \in ReadsOf(cert, pr, F, m + 1)
      BY <3>7, ReadsGrow
    <3> QED BY <3>8 DEF ReadOn
  <2> QED BY <2>1
<1>3. Nat \subseteq P
  <2> HIDE DEF P
  <2> QED BY <1>1, <1>2, SetInduction
<1>4. \E r \in ReadsOf(cert, pr, F, n) : r.state = s
  BY <1>3
<1> QED BY <1>4, ReadingsAre

-----------------------------------------------------------------------------
(* The witness of a cycle.                                                 *)

\* the recursion and the choices of the witness
FirstOf(C) == CHOOSE s \in C : \A t \in C \ {s} : StateLess(s, t)

ArrowOf(pr, F, C, s) == Min({a \in ArrowsFrom(pr, s.vertex) : After(pr, F, s, a) \cap C # {}})

NextOf(pr, F, C, s) == CHOOSE t \in C : t \in After(pr, F, s, ArrowOf(pr, F, C, s))

IsWalk(pr, F, C, n, f) == f = [k \in 0 .. n |-> IF k = 0 THEN FirstOf(C) ELSE NextOf(pr, F, C, f[k - 1])]

EndOf(n, f) == Min({k \in 1 .. n : \E m \in 0 .. k - 1 : f[m] = f[k]})

EntryOf(f, e) == CHOOSE m \in 0 .. e - 1 : f[m] = f[e]

DepthOf(pr, F, s) == Min({n \in 0 .. Cardinality(States(pr, F)) : s \in Reached(pr, F, n)})

PrefixOf(pr, F, s) == (CHOOSE r \in Readings(pr, F, DepthOf(pr, F, s)) : r.state = s).word

CycleOf(pr, F, C, f, m, e) == [k \in 1 .. e - m |-> ArrowOf(pr, F, C, f[m + k - 1])]

\* The smallest arrow that goes on leads to a live state.
LEMMA GoesOn ==
  ASSUME NEW cert, NEW pr, NEW F, IsFor(cert, pr, F), NEW C, C = LiveStates(pr, F), NEW s \in C
  PROVE  /\ s \in States(pr, F) /\ NextOf(pr, F, C, s) \in C /\ ArrowOf(pr, F, C, s) \in Nat
         /\ Moves(cert, s, ArrowOf(pr, F, C, s), NextOf(pr, F, C, s))
<1>0. PICK S : S = States(pr, F)
  OBVIOUS
<1>1. C \subseteq S /\ Thrives(SuccOf(cert, S), C)
  BY <1>0, LiveIsCore DEF IsCore
<1> DEFINE A == {a \in ArrowsFrom(pr, s.vertex) : After(pr, F, s, a) \cap C # {}}
<1>2. A # {}
  <2>1. PICK t \in C : t \in Successors(cert, s)
    BY <1>1 DEF Thrives, SuccOf
  <2>2. PICK a : Moves(cert, s, a, t)
    BY <1>0, <1>1, <2>1, SuccessorIs
  <2>3. a \in ArrowsFrom(pr, s.vertex) /\ t \in After(pr, F, s, a)
    BY <1>0, <1>1, <2>2, MovesAgree
  <2> QED BY <2>1, <2>3
<1>3. A \in SUBSET Nat
  <2>1. \A a \in A : a \in Nat
    BY ArrowIs DEF ArrowsFrom
  <2> QED BY <2>1
<1>4. ArrowOf(pr, F, C, s) \in A
  <2>1. ArrowOf(pr, F, C, s) = Min(A)
    BY DEF ArrowOf
  <2> HIDE DEF A
  <2> QED BY <1>2, <1>3, <2>1, MinIs
<1>5. NextOf(pr, F, C, s) \in C /\ NextOf(pr, F, C, s) \in After(pr, F, s, ArrowOf(pr, F, C, s))
  BY <1>4 DEF NextOf
<1>6. Moves(cert, s, ArrowOf(pr, F, C, s), NextOf(pr, F, C, s))
  BY <1>0, <1>1, <1>4, <1>5, MovesAgree
<1> QED BY <1>0, <1>1, <1>3, <1>4, <1>5, <1>6

\* The walk among the live states.
LEMMA WalkIs ==
  ASSUME NEW cert, NEW pr, NEW F, IsFor(cert, pr, F), NEW C, C = LiveStates(pr, F), C # {}, NEW n \in Nat,
         NEW h, h = CHOOSE f : IsWalk(pr, F, C, n, f)
  PROVE  h \in [0 .. n -> C] /\ \A k \in 1 .. n : h[k] = NextOf(pr, F, C, h[k - 1])
<1> DEFINE first == FirstOf(C)
           step == [s \in C |-> NextOf(pr, F, C, s)]
<1>1. first \in C
  <2>1. C \in SUBSET States(pr, F)
    BY LiveIsCore DEF IsCore
  <2>2. \E s \in C : \A t \in C \ {s} : StateLess(s, t)
    BY <2>1, FirstState
  <2> QED BY <2>2 DEF FirstOf
<1>2. step \in [C -> C] /\ \A s \in C : step[s] = NextOf(pr, F, C, s)
  BY GoesOn
<1> HIDE DEF step
<1>3. \E f : IsWalk(pr, F, C, n, f)
  <2>1. PICK g \in [0 .. n -> C] : IsIterated(g, n, first, step)
    <3>1. first \in C /\ step \in [C -> C] /\ n \in Nat
      BY <1>1, <1>2
    <3> HIDE DEF first
    <3> QED BY ONLY <3>1, IteratesExist
  <2>2. \A k \in 0 .. n : k # 0 => g[k - 1] \in C
    OBVIOUS
  <2>3. \A k \in 0 .. n : k # 0 => step[g[k - 1]] = NextOf(pr, F, C, g[k - 1])
    BY <1>2, <2>2
  <2>4. g = [k \in 0 .. n |-> IF k = 0 THEN first ELSE step[g[k - 1]]]
    BY <2>1 DEF IsIterated
  <2>5. g = [k \in 0 .. n |-> IF k = 0 THEN first ELSE NextOf(pr, F, C, g[k - 1])]
    BY <2>3, <2>4
  <2>6. IsWalk(pr, F, C, n, g)
    BY <2>5 DEF IsWalk
  <2> QED BY <2>6
<1>5. IsWalk(pr, F, C, n, h)
  BY <1>3
<1>6. Iterates(h, n, C, first, step)
  <2>1. h = [k \in 0 .. n |-> h[k]] /\ h[0] = first
    BY <1>5, SMTT(30) DEF IsWalk
  <2>2. ASSUME NEW k \in 1 .. n, h[k - 1] \in C PROVE h[k] = step[h[k - 1]]
    <3>1. k \in 0 .. n /\ k # 0
      OBVIOUS
    <3>2. h[k] = NextOf(pr, F, C, h[k - 1])
      BY <1>5, <3>1 DEF IsWalk
    <3> QED BY <1>2, <2>2, <3>2
  <2> QED BY <2>1, <2>2 DEF Iterates
<1>7. h \in [0 .. n -> C] /\ \A k \in 1 .. n : h[k] = step[h[k - 1]]
  <2>1. first \in C /\ step \in [C -> C] /\ n \in Nat
    BY <1>1, <1>2
  <2> HIDE DEF first
  <2> QED BY ONLY <1>6, <2>1, IteratesIs
<1>8. ASSUME NEW k \in 1 .. n PROVE h[k] = NextOf(pr, F, C, h[k - 1])
  <2>1. k - 1 \in 0 .. n
    OBVIOUS
  <2>2. h[k - 1] \in C
    BY <1>7, <2>1
  <2> QED BY <1>2, <1>7, <2>2
<1> QED BY <1>7, <1>8

\* The prefix leads to its state.
LEMMA PrefixIs ==
  ASSUME NEW cert, NEW pr, NEW F, IsFor(cert, pr, F), NEW s \in States(pr, F)
  PROVE  PrefixOf(pr, F, s) \in Words /\ \E v \in 1 .. pr.vertices :
           Follows(cert, StartState(v), PrefixOf(pr, F, s), s)
<1> DEFINE N == Cardinality(States(pr, F))
           D == {n \in 0 .. N : s \in Reached(pr, F, n)}
<1>1. N \in Nat
  BY StatesAreGraph
<1>2. D # {}
  <2>1. s \in ReachableIn(pr, F)
    BY AllReachableIn
  <2>2. PICK n \in 0 .. N - 1 : s \in Reached(pr, F, n)
    BY <2>1 DEF ReachableIn
  <2>3. n \in 0 .. N
    BY <1>1
  <2> QED BY <2>2, <2>3
<1>3. PICK d : d = DepthOf(pr, F, s)
  OBVIOUS
<1>4. d \in Nat /\ s \in Reached(pr, F, d)
  <2>1. d = Min(D) /\ D \in SUBSET Nat
    BY <1>1, <1>3 DEF DepthOf
  <2>2. d \in D
    <3> HIDE DEF D
    <3> QED BY <1>2, <2>1, MinIs
  <2> QED BY <1>1, <2>2
<1>5. \E r \in Readings(pr, F, d) : r.state = s
  BY <1>4, ReachedIsRead
<1>6. PICK r : r = CHOOSE q \in Readings(pr, F, d) : q.state = s
  OBVIOUS
<1>7. r \in Readings(pr, F, d) /\ r.state = s
  BY <1>5, <1>6
<1>8. PrefixOf(pr, F, s) = r.word
  BY <1>3, <1>6 DEF PrefixOf
<1>9. r \in ReadsOf(cert, pr, F, d)
  BY <1>4, <1>7, ReadingsAre
<1>10. r.word \in Words /\ r.source \in 1 .. pr.vertices /\ Follows(cert, StartState(r.source), r.word, r.state)
  BY <1>9 DEF ReadsOf
<1> QED BY <1>7, <1>8, <1>10

\* Part of the walk, from a state back to it, is a cycle.
LEMMA CycleIs ==
  ASSUME NEW cert, NEW pr, NEW F, IsFor(cert, pr, F), NEW C, C = LiveStates(pr, F), NEW n \in Nat,
         NEW f \in [0 .. n -> C], \A k \in 1 .. n : f[k] = NextOf(pr, F, C, f[k - 1]),
         NEW e \in 1 .. n, NEW m \in 0 .. e - 1
  PROVE  /\ CycleOf(pr, F, C, f, m, e) \in Words /\ CycleOf(pr, F, C, f, m, e) # EmptyWord
         /\ Follows(cert, f[m], CycleOf(pr, F, C, f, m, e), f[e])
<1> DEFINE c == CycleOf(pr, F, C, f, m, e)
           h == [k \in 0 .. e - m |-> f[m + k]]
<1>1. PICK l \in Nat : l = e - m /\ l >= 1
  OBVIOUS
<1>2. m \in Nat /\ e \in Nat /\ e <= n /\ m + l = e
  BY <1>1
<1>3. ASSUME NEW k \in 1 .. l
      PROVE  /\ f[m + k - 1] \in C /\ m + (k - 1) = m + k - 1
             /\ f[m + k] = NextOf(pr, F, C, f[m + k - 1])
  <2>1. m + k \in 1 .. n /\ (m + k) - 1 = m + k - 1 /\ m + k - 1 \in 0 .. n /\ m + (k - 1) = m + k - 1
    BY <1>1, <1>2
  <2> QED BY <2>1
<1>4. c = [k \in 1 .. l |-> ArrowOf(pr, F, C, f[m + k - 1])]
  BY <1>1 DEF CycleOf
<1>5. c \in Words /\ Len(c) = l
  <2>1. \A k \in 1 .. l : ArrowOf(pr, F, C, f[m + k - 1]) \in Nat
    BY <1>3, GoesOn
  <2> HIDE DEF c
  <2>2. c \in [1 .. l -> Nat]
    BY <1>4, <2>1
  <2>a. l \in Nat
    OBVIOUS
  <2>3. c \in Seq(Nat) /\ Len(c) = l
    BY ONLY <2>a, <2>2
  <2> QED BY <2>3 DEF Words
<1>6. h[0] = f[m] /\ h[l] = f[e] /\ \A k \in 0 .. l : h[k] = f[m + k]
  BY <1>1, <1>2
<1> HIDE DEF c, h
<1>7. ASSUME NEW k \in 1 .. Len(c) PROVE Moves(cert, h[k - 1], c[k], h[k])
  <2>1. k \in 1 .. l /\ k - 1 \in 0 .. l /\ k \in 0 .. l
    BY <1>5
  <2>2. h[k - 1] = f[m + k - 1] /\ h[k] = f[m + k]
    BY <1>3, <1>6, <2>1
  <2>3. c[k] = ArrowOf(pr, F, C, f[m + k - 1])
    BY <1>4, <2>1
  <2>4. PICK s \in C : s = f[m + k - 1]
    BY <1>3, <2>1
  <2>5. Moves(cert, s, ArrowOf(pr, F, C, s), NextOf(pr, F, C, s))
    BY GoesOn
  <2>6. h[k] = NextOf(pr, F, C, s)
    BY <1>3, <2>1, <2>2, <2>4
  <2> QED BY <2>2, <2>3, <2>4, <2>5, <2>6
<1>8. c # EmptyWord
  <2>1. Len(EmptyWord) = 0
    BY DEF EmptyWord
  <2> QED BY <1>1, <1>5, <2>1
<1>9. Follows(cert, f[m], c, f[e])
  <2>1. IsRunOf(cert, h, c)
    BY <1>7 DEF IsRunOf
  <2> QED BY <1>5, <1>6, <2>1 DEF Follows
<1> QED BY <1>5, <1>8, <1>9 DEF c

\* what a witness is: a word from a vertex to a state, and one from there back
IsWitness(cert, pr, F, witness) ==
  \E s \in States(pr, F) : \E v \in 1 .. pr.vertices :
    /\ witness.prefix \in Words /\ witness.cycle \in Words /\ witness.cycle # EmptyWord
    /\ Follows(cert, StartState(v), witness.prefix, s)
    /\ Follows(cert, s, witness.cycle, s)

\* The witness of the engine is one.
LEMMA WitnessIs ==
  ASSUME NEW cert, NEW pr, NEW F, IsFor(cert, pr, F), ~IsFiniteLanguage(pr, F)
  PROVE  IsWitness(cert, pr, F, CycleWitness(pr, F))
<1>1. PICK C : C = LiveStates(pr, F)
  OBVIOUS
<1>2. PICK n : n = Cardinality(C)
  OBVIOUS
<1>3. PICK f : f = CHOOSE g : IsWalk(pr, F, C, n, g)
  OBVIOUS
<1>4. PICK e : e = EndOf(n, f)
  OBVIOUS
<1>5. PICK m : m = EntryOf(f, e)
  BY SMTT(30)
<1>6. CycleWitness(pr, F) = [prefix |-> PrefixOf(pr, F, f[e]), cycle |-> CycleOf(pr, F, C, f, m, e)]
  BY <1>1, <1>2, <1>3, <1>4, <1>5
     DEF CycleWitness, FirstOf, ArrowOf, NextOf, IsWalk, EndOf, EntryOf, DepthOf, PrefixOf, CycleOf
<1>7. C # {} /\ C \in SUBSET States(pr, F) /\ IsFiniteSet(C) /\ n \in Nat
  <2>1. C # {} /\ C \in SUBSET States(pr, F)
    BY <1>1, LiveIsCore DEF IsFiniteLanguage, IsCore
  <2>2. IsFiniteSet(States(pr, F))
    BY StatesAreGraph
  <2>3. IsFiniteSet(C)
    BY <2>1, <2>2, FS_Subset
  <2> QED BY <1>2, <2>1, <2>3, FS_CardinalityType
<1>8. f \in [0 .. n -> C] /\ \A k \in 1 .. n : f[k] = NextOf(pr, F, C, f[k - 1])
  BY <1>1, <1>3, <1>7, WalkIs
<1>9. e \in 1 .. n /\ \E k \in 0 .. e - 1 : f[k] = f[e]
  <2> DEFINE E == {k \in 1 .. n : \E j \in 0 .. k - 1 : f[j] = f[k]}
  <2>1. \E j \in 1 .. n : \E i \in 0 .. j - 1 : f[i] = f[j]
    <3>1. n >= Cardinality(C)
      BY <1>2, <1>7
    <3> QED BY <1>7, <1>8, <3>1, WalkReturns
  <2>2. E # {} /\ E \in SUBSET Nat /\ e = Min(E)
    BY <1>4, <2>1 DEF EndOf
  <2>3. e \in E
    <3> HIDE DEF E
    <3> QED BY <2>2, MinIs
  <2> QED BY <2>3
<1>10. m \in 0 .. e - 1 /\ f[m] = f[e]
  BY <1>5, <1>9 DEF EntryOf
<1>11. PICK s \in States(pr, F) : s = f[e]
  BY <1>7, <1>8, <1>9
<1>12. PICK c : c = CycleOf(pr, F, C, f, m, e)
  OBVIOUS
<1>13. c \in Words /\ c # EmptyWord /\ Follows(cert, s, c, s)
  BY <1>1, <1>7, <1>8, <1>9, <1>10, <1>11, <1>12, CycleIs
<1>14. PICK x : x = PrefixOf(pr, F, s)
  OBVIOUS
<1>15. x \in Words /\ \E v \in 1 .. pr.vertices : Follows(cert, StartState(v), x, s)
  BY <1>11, <1>14, PrefixIs
<1>16. CycleWitness(pr, F).prefix = x /\ CycleWitness(pr, F).cycle = c
  BY <1>6, <1>11, <1>12, <1>14
<1> QED BY <1>13, <1>15, <1>16 DEF IsWitness

\* The replay reads the normal words and no other ones.
LEMMA ReplayIsNormal ==
  ASSUME NEW cert, NEW pr, NEW F, IsFor(cert, pr, F), NEW v \in 1 .. pr.vertices, NEW x \in Words,
         x # EmptyWord => pr.arrows[x[1]][1] = v
  PROVE  ReadFrom(cert, StartState(v), x) # {} <=> IsNormal(pr, F, x)
<1>1. PICK s \in Starts(cert) : s = StartState(v) /\ s \in States(pr, F) /\ s.vertex = v
  <2>1. PICK s \in Starts(cert) : s = StartState(v) /\ s \in States(pr, F)
    BY StatesAre
  <2>2. StartState(v).vertex = v
    BY DEF StartState
  <2> QED BY <2>1, <2>2
<1>2. \A t : t \in ReadFrom(cert, s, x) <=> Follows(cert, s, x, t)
  BY <1>1, ReadFromIs
<1>3. (\E t : Follows(cert, s, x, t)) => IsNormal(pr, F, x)
  BY ReadsNormal
<1>4. IsNormal(pr, F, x) => \E t : Follows(cert, s, x, t)
  BY <1>1, NormalIsRead
<1> QED BY <1>1, <1>2, <1>3, <1>4

-----------------------------------------------------------------------------
(* Lists of words in their order.                                          *)

\* the words of S in their order, each of them once
IsListing(q, S) ==
  /\ q \in Seq(Words)
  /\ \A k \in DOMAIN q : q[k] \in S
  /\ \A w \in S : \E k \in DOMAIN q : q[k] = w
  /\ \A j, k \in DOMAIN q : j < k => WordLess(q[j], q[k])

\* What a list is made of.
LEMMA ListIs ==
  ASSUME NEW V, NEW q \in Seq(V)
  PROVE  /\ Len(q) \in Nat /\ DOMAIN q = 1 .. Len(q)
         /\ \A k \in 1 .. Len(q) : q[k] \in V
  BY LenProperties, ElementOfSeq

\* There is one list of a set.
LEMMA ListedOnce ==
  ASSUME NEW S, NEW q, NEW r, IsListing(q, S), IsListing(r, S)
  PROVE  q = r
<1>1. /\ Len(q) \in Nat /\ DOMAIN q = 1 .. Len(q) /\ \A k \in 1 .. Len(q) : q[k] \in Words
      /\ Len(r) \in Nat /\ DOMAIN r = 1 .. Len(r) /\ \A k \in 1 .. Len(r) : r[k] \in Words
  BY ListIs DEF IsListing
<1>2. /\ \A k \in 1 .. Len(q) : q[k] \in S
      /\ \A w \in S : \E k \in 1 .. Len(q) : q[k] = w
      /\ \A j, k \in 1 .. Len(q) : j < k => WordLess(q[j], q[k])
  BY <1>1 DEF IsListing
<1>3. /\ \A k \in 1 .. Len(r) : r[k] \in S
      /\ \A w \in S : \E k \in 1 .. Len(r) : r[k] = w
      /\ \A j, k \in 1 .. Len(r) : j < k => WordLess(r[j], r[k])
  BY <1>1 DEF IsListing
<1> DEFINE P == {i \in Nat : \A k \in 1 .. i : (k <= Len(q) <=> k <= Len(r)) /\ (k <= Len(q) => q[k] = r[k])}
<1>4. 0 \in P
  OBVIOUS
<1>5. ASSUME NEW i \in Nat, i \in P PROVE i + 1 \in P
  <2>1. \A k \in 1 .. i : (k <= Len(q) <=> k <= Len(r)) /\ (k <= Len(q) => q[k] = r[k])
    BY <1>5
  <2> HIDE DEF P
  <2> PICK n : n = i + 1 /\ n \in Nat /\ n > 0
    OBVIOUS
  <2>2. n <= Len(q) => \E m \in 1 .. Len(r) : r[m] = q[n] /\ m >= n
    <3> SUFFICES ASSUME n <= Len(q) PROVE \E m \in 1 .. Len(r) : r[m] = q[n] /\ m >= n
      OBVIOUS
    <3>1. n \in 1 .. Len(q)
      BY <1>1
    <3>2. PICK m \in 1 .. Len(r) : r[m] = q[n]
      BY <1>2, <1>3, <3>1
    <3>3. m >= n
      <4> SUFFICES ASSUME m < n PROVE FALSE
        BY <1>1
      <4>1. m \in 1 .. i /\ m \in 1 .. Len(q)
        BY <1>1
      <4>2. q[m] = r[m]
        BY <1>1, <2>1, <4>1
      <4>3. WordLess(q[m], q[n])
        BY <1>2, <3>1, <4>1
      <4> QED BY <1>1, <3>1, <3>2, <4>2, <4>3, WordOrder
    <3> QED BY <3>2, <3>3
  <2>3. n <= Len(r) => \E m \in 1 .. Len(q) : q[m] = r[n] /\ m >= n
    <3> SUFFICES ASSUME n <= Len(r) PROVE \E m \in 1 .. Len(q) : q[m] = r[n] /\ m >= n
      OBVIOUS
    <3>1. n \in 1 .. Len(r)
      BY <1>1
    <3>2. PICK m \in 1 .. Len(q) : q[m] = r[n]
      BY <1>2, <1>3, <3>1
    <3>3. m >= n
      <4> SUFFICES ASSUME m < n PROVE FALSE
        BY <1>1
      <4>1. m \in 1 .. i /\ m \in 1 .. Len(r)
        BY <1>1, <2>1
      <4>2. q[m] = r[m]
        BY <1>1, <2>1, <4>1
      <4>3. WordLess(r[m], r[n])
        BY <1>3, <3>1, <4>1
      <4> QED BY <1>1, <3>1, <3>2, <4>2, <4>3, WordOrder
    <3> QED BY <3>2, <3>3
  <2>4. n <= Len(q) <=> n <= Len(r)
    BY <1>1, <2>2, <2>3
  <2>5. ASSUME n <= Len(q) PROVE q[n] = r[n]
    <3>1. PICK m \in 1 .. Len(r) : r[m] = q[n] /\ m >= n
      BY <2>2, <2>5
    <3>2. PICK k \in 1 .. Len(q) : q[k] = r[n] /\ k >= n
      BY <2>3, <2>4, <2>5
    <3>3. n \in 1 .. Len(q) /\ n \in 1 .. Len(r)
      BY <1>1, <2>4, <2>5
    <3>4. m = n \/ WordLess(r[n], r[m])
      BY <1>1, <1>3, <3>1, <3>3
    <3>5. k = n \/ WordLess(q[n], q[k])
      BY <1>1, <1>2, <3>2, <3>3
    <3>6. q[n] \in Words /\ r[n] \in Words
      BY <1>1, <3>3
    <3> QED BY <3>1, <3>2, <3>4, <3>5, <3>6, WordOrder
  <2>6. \A k \in 1 .. i + 1 : (k <= Len(q) <=> k <= Len(r)) /\ (k <= Len(q) => q[k] = r[k])
    <3> SUFFICES ASSUME NEW k \in 1 .. i + 1 PROVE (k <= Len(q) <=> k <= Len(r)) /\ (k <= Len(q) => q[k] = r[k])
      OBVIOUS
    <3>1. k \in 1 .. i \/ k = n
      OBVIOUS
    <3> QED BY <2>1, <2>4, <2>5, <3>1
  <2> QED BY <2>6 DEF P
<1>6. Nat \subseteq P
  <2> HIDE DEF P
  <2> QED BY <1>4, <1>5, SetInduction
<1>7. PICK n \in Nat : n >= Len(q) /\ n >= Len(r)
  BY <1>1
<1>8. \A k \in 1 .. n : (k <= Len(q) <=> k <= Len(r)) /\ (k <= Len(q) => q[k] = r[k])
  BY <1>6
<1>9. Len(q) = Len(r)
  <2>1. Len(q) # 0 => Len(q) <= Len(r)
    <3> SUFFICES ASSUME Len(q) # 0 PROVE Len(q) <= Len(r)
      OBVIOUS
    <3>1. Len(q) \in 1 .. n /\ Len(q) <= Len(q)
      BY <1>1, <1>7
    <3> QED BY <1>8, <3>1
  <2>2. Len(r) # 0 => Len(r) <= Len(q)
    <3> SUFFICES ASSUME Len(r) # 0 PROVE Len(r) <= Len(q)
      OBVIOUS
    <3>1. Len(r) \in 1 .. n /\ Len(r) <= Len(r)
      BY <1>1, <1>7
    <3> QED BY <1>8, <3>1
  <2>3. Len(q) \in Nat /\ Len(r) \in Nat
    BY <1>1
  <2> QED BY ONLY <2>1, <2>2, <2>3
<1>10. \A k \in 1 .. Len(q) : q[k] = r[k]
  BY <1>1, <1>7, <1>8
<1>11. q \in Seq(Words) /\ r \in Seq(Words)
  BY DEF IsListing
<1> QED BY <1>9, <1>10, <1>11

\* A sorted set is the list of its words.
LEMMA SortedLists ==
  ASSUME NEW S, IsFiniteSet(S), NEW L, HaveDistinctWords(S, L), NEW order, IsSorting(S, L, order),
         NEW q, q = [k \in DOMAIN order |-> L[order[k]]]
  PROVE  /\ \A k \in DOMAIN order : order[k] \in S
         /\ IsListing(q, {L[x] : x \in S})
<1>1. Cardinality(S) \in Nat /\ Lists(order, Cardinality(S), S) /\ AreRanked(S, L, order)
  BY SortedIs
<1> PICK n \in Nat : n = Cardinality(S)
  BY <1>1
<1>2. /\ DOMAIN order = 1 .. n /\ \A m \in 1 .. n : order[m] \in S
      /\ \A x \in S : \E m \in 1 .. n : order[m] = x
  BY <1>1 DEF Lists
<1>0. \A m \in 1 .. n : RankIn(S, L, order[m]) = m - 1
  <2>1. AreRanked(S, L, order)
    BY <1>1
  <2>2. DOMAIN order = 1 .. n
    BY <1>2
  <2> QED BY ONLY <2>1, <2>2 DEF AreRanked
<1>3. (\A x \in S : L[x] \in Words) /\ (\A x, y \in S : x # y => L[x] # L[y])
  BY DEF HaveDistinctWords
<1>4. q = [k \in 1 .. n |-> L[order[k]]]
  BY <1>2
<1>5. q \in [1 .. n -> Words] /\ DOMAIN q = 1 .. n
  BY <1>2, <1>3, <1>4
<1>6. q \in Seq(Words)
  BY ONLY <1>5, n \in Nat
<1>7. ASSUME NEW j \in 1 .. n, NEW k \in 1 .. n, j < k PROVE WordLess(q[j], q[k])
  <2> DEFINE Before(x) == {y \in S : WordLess(L[y], L[x])}
  <2> PICK x \in S : x = order[j] /\ q[j] = L[x]
    BY <1>2, <1>4
  <2> PICK y \in S : y = order[k] /\ q[k] = L[y]
    BY <1>2, <1>4
  <2>1. x # y
    BY <1>1, <1>2, <1>7 DEF Lists
  <2>2. Cardinality(Before(x)) = j - 1 /\ Cardinality(Before(y)) = k - 1
    <3>1. RankIn(S, L, x) = j - 1 /\ RankIn(S, L, y) = k - 1
      BY <1>0
    <3> QED BY <3>1 DEF RankIn
  <2>3. ASSUME WordLess(L[y], L[x]) PROVE FALSE
    <3>1. Before(y) \in SUBSET Before(x) /\ IsFiniteSet(Before(x))
      BY <1>3, <2>3, WordOrder, FS_Subset
    <3> HIDE DEF Before
    <3>2. Cardinality(Before(y)) <= Cardinality(Before(x))
      BY <3>1, FS_Subset
    <3> QED BY <1>7, <2>2, <3>2
  <2> QED BY <1>3, <2>1, <2>3, WordOrder
<1>8. \A w \in {L[x] : x \in S} : \E k \in 1 .. n : q[k] = w
  <2> SUFFICES ASSUME NEW x \in S PROVE \E k \in 1 .. n : q[k] = L[x]
    OBVIOUS
  <2> QED BY <1>2, <1>4
<1>9. \A k \in 1 .. n : q[k] \in {L[x] : x \in S}
  BY <1>2, <1>4
<1> QED BY <1>2, <1>5, <1>6, <1>7, <1>8, <1>9 DEF IsListing

-----------------------------------------------------------------------------
(* Lists put one after the other.                                          *)

Join(q, r) == q \o r

\* x is q and then r
IsJoined(x, q, r) ==
  /\ Len(x) = Len(q) + Len(r) /\ Len(q) \in Nat /\ Len(r) \in Nat
  /\ DOMAIN x = 1 .. Len(x) /\ DOMAIN q = 1 .. Len(q) /\ DOMAIN r = 1 .. Len(r)
  /\ \A i \in 1 .. Len(q) : x[i] = q[i]
  /\ \A i \in 1 .. Len(r) : x[Len(q) + i] = r[i]

\* What is in two lists put one after the other.
LEMMA JoinIs ==
  ASSUME NEW V, NEW q \in Seq(V), NEW r \in Seq(V)
  PROVE  Join(q, r) \in Seq(V) /\ IsJoined(Join(q, r), q, r)
<1>1. /\ q \o r \in Seq(V) /\ Len(q \o r) = Len(q) + Len(r) /\ Len(q) \in Nat /\ Len(r) \in Nat
  OBVIOUS
<1>2. ASSUME NEW i \in 1 .. Len(q) PROVE (q \o r)[i] = q[i]
  <2>1. i \in 1 .. Len(q) + Len(r) /\ i <= Len(q)
    BY <1>1
  <2> QED BY <2>1
<1>3. ASSUME NEW i \in 1 .. Len(r) PROVE (q \o r)[Len(q) + i] = r[i]
  <2>1. Len(q) + i \in 1 .. Len(q) + Len(r) /\ ~(Len(q) + i <= Len(q)) /\ Len(q) + i - Len(q) = i
    BY <1>1
  <2> QED BY <2>1
<1>4. DOMAIN (q \o r) = 1 .. Len(q \o r) /\ DOMAIN q = 1 .. Len(q) /\ DOMAIN r = 1 .. Len(r)
  BY <1>1
<1> QED BY <1>1, <1>2, <1>3, <1>4 DEF Join, IsJoined

\* The place of an entry of two lists is in the one or in the other.
LEMMA JoinPlace ==
  ASSUME NEW m \in Nat, NEW n \in Nat, NEW i \in 1 .. m + n
  PROVE  i \in 1 .. m \/ \E k \in 1 .. n : i = m + k
<1>1. CASE i <= m
  BY <1>1
<1>2. CASE ~(i <= m)
  <2>1. i - m \in 1 .. n /\ i = m + (i - m)
    BY <1>2
  <2> QED BY <2>1
<1> QED BY <1>1, <1>2

\* Nothing, and one word.
LEMMA ShortListings ==
  /\ IsListing(<<>>, {})
  /\ \A w \in Words : IsListing(<<w>>, {w})
<1>1. IsListing(<<>>, {})
  BY DEF IsListing
<1>2. ASSUME NEW w \in Words PROVE IsListing(<<w>>, {w})
  <2>1. <<w>> \in Seq(Words) /\ DOMAIN <<w>> = {1} /\ <<w>>[1] = w
    OBVIOUS
  <2> PICK q : q = <<w>>
    OBVIOUS
  <2>2. \A j, k \in DOMAIN q : ~(j < k)
    BY <2>1
  <2> QED BY <2>1, <2>2 DEF IsListing
<1> QED BY <1>1, <1>2

\* The words of one set, and then those of another one that come after.
LEMMA ListingBoth ==
  ASSUME NEW S, NEW T, NEW q, NEW r, IsListing(q, S), IsListing(r, T),
         \A u \in S, w \in T : WordLess(u, w)
  PROVE  IsListing(Join(q, r), S \cup T)
<1>0. PICK x : x = Join(q, r)
  OBVIOUS
<1>1. q \in Seq(Words) /\ r \in Seq(Words)
  BY DEF IsListing
<1>2. /\ x \in Seq(Words) /\ Len(x) = Len(q) + Len(r) /\ Len(q) \in Nat /\ Len(r) \in Nat
      /\ \A i \in 1 .. Len(q) : x[i] = q[i]
      /\ \A i \in 1 .. Len(r) : x[Len(q) + i] = r[i]
      /\ DOMAIN q = 1 .. Len(q) /\ DOMAIN r = 1 .. Len(r) /\ DOMAIN x = 1 .. Len(q) + Len(r)
  <2>1. x \in Seq(Words) /\ IsJoined(x, q, r)
    BY <1>0, <1>1, JoinIs
  <2> QED BY <2>1 DEF IsJoined
<1>3. /\ \A k \in 1 .. Len(q) : q[k] \in S
      /\ \A w \in S : \E k \in 1 .. Len(q) : q[k] = w
      /\ \A j, k \in 1 .. Len(q) : j < k => WordLess(q[j], q[k])
  BY <1>2 DEF IsListing
<1>4. /\ \A k \in 1 .. Len(r) : r[k] \in T
      /\ \A w \in T : \E k \in 1 .. Len(r) : r[k] = w
      /\ \A j, k \in 1 .. Len(r) : j < k => WordLess(r[j], r[k])
  BY <1>2 DEF IsListing
<1>5. \A i \in 1 .. Len(q) + Len(r) : i \in 1 .. Len(q) \/ \E k \in 1 .. Len(r) : i = Len(q) + k
  BY <1>2, JoinPlace
<1>6. \A i \in DOMAIN x : x[i] \in S \cup T
  BY <1>2, <1>3, <1>4, <1>5
<1>7. ASSUME NEW w \in S \cup T PROVE \E k \in DOMAIN x : x[k] = w
  <2>1. CASE w \in S
    <3>1. PICK k \in 1 .. Len(q) : q[k] = w
      BY <1>3, <2>1
    <3>2. k \in 1 .. Len(q) + Len(r)
      BY <1>2
    <3> QED BY <1>2, <3>1, <3>2
  <2>2. CASE w \in T
    <3>1. PICK k \in 1 .. Len(r) : r[k] = w
      BY <1>4, <2>2
    <3>2. Len(q) + k \in 1 .. Len(q) + Len(r)
      BY <1>2
    <3> QED BY <1>2, <3>1, <3>2
  <2> QED BY <2>1, <2>2
<1>8. ASSUME NEW i \in DOMAIN x, NEW j \in DOMAIN x, i < j PROVE WordLess(x[i], x[j])
  <2>1. CASE i \in 1 .. Len(q) /\ j \in 1 .. Len(q)
    BY <1>2, <1>3, <1>8, <2>1
  <2>2. CASE i \in 1 .. Len(q) /\ \E k \in 1 .. Len(r) : j = Len(q) + k
    BY <1>2, <1>3, <1>4, <2>2
  <2>3. CASE (\E k \in 1 .. Len(r) : i = Len(q) + k) /\ (\E k \in 1 .. Len(r) : j = Len(q) + k)
    <3>1. PICK k \in 1 .. Len(r), n \in 1 .. Len(r) : i = Len(q) + k /\ j = Len(q) + n
      BY <2>3
    <3>2. k < n
      BY <1>2, <1>8, <3>1
    <3> QED BY <1>2, <1>4, <3>1, <3>2
  <2>4. CASE (\E k \in 1 .. Len(r) : i = Len(q) + k) /\ j \in 1 .. Len(q)
    BY <1>2, <1>8, <2>4
  <2> QED BY <1>2, <1>5, <2>1, <2>2, <2>3, <2>4
<1> QED BY <1>0, <1>2, <1>6, <1>7, <1>8 DEF IsListing

\* f[i] is the first i lists of qs together
Flattens(f, qs) ==
  /\ f[0] = <<>>
  /\ \A i \in 1 .. Len(qs) : f[i] = Join(f[i - 1], qs[i])
  /\ FlattenSeq(qs) = f[Len(qs)]

\* FLATTENSEQ puts the lists one after the other.
LEMMA FlattenIs ==
  ASSUME NEW V, NEW qs \in Seq(Seq(V))
  PROVE  \E f \in [0 .. Len(qs) -> Seq(V)] : Flattens(f, qs)
<1> DEFINE n == Len(qs)
           step == [i \in 1 .. n |-> [x \in Seq(V) |-> Join(x, qs[i])]]
           IsFlat(g) == g = [i \in 1 .. n |-> IF i = 1 THEN qs[i] ELSE g[i - 1] \o qs[i]]
<1>1. n \in Nat /\ \A i \in 1 .. n : qs[i] \in Seq(V)
  BY ListIs
<1>2. step \in [1 .. n -> [Seq(V) -> Seq(V)]]
  BY <1>1, JoinIs
<1>3. <<>> \in Seq(V)
  OBVIOUS
<1>4. PICK f \in [0 .. n -> Seq(V)] : Computes(f, n, <<>>, step)
  <2> HIDE DEF n, step
  <2> QED BY <1>1, <1>2, <1>3, RecursionExists
<1>5. f = [i \in 0 .. n |-> IF i = 0 THEN <<>> ELSE step[i][f[i - 1]]]
  BY <1>4 DEF Computes
<1>6. f[0] = <<>>
  BY <1>1, <1>5
<1>7. ASSUME NEW i \in 1 .. n PROVE f[i] = Join(f[i - 1], qs[i])
  <2>1. i \in 0 .. n /\ i # 0 /\ i - 1 \in 0 .. n
    BY <1>1
  <2>2. f[i] = step[i][f[i - 1]]
    <3> HIDE DEF step
    <3> QED BY <1>5, <2>1
  <2>3. f[i - 1] \in Seq(V)
    BY <1>4, <2>1
  <2> QED BY <2>2, <2>3
<1>8. FlattenSeq(qs) = f[n]
  <2>1. CASE n = 0
    <3>1. qs = <<>>
      BY <2>1
    <3> QED BY <1>6, <2>1, <3>1 DEF FlattenSeq
  <2>2. CASE n # 0
    <3> DEFINE d == [i \in 1 .. n |-> f[i]]
    <3>1. IsFlat(d)
      <4> SUFFICES ASSUME NEW i \in 1 .. n
                   PROVE  f[i] = IF i = 1 THEN qs[i] ELSE d[i - 1] \o qs[i]
        OBVIOUS
      <4>1. f[i] = Join(f[i - 1], qs[i]) /\ qs[i] \in Seq(V)
        BY <1>1, <1>7
      <4>2. CASE i = 1
        <5>1. i - 1 = 0
          BY <4>2
        <5>2. f[i] = Join(<<>>, qs[i])
          BY <1>6, <4>1, <5>1
        <5>3. Join(<<>>, qs[i]) = qs[i]
          BY <4>1 DEF Join
        <5> QED BY <4>2, <5>2, <5>3
      <4>3. CASE i # 1
        <5>1. i - 1 \in 1 .. n
          BY <1>1, <4>3
        <5> QED BY <4>1, <4>3, <5>1 DEF Join
      <4> QED BY <4>2, <4>3
    <3>2. PICK e : IsFlat(e) /\ FlattenSeq(qs) = e[n]
      <4>1. Len(qs) # 0
        BY <2>2
      <4> PICK g : g = CHOOSE h : IsFlat(h)
        OBVIOUS
      <4>2. FlattenSeq(qs) = g[n]
        BY <4>1 DEF FlattenSeq
      <4>3. IsFlat(g)
        <5> HIDE DEF IsFlat, d
        <5> QED BY <3>1
      <4> HIDE DEF IsFlat
      <4> QED BY <4>2, <4>3
    <3>3. \A i \in 1 .. n : e[i] = f[i]
      <4> SUFFICES ASSUME NEW i \in 1 .. n, e[i] # f[i] PROVE FALSE
        OBVIOUS
      <4> DEFINE S == {k \in 1 .. n : e[k] # f[k]}
      <4> HIDE DEF step, IsFlat, d, n
      <4>0. i \in S
        OBVIOUS
      <4>1. S \in SUBSET Nat /\ S # {}
        <5>1. \A k \in S : k \in Nat
          BY <1>1
        <5> QED BY <4>0, <5>1
      <4>2. PICK k \in S : \A j \in S : k <= j
        BY <4>1, LeastNumber
      <4>3. e[k] = IF k = 1 THEN qs[k] ELSE e[k - 1] \o qs[k]
        <5> USE DEF IsFlat
        <5> QED BY <3>2
      <4>4. d[k] = IF k = 1 THEN qs[k] ELSE d[k - 1] \o qs[k]
        <5> USE DEF IsFlat
        <5> QED BY <3>1
      <4>5. k # 1 => k - 1 \in 1 .. n /\ k - 1 \notin S
        BY <1>1, <4>2
      <4>6. k # 1 => e[k - 1] = d[k - 1]
        BY <4>5 DEF d
      <4>7. d[k] = f[k]
        BY <4>2 DEF d
      <4> QED BY <4>2, <4>3, <4>4, <4>6, <4>7
    <3>4. n \in 1 .. n
      BY <1>1, <2>2
    <3> QED BY <3>2, <3>3, <3>4
  <2> QED BY <2>1, <2>2
<1> QED BY <1>4, <1>6, <1>7, <1>8 DEF Flattens

\* the lists of qs are those of the sets T, one set after the other
AreBlocks(qs, T) ==
  /\ qs \in Seq(Seq(Words)) /\ DOMAIN T = DOMAIN qs
  /\ \A k \in DOMAIN qs : IsListing(qs[k], T[k])
  /\ \A j, k \in DOMAIN qs : j < k => \A u \in T[j], w \in T[k] : WordLess(u, w)

\* Such lists together are the list of all the sets.
LEMMA ListingBlocks ==
  ASSUME NEW qs, NEW T, AreBlocks(qs, T)
  PROVE  IsListing(FlattenSeq(qs), UNION {T[k] : k \in DOMAIN qs})
<1>1. qs \in Seq(Seq(Words))
  BY DEF AreBlocks
<1>2. PICK n \in Nat : n = Len(qs) /\ DOMAIN qs = 1 .. n
  BY <1>1, ListIs
<1>3. PICK f \in [0 .. Len(qs) -> Seq(Words)] : Flattens(f, qs)
  BY <1>1, FlattenIs
<1>4. /\ f[0] = <<>> /\ FlattenSeq(qs) = f[n]
      /\ \A i \in 1 .. n : f[i] = Join(f[i - 1], qs[i])
  BY <1>2, <1>3 DEF Flattens
<1>5. /\ \A k \in 1 .. n : IsListing(qs[k], T[k])
      /\ \A j, k \in 1 .. n : j < k => \A u \in T[j], w \in T[k] : WordLess(u, w)
  BY <1>2 DEF AreBlocks
<1> DEFINE U(i) == UNION {T[k] : k \in 1 .. i}
           P == {i \in 0 .. n : IsListing(f[i], U(i))}
<1>6. 0 \in P
  <2>1. U(0) = {}
    OBVIOUS
  <2>2. 0 \in 0 .. n
    OBVIOUS
  <2> HIDE DEF U
  <2> QED BY <1>4, <2>1, <2>2, ShortListings
<1>7. ASSUME NEW m \in 1 .. n, m - 1 \in P PROVE m \in P
  <2> PICK i : i = m - 1 /\ m = i + 1 /\ i \in 0 .. n /\ m \in 0 .. n
    OBVIOUS
  <2>1. IsListing(f[i], U(i))
    BY <1>7
  <2>2. IsListing(qs[m], T[m]) /\ f[m] = Join(f[i], qs[m])
    BY <1>4, <1>5
  <2>3. \A u \in U(i), w \in T[m] : WordLess(u, w)
    <3> SUFFICES ASSUME NEW k \in 1 .. i, NEW u \in T[k], NEW w \in T[m] PROVE WordLess(u, w)
      OBVIOUS
    <3>1. k \in 1 .. n /\ k < m
      OBVIOUS
    <3> QED BY <1>5, <3>1
  <2>4. U(m) = U(i) \cup T[m]
    <3>1. \A k : k \in 1 .. m <=> k \in 1 .. i \/ k = m
      OBVIOUS
    <3> QED BY <3>1
  <2> HIDE DEF U
  <2>5. IsListing(Join(f[i], qs[m]), U(i) \cup T[m])
    BY <2>1, <2>2, <2>3, ListingBoth
  <2> QED BY <2>2, <2>4, <2>5
<1>8. n \in P
  <2>1. 0 .. n \subseteq P
    <3> HIDE DEF P
    <3> QED BY <1>6, <1>7, IntervalInduction
  <2>2. n \in 0 .. n
    OBVIOUS
  <2> QED BY <2>1, <2>2
<1>9. IsListing(f[n], U(n))
  BY <1>8
<1> QED BY <1>2, <1>4, <1>9

-----------------------------------------------------------------------------
(* Lists changed entry by entry.                                           *)

MapOf(g, q) == [m \in DOMAIN q |-> g[q[m]]]

\* c is q, changed by g
IsMapped(c, g, q) == Len(c) = Len(q) /\ \A m \in 1 .. Len(q) : c[m] = g[q[m]]

\* A list mapped entry by entry has the length of the list.
LEMMA MapIs ==
  ASSUME NEW V, NEW W, NEW g \in [V -> W], NEW q \in Seq(V)
  PROVE  MapOf(g, q) \in Seq(W) /\ IsMapped(MapOf(g, q), g, q)
<1>1. Len(q) \in Nat /\ DOMAIN q = 1 .. Len(q) /\ \A m \in 1 .. Len(q) : q[m] \in V
  BY ListIs
<1>2. MapOf(g, q) = [m \in 1 .. Len(q) |-> g[q[m]]]
  BY <1>1 DEF MapOf
<1>3. MapOf(g, q) \in [1 .. Len(q) -> W]
  BY <1>1, <1>2
<1>4. MapOf(g, q) \in Seq(W) /\ Len(MapOf(g, q)) = Len(q)
  BY ONLY <1>1, <1>3
<1> QED BY <1>2, <1>4 DEF IsMapped

\* Two lists with the same entries are the same.
LEMMA ListsEqual ==
  ASSUME NEW V, NEW q \in Seq(V), NEW r \in Seq(V), Len(q) = Len(r),
         \A m \in 1 .. Len(q) : q[m] = r[m]
  PROVE  q = r
OBVIOUS

MapsEither(g, q, r) == MapOf(g, Join(q, r)) = Join(MapOf(g, q), MapOf(g, r))

\* Mapping two joined lists joins the mapped ones.
LEMMA MapJoin ==
  ASSUME NEW V, NEW W, NEW g \in [V -> W], NEW q \in Seq(V), NEW r \in Seq(V)
  PROVE  MapsEither(g, q, r)
<1>0. PICK x : x = Join(q, r)
  OBVIOUS
<1>1. x \in Seq(V) /\ IsJoined(x, q, r)
  BY <1>0, JoinIs
<1>2. PICK a \in Seq(W) : a = MapOf(g, q) /\ IsMapped(a, g, q)
  BY MapIs
<1>3. PICK b \in Seq(W) : b = MapOf(g, r) /\ IsMapped(b, g, r)
  BY MapIs
<1>4. PICK c \in Seq(W) : c = MapOf(g, x) /\ IsMapped(c, g, x)
  BY <1>1, MapIs
<1>5. PICK d \in Seq(W) : d = Join(a, b) /\ IsJoined(d, a, b)
  BY JoinIs
<1>6. Len(c) = Len(d)
  BY <1>1, <1>2, <1>3, <1>4, <1>5 DEF IsJoined, IsMapped
<1>7. ASSUME NEW m \in 1 .. Len(c) PROVE c[m] = d[m]
  <2>1. /\ Len(q) \in Nat /\ Len(r) \in Nat /\ Len(x) = Len(q) + Len(r)
        /\ \A i \in 1 .. Len(q) : x[i] = q[i] /\ d[i] = a[i]
        /\ \A i \in 1 .. Len(r) : x[Len(q) + i] = r[i] /\ d[Len(q) + i] = b[i]
    BY <1>1, <1>2, <1>3, <1>5 DEF IsJoined, IsMapped
  <2>2. m \in 1 .. Len(q) + Len(r)
    BY <1>4, <2>1 DEF IsMapped
  <2>3. m \in 1 .. Len(q) \/ \E k \in 1 .. Len(r) : m = Len(q) + k
    BY <2>1, <2>2, JoinPlace
  <2>4. c[m] = g[x[m]]
    BY <1>4 DEF IsMapped
  <2>5. \A i \in 1 .. Len(q) : a[i] = g[q[i]]
    BY <1>2 DEF IsMapped
  <2>6. \A i \in 1 .. Len(r) : b[i] = g[r[i]]
    BY <1>3 DEF IsMapped
  <2>7. CASE m \in 1 .. Len(q)
    BY <2>1, <2>4, <2>5, <2>7
  <2>8. CASE \E k \in 1 .. Len(r) : m = Len(q) + k
    <3>1. PICK k \in 1 .. Len(r) : m = Len(q) + k
      BY <2>8
    <3>2. x[m] = r[k] /\ d[m] = b[k] /\ b[k] = g[r[k]]
      BY <2>1, <2>6, <3>1
    <3> QED BY <2>4, <3>2
  <2> QED BY <2>3, <2>7, <2>8
<1>8. c = d
  BY <1>6, <1>7, ListsEqual
<1> QED BY <1>0, <1>2, <1>3, <1>4, <1>5, <1>8 DEF MapsEither

\* What changes the entries may do so before or after the lists are put together.
LEMMA FlattenMap ==
  ASSUME NEW V, NEW W, NEW g \in [V -> W], NEW qs \in Seq(Seq(V)),
         NEW ts, ts = [k \in DOMAIN qs |-> MapOf(g, qs[k])]
  PROVE  FlattenSeq(ts) = MapOf(g, FlattenSeq(qs))
<1>1. PICK n \in Nat : n = Len(qs) /\ DOMAIN qs = 1 .. n /\ \A k \in 1 .. n : qs[k] \in Seq(V)
  BY ListIs
<1>2. /\ ts \in Seq(Seq(W)) /\ Len(ts) = n /\ \A k \in 1 .. n : ts[k] = MapOf(g, qs[k])
  <2>1. ts = [k \in 1 .. n |-> MapOf(g, qs[k])] /\ \A k \in 1 .. n : MapOf(g, qs[k]) \in Seq(W)
    BY <1>1, MapIs
  <2>2. ts \in [1 .. n -> Seq(W)]
    BY <2>1
  <2>3. ts \in Seq(Seq(W)) /\ Len(ts) = n
    BY ONLY n \in Nat, <2>2
  <2> QED BY <2>1, <2>3
<1>3. PICK f \in [0 .. Len(qs) -> Seq(V)] : Flattens(f, qs)
  BY FlattenIs
<1>4. PICK h \in [0 .. Len(ts) -> Seq(W)] : Flattens(h, ts)
  BY <1>2, FlattenIs
<1>5. /\ f[0] = <<>> /\ FlattenSeq(qs) = f[n] /\ f \in [0 .. n -> Seq(V)]
      /\ \A i \in 1 .. n : f[i] = Join(f[i - 1], qs[i])
  BY <1>1, <1>3 DEF Flattens
<1>6. /\ h[0] = <<>> /\ FlattenSeq(ts) = h[n]
      /\ \A i \in 1 .. n : h[i] = Join(h[i - 1], ts[i])
  BY <1>2, <1>4 DEF Flattens
<1> DEFINE P == {i \in 0 .. n : h[i] = MapOf(g, f[i])}
<1>7. 0 \in P
  <2>1. MapOf(g, <<>>) = <<>>
    BY DEF MapOf
  <2> QED BY <1>5, <1>6, <2>1
<1>8. ASSUME NEW m \in 1 .. n, m - 1 \in P PROVE m \in P
  <2> PICK i : i = m - 1 /\ m = i + 1 /\ i \in 0 .. n /\ m \in 0 .. n
    OBVIOUS
  <2>1. h[m] = Join(MapOf(g, f[i]), MapOf(g, qs[m])) /\ f[m] = Join(f[i], qs[m])
    BY <1>2, <1>5, <1>6, <1>8
  <2>2. f[i] \in Seq(V) /\ qs[m] \in Seq(V)
    BY <1>1, <1>5
  <2>3. MapOf(g, Join(f[i], qs[m])) = Join(MapOf(g, f[i]), MapOf(g, qs[m]))
    <3> PICK a \in Seq(V), b \in Seq(V) : a = f[i] /\ b = qs[m]
      BY <2>2
    <3>1. MapOf(g, Join(a, b)) = Join(MapOf(g, a), MapOf(g, b))
      <4>1. MapsEither(g, a, b)
        BY MapJoin
      <4> QED BY <4>1 DEF MapsEither
    <3> QED BY <3>1
  <2> QED BY <2>1, <2>3
<1>9. n \in P
  <2>1. 0 .. n \subseteq P
    <3> HIDE DEF P
    <3> QED BY <1>7, <1>8, IntervalInduction
  <2>2. n \in 0 .. n
    OBVIOUS
  <2> QED BY <2>1, <2>2
<1> QED BY <1>5, <1>6, <1>9

\* the arrow a, and then the word w
Prefixed(a, w) == Cat(<<a>>, w)

IsWith(x, a, w) ==
  /\ x \in Words /\ Len(w) \in Nat /\ Len(x) = Len(w) + 1 /\ x[1] = a /\ x # EmptyWord
  /\ \A i \in 1 .. Len(w) : x[i + 1] = w[i]

\* What a word with an arrow before it is.
LEMMA WithIs ==
  ASSUME NEW a \in Nat, NEW w \in Words
  PROVE  IsWith(Prefixed(a, w), a, w)
<1>1. <<a>> \in Words /\ Len(<<a>>) = 1 /\ <<a>>[1] = a
  BY DEF Words
<1> PICK x \in Words : x = <<a>>
  BY <1>1
<1>2. /\ Cat(x, w) \in Words /\ Len(w) \in Nat /\ Len(Cat(x, w)) = 1 + Len(w)
      /\ \A i \in 1 .. 1 : Cat(x, w)[i] = x[i]
      /\ \A i \in 1 .. Len(w) : Cat(x, w)[1 + i] = w[i]
  BY <1>1, CatIndex
<1>3. \A i \in 1 .. Len(w) : i + 1 = 1 + i
  BY <1>2
<1>4. Cat(x, w) # EmptyWord
  <2>1. Len(EmptyWord) = 0
    BY DEF EmptyWord
  <2> QED BY <1>2, <2>1
<1> QED BY <1>1, <1>2, <1>3, <1>4 DEF Prefixed, IsWith

\* Such words are equal when their arrows and the rests are.
LEMMA WithSame ==
  ASSUME NEW a \in Nat, NEW u \in Words, NEW b \in Nat, NEW w \in Words, Prefixed(a, u) = Prefixed(b, w)
  PROVE  a = b /\ u = w
<1>1. a = b
  <2> PICK x : x = Prefixed(a, u) /\ x = Prefixed(b, w)
    OBVIOUS
  <2>1. IsWith(x, a, u) /\ IsWith(x, b, w)
    BY WithIs
  <2> QED BY <2>1 DEF IsWith
<1>2. <<a>> \in Words
  BY DEF Words
<1> QED BY <1>1, <1>2, CatCancels DEF Prefixed

\* Every word but the empty one is such a word.
LEMMA WithExists ==
  ASSUME NEW x \in Words, x # EmptyWord
  PROVE  \E a \in Nat, w \in Words : x = Prefixed(a, w) /\ a = x[1]
<1>1. Len(x) \in Nat /\ Len(x) # 0 /\ DOMAIN x = 1 .. Len(x) /\ \A i \in 1 .. Len(x) : x[i] \in Nat
  <2>1. x \in Seq(Nat)
    BY DEF Words
  <2>2. Len(x) \in Nat /\ DOMAIN x = 1 .. Len(x) /\ \A i \in 1 .. Len(x) : x[i] \in Nat
    BY ONLY <2>1, ElementOfSeq, LenProperties
  <2>3. Len(x) # 0
    BY <2>1, EmptySeq, SMTT(30) DEF EmptyWord
  <2> QED BY ONLY <2>2, <2>3
<1> PICK n \in Nat : n = Len(x) - 1 /\ Len(x) = n + 1
  <2>1. Len(x) - 1 \in Nat /\ Len(x) = (Len(x) - 1) + 1
    BY ONLY <1>1
  <2> QED BY <2>1
<1> DEFINE w == [i \in 1 .. n |-> x[i + 1]]
<1>2. \A i \in 1 .. n : i + 1 \in 1 .. Len(x) /\ w[i] = x[i + 1]
  BY <1>1
<1>3. w \in [1 .. n -> Nat]
  BY <1>1, <1>2
<1> HIDE DEF w
<1>4. w \in Words /\ Len(w) = n
  BY ONLY n \in Nat, <1>3 DEF Words
<1> PICK a \in Nat : a = x[1]
  BY <1>1
<1> PICK y : y = Prefixed(a, w)
  OBVIOUS
<1>5. y \in Words /\ Len(y) = n + 1 /\ y[1] = a /\ \A i \in 1 .. n : y[i + 1] = w[i]
  <2>1. IsWith(y, a, w)
    BY <1>4, WithIs
  <2> QED BY <1>4, <2>1 DEF IsWith
<1>6. \A i \in 1 .. Len(x) : x[i] = y[i]
  <2> SUFFICES ASSUME NEW i \in 1 .. Len(x) PROVE x[i] = y[i]
    OBVIOUS
  <2>1. CASE i = 1
    BY <1>5, <2>1
  <2>2. CASE i # 1
    <3>1. i - 1 \in 1 .. n /\ (i - 1) + 1 = i
      BY <1>1, <2>2
    <3>2. w[i - 1] = x[i] /\ y[i] = w[i - 1]
      BY <1>2, <1>5, <3>1
    <3> QED BY <3>2
  <2> QED BY <2>1, <2>2
<1>7. x = y
  BY <1>5, <1>6, WordEqual
<1> QED BY <1>4, <1>7

\* The order of words that begin with the same arrow is that of the rests.
LEMMA WithOrder ==
  ASSUME NEW a \in Nat, NEW u \in Words, NEW w \in Words, WordLess(u, w)
  PROVE  WordLess(Prefixed(a, u), Prefixed(a, w))
<1>1. <<a>> \in Words /\ <<>> \in Words
  BY DEF Words
<1>2. WordLess(<<a>> \o u \o <<>>, <<a>> \o w \o <<>>)
  BY <1>1, WordLessBetween
<1>3. \A x \in Words : (<<a>> \o x) \o <<>> = Prefixed(a, x)
  BY <1>1, CatEmpty, CatWord DEF Prefixed, Cat
<1> QED BY <1>2, <1>3

\* The first arrow decides when the rests are of one length.
LEMMA WithFirst ==
  ASSUME NEW a \in Nat, NEW u \in Words, NEW b \in Nat, NEW w \in Words, a < b, Len(u) = Len(w)
  PROVE  WordLess(Prefixed(a, u), Prefixed(b, w))
<1> PICK x : x = Prefixed(a, u)
  OBVIOUS
<1> PICK y : y = Prefixed(b, w)
  OBVIOUS
<1>0. IsWith(x, a, u) /\ IsWith(y, b, w)
  BY WithIs
<1>3. x \in Words /\ y \in Words /\ Len(x) = Len(u) + 1 /\ Len(y) = Len(u) + 1 /\ x[1] = a /\ y[1] = b
      /\ Len(u) \in Nat
  BY <1>0 DEF IsWith
<1>1. 1 \in 1 .. Len(x) /\ x[1] < y[1] /\ \A j \in 1 .. 1 - 1 : x[j] = y[j]
  BY <1>3
<1>2. LexLess(x, y)
  BY <1>1, <1>3, LexAtFirst
<1> QED BY <1>2, <1>3 DEF WordLess

\* a before every word
PrefixedAll(a) == [w \in Words |-> Prefixed(a, w)]

\* The list of the words with an arrow before each.
LEMMA ListingWith ==
  ASSUME NEW S, NEW q, IsListing(q, S), NEW a \in Nat
  PROVE  IsListing(MapOf(PrefixedAll(a), q), {Prefixed(a, w) : w \in S})
<1>1. q \in Seq(Words)
  BY DEF IsListing
<1> PICK g : g = PrefixedAll(a)
  OBVIOUS
<1>2. g \in [Words -> Words] /\ \A w \in Words : g[w] = Prefixed(a, w)
  BY WithIs DEF PrefixedAll, IsWith
<1> PICK r : r = MapOf(g, q)
  OBVIOUS
<1>3. r \in Seq(Words) /\ IsMapped(r, g, q)
  BY <1>1, <1>2, MapIs
<1> PICK n \in Nat : n = Len(q) /\ DOMAIN q = 1 .. n /\ \A k \in 1 .. n : q[k] \in Words
  BY <1>1, ListIs
<1>4. DOMAIN r = 1 .. n /\ \A k \in 1 .. n : r[k] = Prefixed(a, q[k])
  BY <1>2, <1>3, ListIs DEF IsMapped
<1>5. /\ \A k \in 1 .. n : q[k] \in S
      /\ \A w \in S : \E k \in 1 .. n : q[k] = w
      /\ \A j, k \in 1 .. n : j < k => WordLess(q[j], q[k])
  BY DEF IsListing
<1>6. \A k \in 1 .. n : r[k] \in {Prefixed(a, w) : w \in S}
  BY <1>4, <1>5
<1>7. \A w \in {Prefixed(a, u) : u \in S} : \E k \in 1 .. n : r[k] = w
  BY <1>4, <1>5
<1>8. \A j, k \in 1 .. n : j < k => WordLess(r[j], r[k])
  BY <1>4, <1>5, WithOrder
<1> QED BY <1>3, <1>4, <1>6, <1>7, <1>8 DEF IsListing

\* A word is read by its first arrow, and then its rest.
LEMMA FollowsWith ==
  ASSUME NEW cert, NEW s, NEW a \in Nat, NEW w \in Words, NEW t
  PROVE  Follows(cert, s, Prefixed(a, w), t) <=> \E u : Moves(cert, s, a, u) /\ Follows(cert, u, w, t)
<1> PICK x \in Words : /\ x = Prefixed(a, w) /\ Len(w) \in Nat /\ Len(x) = Len(w) + 1 /\ x[1] = a
                       /\ \A i \in 1 .. Len(w) : x[i + 1] = w[i]
  BY WithIs DEF IsWith
<1>1. ASSUME NEW u, Moves(cert, s, a, u), Follows(cert, u, w, t) PROVE Follows(cert, s, x, t)
  <2>1. <<a>> \in Words /\ Follows(cert, s, <<a>>, u)
    BY <1>1, FollowsArrow
  <2>2. Follows(cert, s, Cat(<<a>>, w), t)
    BY <1>1, <2>1, FollowsBoth
  <2> QED BY <2>2 DEF Prefixed
<1>2. ASSUME Follows(cert, s, x, t) PROVE \E u : Moves(cert, s, a, u) /\ Follows(cert, u, w, t)
  <2>1. PICK h : (\A k \in 1 .. Len(x) : Moves(cert, h[k - 1], x[k], h[k])) /\ h[0] = s /\ h[Len(x)] = t
    BY <1>2 DEF Follows, IsRunOf
  <2> DEFINE g == [k \in 0 .. Len(w) |-> h[k + 1]]
  <2>2. \A k \in 0 .. Len(w) : g[k] = h[k + 1]
    OBVIOUS
  <2> HIDE DEF g
  <2>3. ASSUME NEW k \in 1 .. Len(w) PROVE Moves(cert, g[k - 1], w[k], g[k])
    <3>1. k + 1 \in 1 .. Len(x) /\ (k + 1) - 1 = k /\ k - 1 \in 0 .. Len(w) /\ (k - 1) + 1 = k
            /\ k \in 0 .. Len(w)
      OBVIOUS
    <3>2. Moves(cert, h[k], x[k + 1], h[k + 1])
      BY <2>1, <3>1
    <3>3. g[k - 1] = h[k] /\ g[k] = h[k + 1] /\ x[k + 1] = w[k]
      BY <2>2, <3>1
    <3> QED BY <3>2, <3>3
  <2>4. g[0] = h[1] /\ g[Len(w)] = t
    <3>1. 0 \in 0 .. Len(w) /\ Len(w) \in 0 .. Len(w) /\ 0 + 1 = 1
      OBVIOUS
    <3> QED BY <2>1, <2>2, <3>1
  <2>5. Follows(cert, h[1], w, t)
    BY <2>3, <2>4 DEF Follows, IsRunOf
  <2>6. Moves(cert, s, a, h[1])
    <3>1. 1 \in 1 .. Len(x) /\ 1 - 1 = 0
      OBVIOUS
    <3> QED BY <2>1, <3>1
  <2> QED BY <2>5, <2>6
<1> QED BY <1>1, <1>2

=============================================================================
