---------------------------- MODULE MCCompletion ----------------------------
(***************************************************************************)
(* The presentations of completion/tests with every budget in turn: most   *)
(* runs complete, each budget cuts them at every place it can, and the     *)
(* last presentation has an infinite basis, which only a budget ends.      *)
(***************************************************************************)
EXTENDS Completion, SequencesExt, TLC

Presentation(prime, vertices, arrows, rels) ==
  [p |-> prime, vertices |-> vertices, arrows |-> arrows, relations |-> rels]

Loop == <<<<1, 1>>>>
TwoLoops == <<<<1, 1>>, <<1, 1>>>>
ThreeLoops == <<<<1, 1>>, <<1, 1>>, <<1, 1>>>>

XCubed == Presentation(5, 1, Loop, <<(<<1, 1, 1>> :> 1)>>)

CommutativeSquare ==
  Presentation(5, 4, <<<<1, 2>>, <<2, 4>>, <<1, 3>>, <<3, 4>>>>,
               <<(<<1, 2>> :> 1) @@ (<<3, 4>> :> 4)>>)

Yx == (<<2, 1>> :> 1) @@ (<<1, 1>> :> 1)
Yy == <<2, 2>> :> 1
OverlapExample == Presentation(2, 1, TwoLoops, <<Yx, Yy>>)
OverlapSwapped == Presentation(2, 1, TwoLoops, <<Yy, Yx>>)

Inhomogeneous ==
  Presentation(5, 5, <<<<1, 2>>, <<2, 4>>, <<1, 3>>, <<3, 5>>, <<5, 4>>>>,
               <<(<<3, 4, 5>> :> 1) @@ (<<1, 2>> :> 4)>>)

InclusionExample ==
  Presentation(2, 1, Loop, <<(<<1, 1, 1, 1, 1>> :> 1), (<<1, 1, 1, 1>> :> 1) @@ (<<1, 1>> :> 1)>>)

OneLoopFree == Presentation(2, 1, Loop, <<>>)
NoVertices == Presentation(2, 0, <<>>, <<>>)

\* coefficients that are not monic: 2yx + x^2 and 2y^2 + xy over F_3
NotMonic ==
  Presentation(3, 1, TwoLoops, <<(<<2, 1>> :> 2) @@ (<<1, 1>> :> 1),
                                 (<<2, 2>> :> 2) @@ (<<1, 2>> :> 1)>>)

\* a relation in the ideal of the one before it, and a tail that is reduced
Redundant ==
  Presentation(3, 1, TwoLoops, <<(<<1, 1>> :> 2), (<<2, 1, 1>> :> 1),
                                 (<<2, 2, 2>> :> 1) @@ (<<2, 1, 2>> :> 2), (<<1, 2>> :> 1)>>)

Monomials ==
  Presentation(2, 1, ThreeLoops, [k \in 1 .. 9 |-> <<(k - 1) \div 3 + 1, ((k - 1) % 3) + 1>> :> 1])

\* presentations whose basis needs the compositions of a new element as the
\* right factor, and as the left factor
NewOnTheRight ==
  Presentation(2, 1, TwoLoops, <<(<<1, 2, 2>> :> 1), (<<2, 1>> :> 1) @@ (<<1, 1, 2>> :> 1)>>)
NewOnTheLeft ==
  Presentation(2, 1, TwoLoops, <<(<<1, 1, 2>> :> 1), (<<2, 1>> :> 1) @@ (<<1, 2, 2>> :> 1)>>)

\* the braid relation yxy + xyx, whose basis is infinite in this order
Endless == Presentation(2, 1, TwoLoops, <<(<<2, 1, 2>> :> 1) @@ (<<1, 2, 1>> :> 1)>>)

Large == [max_basis |-> 9, max_word_len |-> 9, max_steps |-> 90, max_origin_terms |-> 30,
          max_ambiguities |-> 40]

LimitsTried ==
  {Large}
  \cup {[Large EXCEPT !.max_basis = n] : n \in 0 .. 3}
  \cup {[Large EXCEPT !.max_word_len = n] : n \in {2, 3, 4}}
  \cup {[Large EXCEPT !.max_steps = n] : n \in 0 .. 12}
  \cup {[Large EXCEPT !.max_origin_terms = n] : n \in 0 .. 3}
  \cup {[Large EXCEPT !.max_ambiguities = n] : n \in 0 .. 6}

\* every two quadratic relations in two loops over F_2
Quadratic == UNION {[relation -> {1}] : relation \in SUBSET ((1 .. 2) \X (1 .. 2)) \ {{}}}
QuadraticPairs ==
  {Presentation(2, 1, TwoLoops, <<pair[1], pair[2]>>) : pair \in Quadratic \X Quadratic}

\* a monomial and any monomial or binomial, of words of two or three loops, over F_2
ShortWords == {w \in SeqOf({1, 2}, 3) : Len(w) >= 2}
ShortRelations(n) ==
  UNION {[relation -> {1}] : relation \in {ws \in SUBSET ShortWords : Cardinality(ws) \in 1 .. n}}
ShortPairs ==
  {Presentation(2, 1, TwoLoops, <<pair[1], pair[2]>>) :
     pair \in ShortRelations(1) \X ShortRelations(2)}

MCJobs ==
  ({XCubed, CommutativeSquare, OverlapExample, OverlapSwapped, Inhomogeneous, InclusionExample,
    OneLoopFree, NoVertices, NotMonic, Redundant, Monomials, NewOnTheRight, NewOnTheLeft,
    Endless} \X LimitsTried)
  \cup ((QuadraticPairs \cup ShortPairs) \X {Large})

=============================================================================
