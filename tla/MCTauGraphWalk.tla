--------------------------- MODULE MCTauGraphWalk ---------------------------
(***************************************************************************)
(* The algebras of no and of one vertex, linear A_2 (a pentagon) and the   *)
(* preprojective algebra of type A_2 (a hexagon), whose two projectives    *)
(* share their dimension vector; and with one certification blocked.       *)
(***************************************************************************)
EXTENDS TauGraphWalk

\* in a finite quiver the pairs below v are those its left mutations reach
IsBelow(left, u, v) ==
  LET Down(ps) == ps \cup UNION {UNION Range(left[p]) : p \in ps}
      reached[n \in 0 .. Cardinality(DOMAIN left)] ==
        IF n = 0 THEN {v} ELSE Down(reached[n - 1])
  IN  u # v /\ u \in reached[Cardinality(DOMAIN left)]

Algebra(rank, dims, regular, left, fingerprint) ==
  [rank |-> rank, dims |-> dims, regular |-> regular, left |-> left,
   order |-> {b \in (DOMAIN left) \X (DOMAIN left) : IsBelow(left, b[1], b[2])},
   fingerprint |-> fingerprint, blocked |-> {}]

BlockedAt(a, where) == [a EXCEPT !.blocked = {where}]

Dim(x) == CASE x \in {"P1", "P2"} -> <<1, 1>> [] x = "S1" -> <<1, 0>> [] x = "S2" -> <<0, 1>>

\* the quiver without vertices
Zero ==
  LET A == Pair(<<>>, {}) IN Algebra(0, [x \in {} |-> <<>>], A, A :> <<>>, A :> 0)

Point ==
  LET A == Pair(<<"P">>, {})
      Z == Pair(<<>>, {1})
      left == A :> <<{Z}>> @@ Z :> <<>>
  IN  Algebra(1, "P" :> <<1>>, A, left, [p \in DOMAIN left |-> Len(p.module)])

All == Pair(<<"P1", "S2">>, {})
Lower == Pair(<<"S2">>, {1})
None == Pair(<<>>, {1, 2})

Linear ==
  LET other == Pair(<<"P1", "S1">>, {})
      upper == Pair(<<"S1">>, {2})
      left  == All :> <<{Lower}, {other}>> @@ other :> <<{upper}, {}>>
               @@ upper :> <<{None}>> @@ Lower :> <<{None}>> @@ None :> <<>>
  IN  Algebra(2, [x \in {"P1", "S1", "S2"} |-> Dim(x)], All, left,
              [p \in DOMAIN left |-> <<Len(p.module), p.support>>])

\* with the coarsest fingerprint, the number of summands
Preprojective ==
  LET top == Pair(<<"P1", "P2">>, {})
      one == Pair(<<"P1", "S1">>, {})
      two == Pair(<<"S2", "P2">>, {})
      left == top :> <<{two}, {one}>>
              @@ one :> <<{Pair(<<"S1">>, {2})}, {}>>
              @@ two :> <<{}, {Pair(<<"S2">>, {1})}>>
              @@ Pair(<<"S1">>, {2}) :> <<{None}>>
              @@ Pair(<<"S2">>, {1}) :> <<{None}>>
              @@ None :> <<>>
  IN  Algebra(2, [x \in {"P1", "P2", "S1", "S2"} |-> Dim(x)], top, left,
              [p \in DOMAIN left |-> Len(p.module)])

MCAlgebras ==
  {Zero, Point, Linear, Preprojective,
   BlockedAt(Point, <<"decompose", Point.regular>>), BlockedAt(Point, <<"classify", Point.regular>>),
   BlockedAt(Linear, <<"slot", All, 2>>), BlockedAt(Linear, <<"decompose", None>>),
   BlockedAt(Linear, <<"classify", Lower>>)}

Ample == [vertices |-> 9, mutations |-> 9, work |-> 1000000, matrix |-> 100]

\* one budget at a time, at every point of the walk
MCLimits ==
  {Ample}
  \cup {[Ample EXCEPT !.vertices = n] : n \in 0 .. 6}
  \cup {[Ample EXCEPT !.mutations = n] : n \in 0 .. 6}
  \cup {[Ample EXCEPT !.matrix = n] : n \in 0 .. 4}
  \cup {[Ample EXCEPT !.work = 10 * n] : n \in 0 .. 60}
  \cup {[Ample EXCEPT !.work = 200 * n] : n \in 1 .. 110}

=============================================================================
