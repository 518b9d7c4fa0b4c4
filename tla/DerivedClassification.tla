------------------------ MODULE DerivedClassification -----------------------
(***************************************************************************)
(* The classification of a finite family of algebras up to derived         *)
(* equivalence (derived_classification.rs, stages.rs, verify.rs): the      *)
(* invariants of every member, the merges of duplicates, and mutation      *)
(* walks from the members whose class still has an open partner, with a    *)
(* cancellation at any point. A walk is one of EquivalenceDiscovery seen   *)
(* from outside: the vertices it finds, one by one.                        *)
(***************************************************************************)
EXTENDS Integers, Sequences, FiniteSets

CONSTANTS
  Size,          \* the number of members of the family
  DerivedClass,  \* member -> its derived equivalence class, unknown to the code
  MemberKey,     \* member -> the gentle key or certificate that indexes it
  Cartan,        \* member -> the reading of its Cartan invariants
  Winding,       \* member -> the reading of the invariants of gentle presentations
  Limits,        \* the ClassificationLimits a caller may pass
  Dimensions,    \* limits -> member -> the Hochschild dimensions its bar limits allow
  Graph          \* limits -> member -> the vertices its full walk finds

Members == 1 .. Size

Finished(value) == [finished |-> TRUE, value |-> <<value>>]
Stopped == [finished |-> FALSE, value |-> <<>>]   \* stopped, or not applicable

BarDefect == <<-1>>          \* the bar computation of a member failed

\* a vertex: whether it is tilting, and the key of its recovered target
Keys == {MemberKey[m] : m \in Members}
Vertex(tilting, target) == [tilting |-> tilting, target |-> target]
Cut == "cut"                 \* target recovery hit a limit
Defect == "defect"           \* a structural failure of the walk or of the recovery

Derived(m, n) == DerivedClass[m] = DerivedClass[n]

ASSUME FamilyAssumption ==
  /\ Size \in Nat
  /\ \A l \in Limits, m \in Members :
       /\ Dimensions[l][m] \in Seq(Int)
       /\ Graph[l][m] \in Seq({Graph[l][m][v] : v \in DOMAIN Graph[l][m]})
  /\ \A m, n \in Members : MemberKey[m] = MemberKey[n] => Derived(m, n)

\* derived invariants: finished values of equivalent members agree
ASSUME InvariantAssumption ==
  \A m, n \in Members : Derived(m, n) =>
    /\ Cartan[m].finished /\ Cartan[n].finished => Cartan[m].value = Cartan[n].value
    /\ Winding[m].finished /\ Winding[n].finished => Winding[m].value = Winding[n].value
    /\ \A l \in Limits : \A i \in DOMAIN Dimensions[l][m] \cap DOMAIN Dimensions[l][n] :
         Dimensions[l][m] # BarDefect /\ Dimensions[l][n] # BarDefect =>
            Dimensions[l][m][i] = Dimensions[l][n][i]

\* Rickard's theorem: the target of a tilting complex is derived equivalent to the source
ASSUME RickardAssumption ==
  \A l \in Limits, m, n \in Members : \A v \in DOMAIN Graph[l][m] :
    Graph[l][m][v].target = MemberKey[n] => Derived(m, n)

VARIABLES
  limits,       \* of this run
  invariants,   \* the readings of the members reached so far
  root,         \* what Partition::root answers for each member
  merges,       \* Partition::merges
  walks,        \* the finished walks
  member,       \* the member the current stage is at
  walk,         \* the walk from that member: vertices found, and examined up to
  pc, cancelled

vars == <<limits, invariants, root, merges, walks, member, walk, pc, cancelled>>

-----------------------------------------------------------------------------
(* Invariants and separation.                                              *)

Kinds == {"cartan", "winding", "dimensions", "center"}

\* mutant of DiffersFrom: a longer prefix of dimensions counts as a difference
DiffersInLength(kind, left, right) == left # right

\* two prefixes of dimensions differ only at a degree present in both
DiffersFrom(kind, left, right) ==
  IF kind = "dimensions"
  THEN \E i \in DOMAIN left \cap DOMAIN right : left[i] # right[i]
  ELSE left # right

\* the readings of member m; the bar computation does not start once cancelled
Readings(m, flag) ==
  LET dimensions == IF flag THEN <<>> ELSE Dimensions[limits][m] IN
  [kind \in Kinds |->
     CASE kind = "cartan" -> Cartan[m]
       [] kind = "winding" -> Winding[m]
       [] kind = "dimensions" -> [finished |-> dimensions # <<>>, value |-> dimensions]
       [] kind = "center" -> IF dimensions = <<>> THEN Stopped ELSE Finished(dimensions[1])]

\* first_difference finds a kind
Separates(m, n) ==
  \E kind \in Kinds :
    LET left == invariants[m][kind]
        right == invariants[n][kind]
    IN  left.finished /\ right.finished /\ DiffersFrom(kind, left.value, right.value)

Separated(C, D) == \E m \in C, n \in D : Separates(m, n)

\* components: the members reached from m through pairs that nothing separates
Group(m) ==
  {n \in Members : \A S \in SUBSET Members :
     m \in S /\ (\A x \in S, y \in Members : x # y /\ ~Separates(x, y) => y \in S) => n \in S}

-----------------------------------------------------------------------------
(* The partition.                                                          *)

ClassOf(m) == {n \in Members : root[n] = root[m]}

GroupClasses(m) == {ClassOf(n) : n \in Group(m)}

\* another class in the group is neither merged with nor separated from the class of m
HasOpenPartner(m) ==
  \E C \in GroupClasses(m) : C # ClassOf(m) /\ ~Separated(ClassOf(m), C)

\* FamilyIndex: a key resolves to the first member that has it
First(key) == CHOOSE m \in Members : MemberKey[m] = key /\ \A n \in 1 .. m - 1 : MemberKey[n] # key
IsDuplicate(m) == First(MemberKey[m]) # m

Smaller(a, b) == IF a <= b THEN a ELSE b
Larger(a, b) == IF a <= b THEN b ELSE a

\* join: refused, as a contradiction, when an invariant separates the two classes
Contradicts(source, other) == Separated(ClassOf(source), ClassOf(other))

\* mutant of Joined: only the member and not its class changes its root
JoinedRootOnly(source, other) ==
  [root EXCEPT ![other] = Smaller(root[source], root[other])]

Joined(source, other) ==
  [m \in Members |-> IF root[m] = Larger(root[source], root[other])
                     THEN Smaller(root[source], root[other]) ELSE root[m]]

Join(source, other, vertex) ==
  /\ root' = Joined(source, other)
  /\ merges' = Append(merges, [source |-> source, member |-> other, vertex |-> vertex])

Refuse == pc' = "contradiction" /\ UNCHANGED <<root, merges, member>>

-----------------------------------------------------------------------------
(* The run.                                                                *)

NoWalk == [found |-> 0, examined |-> 0, merges |-> 0, stop |-> "none"]

Init ==
  /\ limits \in Limits
  /\ invariants = <<>>
  /\ root = [m \in Members |-> m] /\ merges = <<>>
  /\ walks = <<>> /\ walk = NoWalk
  /\ member = 1 /\ cancelled = FALSE
  /\ pc = IF Members = {} THEN "done" ELSE "invariants"

\* the stage is over when its loop has passed the last member
Advance(next) ==
  IF member < Size THEN member' = member + 1 /\ pc' = pc
                   ELSE member' = 1 /\ pc' = next

ComputeInvariants ==
  /\ pc = "invariants" /\ (cancelled \/ Dimensions[limits][member] # BarDefect)
  /\ invariants' = Append(invariants, Readings(member, cancelled))
  /\ Advance("duplicates")
  /\ UNCHANGED <<limits, root, merges, walks, walk, cancelled>>

FailInvariants ==
  /\ pc = "invariants" /\ ~cancelled /\ Dimensions[limits][member] = BarDefect
  /\ pc' = "failed"
  /\ UNCHANGED <<limits, invariants, root, merges, walks, member, walk, cancelled>>

MergeDuplicate ==
  LET original == First(MemberKey[member]) IN
  /\ pc = "duplicates" /\ original # member
  /\ IF Contradicts(original, member) THEN Refuse
     ELSE Join(original, member, 0) /\ Advance("members")
  /\ UNCHANGED <<limits, invariants, walks, walk, cancelled>>

SkipOriginal ==
  /\ pc = "duplicates" /\ ~IsDuplicate(member)
  /\ Advance("members")
  /\ UNCHANGED <<limits, invariants, root, merges, walks, walk, cancelled>>

\* mutant of IsWalked: only the representative of a class is walked
IsWalkedOncePerClass(m) == ~IsDuplicate(m) /\ root[m] = m /\ HasOpenPartner(m)

IsWalked(m) == ~IsDuplicate(m) /\ HasOpenPartner(m)

SkipMember ==
  /\ pc = "members" /\ ~IsWalked(member)
  /\ Advance("done")
  /\ UNCHANGED <<limits, invariants, root, merges, walks, walk, cancelled>>

BeginWalk ==
  /\ pc = "members" /\ IsWalked(member)
  /\ pc' = "discover"
  /\ UNCHANGED <<limits, invariants, root, merges, walks, member, walk, cancelled>>

Full == Graph[limits][member]

\* discovery stores its root before it looks at the flag
FindVertex ==
  /\ pc = "discover" /\ walk.found < Len(Full) /\ (~cancelled \/ walk.found = 0)
  /\ walk' = [walk EXCEPT !.found = @ + 1]
  /\ UNCHANGED <<limits, invariants, root, merges, walks, member, pc, cancelled>>

\* the flag can be seen after the last vertex too, in an attempt that finds none
EndDiscovery ==
  /\ pc = "discover"
  /\ \/ walk.found = Len(Full) /\ walk' = [walk EXCEPT !.stop = "discovered"]
     \/ walk.found > 0 /\ cancelled /\ walk' = [walk EXCEPT !.stop = "cancelled"]
  /\ pc' = "examine"
  /\ UNCHANGED <<limits, invariants, root, merges, walks, member, cancelled>>

Current == Full[walk.examined + 1]

\* match_member: the first member with the key of the target, if any
Matched == IF Current.tilting /\ Current.target \in Keys THEN {First(Current.target)} ELSE {}

Examining == pc = "examine" /\ ~cancelled /\ walk.examined < walk.found

\* mutant of IsNews: only a match with the walked member itself is known
IsNewsUnlessSame(m) == m # member

IsNews(m) == root[m] # root[member]

\* not tilting, cut, no member with this target, or one of the class of the walk
ExamineWithoutMerge ==
  /\ Examining /\ ~(Current.tilting /\ Current.target = Defect)
  /\ \A m \in Matched : ~IsNews(m)
  /\ walk' = [walk EXCEPT !.examined = @ + 1]
  /\ UNCHANGED <<limits, invariants, root, merges, walks, member, pc, cancelled>>

ExamineAndMerge ==
  /\ Examining
  /\ \E m \in Matched :
       /\ IsNews(m)
       /\ IF Contradicts(member, m) THEN Refuse /\ UNCHANGED walk
          ELSE /\ Join(member, m, walk.examined + 1)
               /\ walk' = [walk EXCEPT !.examined = @ + 1, !.merges = @ + 1]
               /\ UNCHANGED <<member, pc>>
  /\ UNCHANGED <<limits, invariants, walks, cancelled>>

FailTarget ==
  /\ Examining /\ Current.tilting /\ Current.target = Defect
  /\ pc' = "failed"
  /\ UNCHANGED <<limits, invariants, root, merges, walks, member, walk, cancelled>>

EndWalk ==
  /\ pc = "examine" /\ (cancelled \/ walk.examined = walk.found)
  /\ walks' = Append(walks, [member |-> member, stop |-> walk.stop, vertices |-> walk.found,
                             examined |-> walk.examined, merges |-> walk.merges])
  /\ walk' = NoWalk
  /\ IF member < Size THEN member' = member + 1 /\ pc' = "members"
                      ELSE member' = 1 /\ pc' = "done"
  /\ UNCHANGED <<limits, invariants, root, merges, cancelled>>

Classify ==
  \/ ComputeInvariants \/ FailInvariants \/ MergeDuplicate \/ SkipOriginal
  \/ SkipMember \/ BeginWalk \/ FindVertex \/ EndDiscovery
  \/ ExamineWithoutMerge \/ ExamineAndMerge \/ FailTarget \/ EndWalk

Cancel ==
  /\ ~cancelled /\ cancelled' = TRUE
  /\ UNCHANGED <<limits, invariants, root, merges, walks, member, walk, pc>>

Next == Classify \/ Cancel

Spec == Init /\ [][Next]_vars

-----------------------------------------------------------------------------
(* The result, as assemble builds it, and its verifier.                    *)

Classes == {ClassOf(m) : m \in Members}
MergesOf(C) == {k \in DOMAIN merges : merges[k].source \in C}
Unresolved == {pair \in SUBSET Classes : \E C, D \in Classes : C # D /\ pair = {C, D} /\ ~Separated(C, D)}
WalksOf(pair) == {w \in DOMAIN walks : \E C \in pair : walks[w].member \in C}

\* spanning_tree: merge k joins two members that the edges before it do not join
ClosesNoCycle(C, edges, k) ==
  \E S \in SUBSET C :
    /\ merges[k].source \in S <=> merges[k].member \notin S
    /\ \A j \in edges : j < k => (merges[j].source \in S <=> merges[j].member \in S)

SpanningTree(C, edges) ==
  /\ Cardinality(edges) + 1 = Cardinality(C)
  /\ \A k \in edges : {merges[k].source, merges[k].member} \subseteq C /\ ClosesNoCycle(C, edges, k)

\* merge_holds: the replay reaches the member, a duplicate by the identity
MergeHolds(merge) ==
  IF merge.vertex = 0 THEN MemberKey[merge.source] = MemberKey[merge.member]
  ELSE LET vertex == Graph[limits][merge.source][merge.vertex]
       IN  vertex.tilting /\ vertex.target = MemberKey[merge.member]

Verify ==
  /\ UNION Classes = Members
  /\ \A C, D \in Classes : C # D => C \cap D = {}
  /\ \A C \in Classes : SpanningTree(C, MergesOf(C))
  /\ \A k \in DOMAIN merges : MergeHolds(merges[k])

-----------------------------------------------------------------------------
(* Properties.                                                             *)

\* From outside the run only joins classes of derived equivalent members
\* (the union-find of stages.rs, join).
Partition == INSTANCE DerivedPartition WITH classes <- Classes, Equivalent <- Derived
ClassesOnlyMerge == Partition!Spec

\* Whatever is cut or cancelled, no verdict is false: the internal error
\* Contradiction never happens, separated classes are not equivalent, and when
\* every pair is settled the classes are the derived classes of the family.
VerdictsAreSound ==
  /\ pc # "contradiction"
  /\ pc = "done" =>
       /\ \A C, D \in Classes : Separated(C, D) => \A m \in C, n \in D : ~Derived(m, n)
       /\ Unresolved = {} => \A m, n \in Members : root[m] = root[n] <=> Derived(m, n)

\* Every classification the code returns passes its own verifier: a partition,
\* a spanning tree of merges in each class, and merges that replay.
ResultVerifies == pc = "done" => Verify

\* An unresolved pair names walks from every member of its classes that is not
\* a duplicate, and each of them examined every vertex it found unless it was
\* cancelled; none of those vertices gives a member of the other class
\* (UnresolvedPair::walks, has_open_partner).
OpenPairsWereWalked ==
  pc = "done" => \A pair \in Unresolved : \A m \in UNION pair :
    ~IsDuplicate(m) =>
      \E w \in WalksOf(pair) :
        /\ walks[w].member = m
        /\ walks[w].examined < walks[w].vertices => cancelled
        /\ \A v \in 1 .. walks[w].examined : \A n \in (UNION pair) \ ClassOf(m) :
             Graph[limits][m][v].tilting => Graph[limits][m][v].target # MemberKey[n]

=============================================================================
