---------------------- MODULE DerivedClassificationProofs -------------------
(***************************************************************************)
(* What a classification promises for every family: its verdicts are true, *)
(* from outside it only joins classes of equivalent members, its result    *)
(* passes its own verifier, and what it leaves open was walked. They rest  *)
(* on three inductive invariants: members with one root are equivalent and *)
(* every reading is that of its member (IInv); the merges are a forest     *)
(* whose trees are the classes (ForestInv); the walks behind the current   *)
(* member left nothing to merge (WalkedInv).                               *)
(***************************************************************************)
EXTENDS DerivedClassification, TLAPS, WellFoundedInduction, FiniteSetTheorems

Walks == [found : Nat, examined : Nat, merges : Nat, stop : {"none", "discovered", "cancelled"}]

Stages == {"invariants", "duplicates", "members", "discover", "examine", "done", "failed"}

AllReadings == {Readings(m, flag) : m \in Members, flag \in BOOLEAN}

\* a bar computation ran without a defect, or did not start
NoDefect(m, flag) == flag \/ Dimensions[limits][m] # BarDefect

\* the invariants of a member, computed before or after the cancellation
ReadingsAreTrue ==
  \A m \in DOMAIN invariants :
    \E flag \in BOOLEAN : NoDefect(m, flag) /\ invariants[m] = Readings(m, flag)

RootsAreDerived == \A m, n \in Members : root[m] = root[n] => Derived(m, n)

\* how far the readings and the walk are in each stage
StageInv ==
  /\ pc \in Stages
  /\ pc # "done" => member \in Members
  /\ pc = "invariants" => Len(invariants) + 1 = member
  /\ pc \notin {"invariants", "failed"} => DOMAIN invariants = Members
  /\ walk \in Walks
  /\ pc \in {"invariants", "duplicates", "members"} => walk.found = 0
  /\ pc \in {"discover", "examine"} => walk.found <= Len(Graph[limits][member])

IInv ==
  /\ limits \in Limits
  /\ invariants \in Seq(AllReadings)
  /\ root \in [Members -> Members]
  /\ StageInv
  /\ ReadingsAreTrue
  /\ RootsAreDerived

-----------------------------------------------------------------------------
(* The merges are a forest.                                                *)

Merges == [source : Members, member : Members, vertex : Nat]

\* merge k joins two members that no merge before it joins
Crosses(S, k) == merges[k].source \in S <=> merges[k].member \notin S
JoinsApart(k) ==
  \E S \in SUBSET Members : Crosses(S, k) /\ \A j \in DOMAIN merges : j < k => ~Crosses(S, j)

MergesHold ==
  \A k \in DOMAIN merges :
    /\ root[merges[k].source] = root[merges[k].member]
    /\ MergeHolds(merges[k]) /\ JoinsApart(k)

\* a tree has one edge less than it has vertices
TreesCount ==
  \A m \in Members : Cardinality(MergesOf(ClassOf(m))) + 1 = Cardinality(ClassOf(m))

\* up to the stage of the duplicates a member that was not reached is alone
RootsAreBelow ==
  /\ pc = "invariants" => \A m \in Members : root[m] = m
  /\ pc = "duplicates" => \A m \in Members : IF m >= member THEN root[m] = m ELSE root[m] < member

ForestInv == merges \in Seq(Merges) /\ MergesHold /\ TreesCount /\ RootsAreBelow

-----------------------------------------------------------------------------
(* The walks a result records.                                             *)

\* the stage of the duplicates has passed member m
Indexed(m) ==
  \/ pc \in {"members", "discover", "examine", "done"}
  \/ pc = "duplicates" /\ m < member

DuplicatesJoined == \A m \in Members : Indexed(m) => root[First(MemberKey[m])] = root[m]

\* the stage of the walks has passed member m
Passed(m) ==
  \/ pc = "done"
  \/ pc \in {"members", "discover", "examine"} /\ m < member

\* the first n vertices of the walk from m give no member of another class
Explored(m, n) ==
  \A v \in 1 .. n, x \in Members :
    Graph[limits][m][v].tilting /\ Graph[limits][m][v].target = MemberKey[x] => root[x] = root[m]

WalkRecords == [member : Members, stop : {"none", "discovered", "cancelled"},
                vertices : Nat, examined : Nat, merges : Nat]

WalksAreTrue ==
  \A w \in DOMAIN walks : /\ Explored(walks[w].member, walks[w].examined)
                          /\ walks[w].examined < walks[w].vertices => cancelled

\* the walk in progress
WalkIsTrue ==
  /\ walk.examined <= walk.found
  /\ pc \in {"invariants", "duplicates", "members", "discover"} => walk.examined = 0
  /\ pc = "examine" => Explored(member, walk.examined)

HasWalk(m) == \E w \in DOMAIN walks : walks[w].member = m

PassedAreSettled ==
  \A m \in Members : Passed(m) => IsDuplicate(m) \/ HasWalk(m) \/ ~HasOpenPartner(m)

WalkedInv ==
  /\ walks \in Seq(WalkRecords) /\ cancelled \in BOOLEAN
  /\ WalksAreTrue /\ WalkIsTrue /\ DuplicatesJoined /\ PassedAreSettled

-----------------------------------------------------------------------------
(* The family and its keys.                                                *)

\* Every nonempty set of positions has a first one.
LEMMA FirstExists ==
  ASSUME NEW S \in SUBSET Nat, S # {}
  PROVE  \E m \in S : \A n \in S : ~(n < m)
<1>1. \E m \in S : \A n \in S : ~(<<n, m>> \in OpToRel(<, Nat))
  BY NatLessThanWellFounded, WFMin
<1>2. \A m, n \in Nat : n < m => <<n, m>> \in OpToRel(<, Nat)
  BY DEF OpToRel
<1>. QED
  BY <1>1, <1>2

\* FamilyIndex resolves the key of a member to the first member with that key.
LEMMA FirstHasKey ==
  ASSUME NEW key \in Keys
  PROVE  /\ First(key) \in Members /\ MemberKey[First(key)] = key
         /\ \A n \in Members : MemberKey[n] = key => First(key) <= n
<1>. DEFINE S == {m \in Members : MemberKey[m] = key}
<1>1. S # {} /\ S \in SUBSET Nat
  BY DEF Keys, Members
<1>2. PICK m \in S : \A n \in S : ~(n < m)
  BY <1>1, FirstExists
<1>3. m \in Members /\ MemberKey[m] = key /\ \A n \in 1 .. m - 1 : MemberKey[n] # key
  BY <1>2, FamilyAssumption DEF Members
<1>4. /\ First(key) \in Members /\ MemberKey[First(key)] = key
      /\ \A n \in 1 .. First(key) - 1 : MemberKey[n] # key
  BY <1>3 DEF First
<1>. QED
  BY <1>4, FamilyAssumption DEF Members

-----------------------------------------------------------------------------
(* Separation.                                                             *)

\* Two readings of one kind differ only between members that are not equivalent.
LEMMA ReadingsSeparate ==
  ASSUME limits \in Limits, NEW m \in Members, NEW n \in Members, Derived(m, n),
         NEW f \in BOOLEAN, NEW g \in BOOLEAN, NoDefect(m, f), NoDefect(n, g), NEW kind \in Kinds,
         Readings(m, f)[kind].finished, Readings(n, g)[kind].finished
  PROVE  ~DiffersFrom(kind, Readings(m, f)[kind].value, Readings(n, g)[kind].value)
<1>1. CASE kind = "cartan"
  BY <1>1, InvariantAssumption DEF Readings, Kinds, DiffersFrom
<1>2. CASE kind = "winding"
  BY <1>2, InvariantAssumption DEF Readings, Kinds, DiffersFrom
<1>. DEFINE left == IF f THEN <<>> ELSE Dimensions[limits][m]
            right == IF g THEN <<>> ELSE Dimensions[limits][n]
<1>3. left # <<>> => left \in Seq(Int) /\ left # BarDefect /\ left = Dimensions[limits][m]
  BY FamilyAssumption DEF NoDefect
<1>4. right # <<>> => right \in Seq(Int) /\ right # BarDefect /\ right = Dimensions[limits][n]
  BY FamilyAssumption DEF NoDefect
<1>5. left # <<>> /\ right # <<>> =>
        \A i \in DOMAIN left \cap DOMAIN right : left[i] = right[i]
  BY <1>3, <1>4, InvariantAssumption
<1>6. CASE kind = "dimensions"
  <2>1. /\ Readings(m, f)[kind] = [finished |-> left # <<>>, value |-> left]
        /\ Readings(n, g)[kind] = [finished |-> right # <<>>, value |-> right]
    BY <1>6 DEF Readings, Kinds
  <2>2. left # <<>>
    <3>1. CASE left = <<>>
      <4>1. ~[finished |-> left # <<>>, value |-> left].finished
        BY <3>1
      <4>. QED
        BY <2>1, <4>1
    <3>. QED
      BY <3>1
  <2>3. right # <<>>
    <3>1. CASE right = <<>>
      <4>1. ~[finished |-> right # <<>>, value |-> right].finished
        BY <3>1
      <4>. QED
        BY <2>1, <4>1
    <3>. QED
      BY <3>1
  <2>. QED
    BY <1>5, <1>6, <2>1, <2>2, <2>3 DEF DiffersFrom
<1>7. CASE kind = "center"
  <2>1. /\ Readings(m, f)[kind] = IF left = <<>> THEN Stopped ELSE Finished(left[1])
        /\ Readings(n, g)[kind] = IF right = <<>> THEN Stopped ELSE Finished(right[1])
    BY <1>7 DEF Readings, Kinds
  <2>2. left # <<>> /\ right # <<>>
    BY <2>1 DEF Stopped
  <2>3. 1 \in DOMAIN left \cap DOMAIN right
    BY <1>3, <1>4, <2>2
  <2>4. left[1] = right[1]
    BY <1>5, <2>2, <2>3
  <2>. QED
    BY <1>7, <2>1, <2>2, <2>4 DEF DiffersFrom, Finished
<1>. QED
  BY <1>1, <1>2, <1>6, <1>7 DEF Kinds

\* What separates two classes is true of every pair of their members.
LEMMA SeparationIsSound ==
  ASSUME limits \in Limits, ReadingsAreTrue, RootsAreDerived, DOMAIN invariants = Members,
         NEW a \in Members, NEW b \in Members, Separated(ClassOf(a), ClassOf(b))
  PROVE  ~Derived(a, b)
<1>1. PICK m \in ClassOf(a), n \in ClassOf(b) : Separates(m, n)
  BY DEF Separated
<1>2. m \in Members /\ n \in Members /\ Derived(m, a) /\ Derived(n, b)
  BY DEF ClassOf, RootsAreDerived
<1>3. PICK kind \in Kinds : /\ invariants[m][kind].finished /\ invariants[n][kind].finished
                            /\ DiffersFrom(kind, invariants[m][kind].value,
                                           invariants[n][kind].value)
  BY <1>1 DEF Separates
<1>4. PICK f \in BOOLEAN : NoDefect(m, f) /\ invariants[m] = Readings(m, f)
  BY <1>2 DEF ReadingsAreTrue
<1>5. PICK g \in BOOLEAN : NoDefect(n, g) /\ invariants[n] = Readings(n, g)
  BY <1>2 DEF ReadingsAreTrue
<1>6. ~Derived(m, n)
  BY <1>2, <1>3, <1>4, <1>5, ReadingsSeparate
<1>. QED
  BY <1>2, <1>6 DEF Derived

-----------------------------------------------------------------------------
(* Joining.                                                                *)

\* Joining two equivalent members keeps roots among equivalent members.
LEMMA JoinedRoots ==
  ASSUME root \in [Members -> Members], RootsAreDerived,
         NEW a \in Members, NEW b \in Members, Derived(a, b), root' = Joined(a, b)
  PROVE  root' \in [Members -> Members] /\ RootsAreDerived'
<1>1. /\ Smaller(root[a], root[b]) \in {root[a], root[b]}
      /\ Larger(root[a], root[b]) \in {root[a], root[b]}
  BY DEF Smaller, Larger
<1>2. root' \in [Members -> Members]
  BY <1>1 DEF Joined
<1>3. \A m \in Members : \/ root'[m] = root[m]
                         \/ root'[m] \in {root[a], root[b]} /\ Derived(m, a)
  BY <1>1 DEF Joined, RootsAreDerived, Derived
<1>. QED
  BY <1>2, <1>3 DEF RootsAreDerived, Derived

\* Joining two classes makes one of them and leaves the others alone.
LEMMA JoinedClass ==
  ASSUME root \in [Members -> Members], NEW a \in Members, NEW b \in Members,
         root[a] # root[b], root' = Joined(a, b)
  PROVE  /\ \A m \in ClassOf(a) \cup ClassOf(b) : ClassOf(m)' = ClassOf(a) \cup ClassOf(b)
         /\ \A m \in Members \ (ClassOf(a) \cup ClassOf(b)) : ClassOf(m)' = ClassOf(m)
         /\ \A m, n \in Members : root[m] = root[n] => root'[m] = root'[n]
         /\ root'[a] = root'[b]
<1>. DEFINE s == Smaller(root[a], root[b])
            l == Larger(root[a], root[b])
<1>1. {s, l} = {root[a], root[b]} /\ s # l
  <2>1. root[a] \in Int /\ root[b] \in Int
    BY FamilyAssumption DEF Members
  <2>. QED
    BY <2>1 DEF Smaller, Larger
<1>2. \A m \in Members : root'[m] = IF root[m] = l THEN s ELSE root[m]
  BY DEF Joined
<1>. HIDE DEF s, l
<1>3. \A m \in ClassOf(a) \cup ClassOf(b) : ClassOf(m)' = ClassOf(a) \cup ClassOf(b)
  BY <1>1, <1>2 DEF ClassOf
<1>4. \A m \in Members \ (ClassOf(a) \cup ClassOf(b)) : ClassOf(m)' = ClassOf(m)
  BY <1>1, <1>2 DEF ClassOf
<1>. QED
  BY <1>1, <1>2, <1>3, <1>4

\* Joining is a step Join of the abstract partition, or changes nothing.
LEMMA JoinedClasses ==
  ASSUME root \in [Members -> Members], RootsAreDerived,
         NEW a \in Members, NEW b \in Members, Derived(a, b), root' = Joined(a, b)
  PROVE  Partition!Next \/ UNCHANGED Classes
<1>. DEFINE C == ClassOf(a)
            D == ClassOf(b)
<1>1. CASE root[a] = root[b]
  <2>1. \A m \in Members : root'[m] = root[m]
    BY <1>1 DEF Joined, Smaller, Larger
  <2>. QED
    BY <2>1 DEF Classes, ClassOf
<1>2. CASE root[a] # root[b]
  <2>3. \A m \in C \cup D : ClassOf(m)' = C \cup D
    BY <1>2, JoinedClass
  <2>4. \A m \in Members \ (C \cup D) : ClassOf(m)' = ClassOf(m)
    BY <1>2, JoinedClass
  <2>5. a \in C /\ b \in D /\ C # D /\ C \subseteq Members /\ D \subseteq Members
    BY <1>2 DEF ClassOf
  <2>6. \A m \in Members : m \in C \cup D \/ ClassOf(m) \notin {C, D}
    BY DEF ClassOf
  <2>7. \A m \in C \cup D : ClassOf(m) \in {C, D}
    BY DEF ClassOf
  <2>8. Classes' = (Classes \ {C, D}) \cup {C \cup D}
    <3>1. Classes' \subseteq (Classes \ {C, D}) \cup {C \cup D}
      BY <2>3, <2>4, <2>6 DEF Classes
    <3>2. C \cup D \in Classes'
      BY <2>3, <2>5 DEF Classes
    <3>3. Classes \ {C, D} \subseteq Classes'
      BY <2>4, <2>7 DEF Classes
    <3>. QED
      BY <3>1, <3>2, <3>3
  <2>9. \A m \in C, n \in D : Derived(m, n)
    BY DEF ClassOf, RootsAreDerived, Derived
  <2>10. C \in Classes /\ D \in Classes
    BY DEF Classes
  <2>. QED
    BY <2>5, <2>8, <2>9, <2>10 DEF Partition!Next, Partition!Join
<1>. QED
  BY <1>1, <1>2

-----------------------------------------------------------------------------
(* Merges are true.                                                        *)

\* A key resolves to a member that has it, and so to an equivalent one.
LEMMA DuplicateIsDerived ==
  ASSUME NEW m \in Members
  PROVE  First(MemberKey[m]) \in Members /\ Derived(First(MemberKey[m]), m)
<1>1. First(MemberKey[m]) \in Members /\ MemberKey[First(MemberKey[m])] = MemberKey[m]
  BY FirstHasKey DEF Keys
<1>. QED
  BY <1>1, FamilyAssumption

\* By Rickard's theorem, what a tilting vertex matches is equivalent to the member.
LEMMA MatchIsDerived ==
  ASSUME IInv, Examining, pc = "examine", NEW m \in Matched
  PROVE  m \in Members /\ Derived(member, m)
<1>1. Current.target \in Keys /\ m = First(Current.target)
  BY DEF Matched
<1>2. m \in Members /\ MemberKey[m] = Current.target
  BY <1>1, FirstHasKey
<1>3. walk.examined + 1 \in DOMAIN Graph[limits][member]
  <2>1. member \in Members /\ limits \in Limits
    BY DEF IInv, StageInv
  <2>2. Len(Graph[limits][member]) \in Nat
        /\ DOMAIN Graph[limits][member] = 1 .. Len(Graph[limits][member])
    BY <2>1, FamilyAssumption
  <2>3. /\ walk.found \in Nat /\ walk.examined \in Nat
        /\ walk.examined < walk.found /\ walk.found <= Len(Graph[limits][member])
    BY DEF IInv, StageInv, Walks, Examining
  <2>. QED
    BY <2>2, <2>3
<1>. QED
  BY <1>2, <1>3, RickardAssumption DEF Current, Full, IInv, StageInv

\* No merge meets a contradiction.
LEMMA NeverContradicts ==
  ASSUME IInv, pc \notin {"invariants", "failed"},
         NEW a \in Members, NEW b \in Members, Derived(a, b)
  PROVE  ~Contradicts(a, b)
BY SeparationIsSound DEF Contradicts, IInv, StageInv

-----------------------------------------------------------------------------
(* The invariant.                                                          *)

\* The invariant holds before the first reading.
LEMMA InitInvariant == Init => IInv
<1>. SUFFICES ASSUME Init PROVE IInv
  OBVIOUS
<1>1. invariants \in Seq(AllReadings) /\ DOMAIN invariants = {} /\ Len(invariants) = 0
  BY DEF Init
<1>2. root \in [Members -> Members] /\ RootsAreDerived
  BY DEF Init, RootsAreDerived, Derived
<1>3. StageInv
  <2>1. walk \in Walks /\ walk.found = 0
    BY DEF Init, NoWalk, Walks
  <2>2. pc \in {"done", "invariants"} /\ (pc # "done" => Members # {}) /\ member = 1
    BY DEF Init
  <2>3. pc # "done" => 1 \in Members
    BY <2>2, FamilyAssumption DEF Members
  <2>. QED
    BY <1>1, <2>1, <2>2, <2>3 DEF Init, StageInv, Stages, Members
<1>. QED
  BY <1>1, <1>2, <1>3 DEF Init, IInv, ReadingsAreTrue

\* A reading depends on the limits of the run alone.
LEMMA ReadingsKeep ==
  ASSUME UNCHANGED limits
  PROVE  /\ \A m, flag : Readings(m, flag)' = Readings(m, flag)
         /\ \A m, flag : NoDefect(m, flag)' = NoDefect(m, flag)
         /\ AllReadings' = AllReadings
         /\ UNCHANGED invariants /\ ReadingsAreTrue => ReadingsAreTrue'
<1>1. \A m, flag : Readings(m, flag)' = Readings(m, flag)
  BY DEF Readings
<1>2. \A m, flag : NoDefect(m, flag)' = NoDefect(m, flag)
  BY DEF NoDefect
<1>3. AllReadings' = AllReadings
  BY <1>1 DEF AllReadings
<1>. QED
  BY <1>1, <1>2, <1>3 DEF ReadingsAreTrue

\* The stages that read the invariants and the roots keep both.
LEMMA Unchanged ==
  ASSUME IInv, UNCHANGED <<limits, invariants, root>>, StageInv'
  PROVE  IInv'
<1>1. ReadingsAreTrue'
  BY ReadingsKeep DEF IInv
<1>2. RootsAreDerived'
  BY DEF IInv, RootsAreDerived
<1>3. AllReadings' = AllReadings
  BY ReadingsKeep
<1>. QED
  BY <1>1, <1>2, <1>3 DEF IInv

\* A stage over the members ends in the next stage or goes on.
LEMMA AdvanceStage ==
  ASSUME NEW next, member \in Members, Advance(next)
  PROVE  /\ member' \in Members
         /\ \/ pc' = pc /\ member < Size /\ member' = member + 1
            \/ pc' = next /\ member = Size
BY FamilyAssumption DEF Advance, Members

\* A reading is that of its member: complete, or empty after a cancellation.
LEMMA ComputeStep == IInv /\ ComputeInvariants => IInv'
<1>. SUFFICES ASSUME IInv, ComputeInvariants PROVE IInv'
  OBVIOUS
<1>. DEFINE reading == Readings(member, cancelled)
<1>. USE DEF ComputeInvariants
<1>0. limits \in Limits /\ member \in Members /\ Len(invariants) + 1 = member
      /\ invariants \in Seq(AllReadings)
  BY DEF IInv, StageInv
<1>1. \E flag \in BOOLEAN : NoDefect(member, flag) /\ reading = Readings(member, flag)
  <2>1. CASE cancelled
    <3>1. reading = Readings(member, TRUE)
      BY <2>1 DEF Readings
    <3>. QED
      BY <3>1 DEF NoDefect
  <2>2. CASE ~cancelled
    <3>1. reading = Readings(member, FALSE)
      BY <2>2 DEF Readings
    <3>. QED
      BY <2>2, <3>1 DEF NoDefect
  <2>. QED
    BY <2>1, <2>2
<1>2. reading \in AllReadings
  BY <1>0, <1>1 DEF AllReadings
<1>. HIDE DEF reading
<1>3. /\ invariants' = Append(invariants, reading)
      /\ invariants' \in Seq(AllReadings) /\ Len(invariants') = member
      /\ DOMAIN invariants' = 1 .. member
      /\ invariants'[member] = reading
      /\ \A m \in DOMAIN invariants : m # member => invariants'[m] = invariants[m]
      /\ DOMAIN invariants = 1 .. member - 1
  BY <1>0, <1>2, FamilyAssumption DEF reading, Members
<1>4. ReadingsAreTrue'
  <2>1. \A m, flag : /\ Readings(m, flag)' = Readings(m, flag)
                     /\ NoDefect(m, flag)' = NoDefect(m, flag)
    BY ReadingsKeep
  <2>2. \A m \in DOMAIN invariants' :
          \E flag \in BOOLEAN : NoDefect(m, flag) /\ invariants'[m] = Readings(m, flag)
    <3>. TAKE m \in DOMAIN invariants'
    <3>1. CASE m = member
      BY <1>1, <1>3, <3>1
    <3>2. CASE m # member
      <4>1. m \in DOMAIN invariants
        BY <1>0, <1>3, <3>2, FamilyAssumption DEF Members
      <4>. QED
        BY <1>3, <3>2, <4>1 DEF IInv, ReadingsAreTrue
    <3>. QED
      BY <3>1, <3>2
  <2>. QED
    BY <2>1, <2>2 DEF ReadingsAreTrue
<1>5. AllReadings' = AllReadings
  BY ReadingsKeep
<1>6. StageInv'
  <2>1. \/ pc' = "invariants" /\ member' \in Members /\ member' = member + 1
        \/ pc' = "duplicates" /\ member' \in Members /\ member = Size
    BY <1>0, AdvanceStage
  <2>2. pc' = "duplicates" => DOMAIN invariants' = Members
    BY <1>3, <2>1 DEF Members
  <2>. QED
    BY <1>0, <1>3, <2>1, <2>2, FamilyAssumption DEF IInv, StageInv, Stages, Members
<1>. QED
  BY <1>3, <1>4, <1>5, <1>6 DEF IInv, RootsAreDerived

\* A duplicate joins the class of the first member with its key.
LEMMA DuplicateStep == IInv /\ MergeDuplicate => IInv'
<1>. SUFFICES ASSUME IInv, MergeDuplicate PROVE IInv'
  OBVIOUS
<1>. DEFINE original == First(MemberKey[member])
<1>1. /\ pc = "duplicates" /\ member \in Members /\ DOMAIN invariants = Members
      /\ root \in [Members -> Members] /\ RootsAreDerived
  BY DEF MergeDuplicate, IInv, StageInv
<1>2. original \in Members /\ Derived(original, member) /\ ~Contradicts(original, member)
  BY <1>1, DuplicateIsDerived, NeverContradicts
<1>3. root' = Joined(original, member) /\ Advance("members")
      /\ UNCHANGED <<limits, invariants, walks, walk, cancelled>>
  BY <1>2 DEF MergeDuplicate, Join
<1>4. root' \in [Members -> Members] /\ RootsAreDerived'
  BY <1>1, <1>2, <1>3, JoinedRoots
<1>5. StageInv'
  BY <1>1, <1>3, AdvanceStage DEF IInv, StageInv, Stages
<1>6. ReadingsAreTrue' /\ AllReadings' = AllReadings
  BY <1>3, ReadingsKeep DEF IInv
<1>. QED
  BY <1>3, <1>4, <1>5, <1>6 DEF IInv

\* A match joins two classes of equivalent members, so nothing contradicts it.
LEMMA MergeStep == IInv /\ ExamineAndMerge => IInv'
<1>. SUFFICES ASSUME IInv, ExamineAndMerge PROVE IInv'
  OBVIOUS
<1>1. /\ pc = "examine" /\ member \in Members /\ Examining
      /\ root \in [Members -> Members] /\ RootsAreDerived
  BY DEF ExamineAndMerge, Examining, IInv, StageInv
<1>2. PICK m \in Matched :
        /\ IsNews(m)
        /\ IF Contradicts(member, m) THEN Refuse /\ UNCHANGED walk
           ELSE /\ Join(member, m, walk.examined + 1)
                /\ walk' = [walk EXCEPT !.examined = @ + 1, !.merges = @ + 1]
                /\ UNCHANGED <<member, pc>>
  BY DEF ExamineAndMerge
<1>3. m \in Members /\ Derived(member, m) /\ ~Contradicts(member, m)
  BY <1>1, MatchIsDerived, NeverContradicts
<1>4. /\ root' = Joined(member, m)
      /\ walk' = [walk EXCEPT !.examined = @ + 1, !.merges = @ + 1]
      /\ UNCHANGED <<limits, invariants, member, pc>>
  BY <1>2, <1>3 DEF ExamineAndMerge, Join
<1>5. root' \in [Members -> Members] /\ RootsAreDerived'
  BY <1>1, <1>3, <1>4, JoinedRoots
<1>6. StageInv'
  <2>1. walk \in Walks
    BY DEF IInv, StageInv
  <2>2. /\ walk.examined + 1 \in Nat /\ walk.merges + 1 \in Nat
        /\ walk' = [walk EXCEPT !.examined = walk.examined + 1, !.merges = walk.merges + 1]
    BY <1>4, <2>1 DEF Walks
  <2>3. walk' \in Walks /\ walk'.found = walk.found
    BY <2>1, <2>2 DEF Walks
  <2>. QED
    BY <1>1, <1>4, <2>3 DEF IInv, StageInv, Stages
<1>7. ReadingsAreTrue' /\ AllReadings' = AllReadings
  BY <1>4, ReadingsKeep DEF IInv
<1>. QED
  BY <1>4, <1>5, <1>6, <1>7 DEF IInv

\* Members that need no walk change nothing but the position.
LEMMA SkipStep == IInv /\ (SkipOriginal \/ SkipMember) => IInv'
<1>. SUFFICES ASSUME IInv, SkipOriginal \/ SkipMember PROVE IInv'
  OBVIOUS
<1>1. /\ UNCHANGED <<limits, invariants, root, walk>>
      /\ pc \in {"duplicates", "members"} /\ member \in Members
      /\ Advance("members") \/ Advance("done")
  BY DEF SkipOriginal, SkipMember, IInv, StageInv
<1>2. member' \in Members /\ pc' \in {"duplicates", "members", "done"}
  BY <1>1, AdvanceStage
<1>3. StageInv'
  BY <1>1, <1>2 DEF IInv, StageInv, Stages
<1>. QED
  BY <1>1, <1>3, Unchanged

\* Vertices are found and examined without touching the partition.
LEMMA WalkStep == IInv /\ (FindVertex \/ EndDiscovery \/ ExamineWithoutMerge) => IInv'
<1>. SUFFICES ASSUME IInv, FindVertex \/ EndDiscovery \/ ExamineWithoutMerge PROVE IInv'
  OBVIOUS
<1>1. /\ UNCHANGED <<limits, invariants, root, member>>
      /\ pc \in {"discover", "examine"} /\ pc' \in {"discover", "examine"}
      /\ member \in Members /\ limits \in Limits /\ walk \in Walks
      /\ walk.found <= Len(Graph[limits][member])
      /\ DOMAIN invariants = Members
  BY DEF FindVertex, EndDiscovery, ExamineWithoutMerge, Examining, IInv, StageInv
<1>2. Len(Graph[limits][member]) \in Nat
  BY <1>1, FamilyAssumption
<1>3. walk' \in Walks /\ walk'.found <= Len(Graph[limits][member])
  <2>1. CASE FindVertex
    BY <1>1, <1>2, <2>1 DEF FindVertex, Full, Walks
  <2>2. CASE EndDiscovery
    BY <1>1, <1>2, <2>2 DEF EndDiscovery, Walks
  <2>3. CASE ExamineWithoutMerge
    BY <1>1, <1>2, <2>3 DEF ExamineWithoutMerge, Walks
  <2>. QED
    BY <2>1, <2>2, <2>3
<1>4. StageInv'
  BY <1>1, <1>3 DEF StageInv, Stages
<1>. QED
  BY <1>1, <1>4, Unchanged

\* Walks begin and end, and the run fails, without touching the partition.
LEMMA OtherStep ==
  IInv /\ (BeginWalk \/ EndWalk \/ FailInvariants \/ FailTarget \/ Cancel) => IInv'
<1>. SUFFICES ASSUME IInv, BeginWalk \/ EndWalk \/ FailInvariants \/ FailTarget \/ Cancel
     PROVE  IInv'
  OBVIOUS
<1>1. UNCHANGED <<limits, invariants, root>>
  BY DEF BeginWalk, EndWalk, FailInvariants, FailTarget, Cancel
<1>2. StageInv'
  <2>1. CASE BeginWalk
    <3>1. walk.found = 0
      BY <2>1 DEF BeginWalk, IInv, StageInv
    <3>. QED
      BY <1>1, <2>1, <3>1, FamilyAssumption DEF BeginWalk, IInv, StageInv, Stages
  <2>2. CASE EndWalk
    <3>1. walk' \in Walks /\ walk'.found = 0
      BY <2>2 DEF EndWalk, NoWalk, Walks
    <3>2. pc = "examine" /\ member \in Members /\ DOMAIN invariants = Members
      BY <2>2 DEF EndWalk, IInv, StageInv
    <3>3. pc' \in {"members", "done"} /\ member' \in Members
      BY <2>2, <3>2, FamilyAssumption DEF EndWalk, Members
    <3>. QED
      BY <1>1, <3>1, <3>2, <3>3 DEF StageInv, Stages
  <2>3. CASE FailInvariants \/ FailTarget
    BY <1>1, <2>3 DEF FailInvariants, FailTarget, Examining, IInv, StageInv, Stages
  <2>4. CASE Cancel
    BY <2>4 DEF Cancel, IInv, StageInv
  <2>. QED
    BY <2>1, <2>2, <2>3, <2>4
<1>. QED
  BY <1>1, <1>2, Unchanged

\* Every step preserves the invariant.
LEMMA NextInvariant == IInv /\ [Next]_vars => IInv'
<1>. SUFFICES ASSUME IInv, [Next]_vars PROVE IInv'
  OBVIOUS
<1>1. CASE UNCHANGED vars
  <2>1. StageInv'
    BY <1>1 DEF vars, IInv, StageInv
  <2>. QED
    BY <1>1, <2>1, Unchanged DEF vars
<1>2. CASE Next
  BY <1>2, ComputeStep, DuplicateStep, MergeStep, SkipStep, WalkStep, OtherStep
     DEF Next, Classify
<1>. QED
  BY <1>1, <1>2

\* Readings are those of the members and classes have equivalent members, for
\* every family, every limit and every moment of cancellation (classify, join).
THEOREM Invariance == Spec => []IInv
<1>. QED
  BY InitInvariant, NextInvariant, PTL DEF Spec

-----------------------------------------------------------------------------
(* The theorems.                                                           *)

\* The invariant makes every verdict true.
LEMMA VerdictsFollow == IInv => VerdictsAreSound
<1>. SUFFICES ASSUME IInv PROVE VerdictsAreSound
  OBVIOUS
<1>1. pc # "contradiction"
  BY DEF IInv, StageInv, Stages
<1>. SUFFICES ASSUME pc = "done"
     PROVE  /\ \A C, D \in Classes : Separated(C, D) => \A m \in C, n \in D : ~Derived(m, n)
            /\ Unresolved = {} => \A m, n \in Members : root[m] = root[n] <=> Derived(m, n)
  BY <1>1 DEF VerdictsAreSound
<1>2. ASSUME NEW m \in Members, NEW n \in Members, Separated(ClassOf(m), ClassOf(n))
      PROVE  ~Derived(m, n)
  BY <1>2, SeparationIsSound DEF IInv, StageInv
<1>3. \A C, D \in Classes : Separated(C, D) => \A m \in C, n \in D : ~Derived(m, n)
  <2>1. \A C \in Classes : \A m \in C : m \in Members /\ C = ClassOf(m)
    BY DEF Classes, ClassOf
  <2>. QED
    BY <1>2, <2>1
<1>4. ASSUME Unresolved = {}, NEW m \in Members, NEW n \in Members, Derived(m, n)
      PROVE  root[m] = root[n]
  <2>1. {ClassOf(m), ClassOf(n)} \in SUBSET Classes
    BY DEF Classes
  <2>2. ~Separated(ClassOf(m), ClassOf(n))
    BY <1>2, <1>4
  <2>3. ClassOf(m) = ClassOf(n)
    BY <1>4, <2>1, <2>2 DEF Unresolved
  <2>. QED
    BY <2>3 DEF ClassOf
<1>. QED
  BY <1>3, <1>4 DEF IInv, RootsAreDerived

\* No run ends in a contradiction, separated classes are not equivalent, and
\* when every pair is settled the classes are the derived classes of the family.
THEOREM SoundVerdicts == Spec => []VerdictsAreSound
<1>. QED
  BY Invariance, VerdictsFollow, PTL

\* At first every member is a class of its own.
LEMMA MappedInit == Init => Partition!Init
<1>. SUFFICES ASSUME Init PROVE Partition!Init
  OBVIOUS
<1>1. \A m \in Members : ClassOf(m) = {m}
  BY DEF Init, ClassOf
<1>. QED
  BY <1>1 DEF Partition!Init, Classes

\* A merge joins two classes; every other step leaves the partition alone.
LEMMA MappedNext == IInv /\ [Next]_vars => [Partition!Next]_Classes
<1>. SUFFICES ASSUME IInv, [Next]_vars PROVE Partition!Next \/ UNCHANGED Classes
  OBVIOUS
<1>0. root \in [Members -> Members] /\ RootsAreDerived
  BY DEF IInv
<1>1. CASE MergeDuplicate
  <2>1. pc = "duplicates" /\ member \in Members
    BY <1>1 DEF MergeDuplicate, IInv, StageInv
  <2>2. /\ First(MemberKey[member]) \in Members /\ Derived(First(MemberKey[member]), member)
        /\ ~Contradicts(First(MemberKey[member]), member)
    BY <2>1, DuplicateIsDerived, NeverContradicts
  <2>3. root' = Joined(First(MemberKey[member]), member)
    BY <1>1, <2>2 DEF MergeDuplicate, Join
  <2>. QED
    BY <1>0, <2>1, <2>2, <2>3, JoinedClasses
<1>2. CASE ExamineAndMerge
  <2>1. Examining /\ pc = "examine" /\ member \in Members
    BY <1>2 DEF ExamineAndMerge, Examining, IInv, StageInv
  <2>2. PICK m \in Matched : IF Contradicts(member, m) THEN Refuse /\ UNCHANGED walk
                             ELSE Join(member, m, walk.examined + 1)
    BY <1>2 DEF ExamineAndMerge
  <2>3. m \in Members /\ Derived(member, m) /\ ~Contradicts(member, m)
    BY <2>1, MatchIsDerived, NeverContradicts
  <2>4. root' = Joined(member, m)
    BY <2>2, <2>3 DEF Join
  <2>. QED
    BY <1>0, <2>1, <2>3, <2>4, JoinedClasses
<1>3. CASE UNCHANGED root
  BY <1>3 DEF Classes, ClassOf
<1>. QED
  BY <1>1, <1>2, <1>3
     DEF Next, Classify, vars, Cancel, ComputeInvariants, FailInvariants, SkipOriginal,
         SkipMember, BeginWalk, FindVertex, EndDiscovery, ExamineWithoutMerge, FailTarget,
         EndWalk

\* The classification implements the abstract partition: classes are joined,
\* never split, and only when their members are derived equivalent.
THEOREM ImplementsPartition == Spec => ClassesOnlyMerge
<1>. QED
  BY MappedInit, MappedNext, Invariance, PTL DEF Spec, ClassesOnlyMerge, Partition!Spec

-----------------------------------------------------------------------------
(* The forest of merges.                                                   *)

\* The vertices of a class are finitely many, and so are its edges.
LEMMA FiniteTrees ==
  ASSUME merges \in Seq(Merges)
  PROVE  /\ \A S \in SUBSET Members : IsFiniteSet(S) /\ Cardinality(S) \in Nat
         /\ \A S \in SUBSET DOMAIN merges : IsFiniteSet(S) /\ Cardinality(S) \in Nat
<1>1. IsFiniteSet(Members) /\ IsFiniteSet(1 .. Len(merges))
  BY FamilyAssumption, FS_Interval DEF Members
<1>2. DOMAIN merges = 1 .. Len(merges)
  OBVIOUS
<1>. QED
  BY <1>1, <1>2, FS_Subset, FS_CardinalityType

\* An edge between two trees makes one tree of them.
LEMMA OneTree ==
  ASSUME NEW C, NEW D, NEW E, NEW F, NEW e, C \cap D = {}, E \cap F = {}, e \notin E \cup F,
         IsFiniteSet(C), IsFiniteSet(D), IsFiniteSet(E), IsFiniteSet(F),
         Cardinality(E) + 1 = Cardinality(C), Cardinality(F) + 1 = Cardinality(D)
  PROVE  Cardinality(E \cup F \cup {e}) + 1 = Cardinality(C \cup D)
<1>1. /\ Cardinality(C \cup D) = Cardinality(C) + Cardinality(D) - Cardinality(C \cap D)
      /\ IsFiniteSet(E \cup F)
      /\ Cardinality(E \cup F) = Cardinality(E) + Cardinality(F) - Cardinality(E \cap F)
  BY FS_Union
<1>2. Cardinality(E \cup F \cup {e}) = Cardinality(E \cup F) + 1
  BY <1>1, FS_AddElement
<1>3. /\ Cardinality(C) \in Nat /\ Cardinality(D) \in Nat
      /\ Cardinality(E) \in Nat /\ Cardinality(F) \in Nat
  BY FS_CardinalityType
<1>4. Cardinality(C \cap D) = 0 /\ Cardinality(E \cap F) = 0
  BY FS_EmptySet
<1>. QED
  BY <1>1, <1>2, <1>3, <1>4

\* A merge of two classes keeps the merges a forest whose trees are the classes.
LEMMA JoinKeepsForest ==
  ASSUME root \in [Members -> Members], merges \in Seq(Merges), MergesHold, TreesCount,
         NEW a \in Members, NEW b \in Members, NEW v \in Nat, root[a] # root[b],
         Join(a, b, v), UNCHANGED limits,
         MergeHolds([source |-> a, member |-> b, vertex |-> v])
  PROVE  (merges \in Seq(Merges) /\ MergesHold /\ TreesCount)'
<1>0. PICK new, k, C, D : /\ new = [source |-> a, member |-> b, vertex |-> v]
                          /\ k = Len(merges) + 1
                          /\ C = ClassOf(a) /\ D = ClassOf(b)
  OBVIOUS
<1>1. root' = Joined(a, b) /\ merges' = Append(merges, new) /\ new \in Merges
  BY <1>0 DEF Join, Merges
<1>2. /\ merges' \in Seq(Merges) /\ k \in Nat
      /\ DOMAIN merges = 1 .. Len(merges) /\ DOMAIN merges' = 1 .. k
      /\ DOMAIN merges' = DOMAIN merges \cup {k} /\ k \notin DOMAIN merges
      /\ merges'[k] = new
      /\ \A j \in DOMAIN merges : /\ merges'[j] = merges[j] /\ j < k
                                  /\ merges[j].source \in Members /\ merges[j].member \in Members
  <2>1. Len(merges) \in Nat /\ DOMAIN merges = 1 .. Len(merges)
    OBVIOUS
  <2>2. \A j \in DOMAIN merges : merges[j] \in Merges
    OBVIOUS
  <2>3. \A j \in DOMAIN merges : merges[j].source \in Members /\ merges[j].member \in Members
    BY <2>2 DEF Merges
  <2>4. /\ merges' \in Seq(Merges) /\ k \in Nat /\ DOMAIN merges' = 1 .. k
        /\ merges'[k] = new /\ \A j \in DOMAIN merges : merges'[j] = merges[j]
    BY <1>0, <1>1, <2>1
  <2>. QED
    BY <1>0, <2>1, <2>3, <2>4
<1>3. /\ \A m \in C \cup D : ClassOf(m)' = C \cup D
      /\ \A m \in Members \ (C \cup D) : ClassOf(m)' = ClassOf(m)
      /\ \A m, n \in Members : root[m] = root[n] => root'[m] = root'[n]
      /\ root'[a] = root'[b]
  BY <1>0, <1>1, JoinedClass
<1>4. C \subseteq Members /\ D \subseteq Members /\ C \cap D = {} /\ a \in C \ D /\ b \in D \ C
  BY <1>0 DEF ClassOf
<1>5. MergesHold'
  <2>0. new.source = a /\ new.member = b /\ MergeHolds(new)
    BY <1>0
  <2>1. /\ \A S : Crosses(S, k)' <=> (a \in S <=> b \notin S)
        /\ \A S : \A j \in DOMAIN merges : Crosses(S, j)' <=> Crosses(S, j)
    <3>1. \A S : Crosses(S, k)' <=> (a \in S <=> b \notin S)
      BY <1>2, <2>0 DEF Crosses
    <3>2. \A S : \A j \in DOMAIN merges : Crosses(S, j)' <=> Crosses(S, j)
      BY <1>2 DEF Crosses
    <3>. QED
      BY <3>1, <3>2
  <2>2. \A j \in DOMAIN merges : ~Crosses(D, j)
    <3>1. \A j \in DOMAIN merges : root[merges[j].source] = root[merges[j].member]
      BY DEF MergesHold
    <3>. QED
      BY <1>0, <1>2, <3>1 DEF Crosses, ClassOf
  <2>3. ASSUME NEW j \in DOMAIN merges'
        PROVE  /\ root'[merges'[j].source] = root'[merges'[j].member]
               /\ MergeHolds(merges[j])'
               /\ \E S \in SUBSET Members :
                    Crosses(S, j)' /\ \A i \in DOMAIN merges' : i < j => ~Crosses(S, i)'
    <3>1. CASE j = k
      <4>0. a \notin D /\ b \in D /\ D \in SUBSET Members
        BY <1>4
      <4>1. Crosses(D, k)'
        BY <2>1, <4>0
      <4>2. \A i \in DOMAIN merges' : i < k => i \in DOMAIN merges
        <5>1. ~(k < k) /\ DOMAIN merges' = DOMAIN merges \cup {k}
          BY <1>2, SMTT(30)
        <5>. QED
          BY <5>1
      <4>3. \A i \in DOMAIN merges' : i < k => ~Crosses(D, i)'
        BY <2>1, <2>2, <4>2
      <4>4. merges'[j].source = a /\ merges'[j].member = b /\ MergeHolds(merges[j])'
        BY <1>2, <2>0, <3>1 DEF MergeHolds
      <4>. QED
        BY <1>3, <3>1, <4>0, <4>1, <4>3, <4>4
    <3>2. CASE j \in DOMAIN merges
      <4>1. /\ root[merges[j].source] = root[merges[j].member] /\ MergeHolds(merges[j])
            /\ \E S \in SUBSET Members : /\ Crosses(S, j)
                                         /\ \A i \in DOMAIN merges : i < j => ~Crosses(S, i)
        BY <3>2 DEF MergesHold, JoinsApart
      <4>2. \A i \in DOMAIN merges' : i < j => i \in DOMAIN merges
        BY <1>2, <3>2
      <4>3. merges'[j] = merges[j]
        BY <1>2, <3>2
      <4>4. MergeHolds(merges[j])'
        BY <4>1, <4>3 DEF MergeHolds
      <4>5. \E S \in SUBSET Members :
              Crosses(S, j)' /\ \A i \in DOMAIN merges' : i < j => ~Crosses(S, i)'
        BY <2>1, <3>2, <4>1, <4>2
      <4>. QED
        BY <1>2, <1>3, <3>2, <4>1, <4>3, <4>4, <4>5
    <3>. QED
      BY <1>2, <3>1, <3>2
  <2>. QED
    BY <2>3 DEF MergesHold, JoinsApart
<1>6. TreesCount'
  <2>1. \A m \in Members : MergesOf(ClassOf(m))' = {j \in DOMAIN merges' : merges'[j].source \in ClassOf(m)'}
    BY DEF MergesOf
  <2>3. /\ DOMAIN merges' = DOMAIN merges \cup {k} /\ k \notin DOMAIN merges
        /\ merges'[k].source = a /\ \A j \in DOMAIN merges : merges'[j].source = merges[j].source
    BY <1>0, <1>2
  <2>2. ASSUME NEW m \in Members
        PROVE  Cardinality(MergesOf(ClassOf(m))') + 1 = Cardinality(ClassOf(m)')
    <3>1. CASE m \in C \cup D
      <4>. DEFINE E == MergesOf(C)
                  F == MergesOf(D)
      <4>1. E \subseteq DOMAIN merges /\ F \subseteq DOMAIN merges /\ E \cap F = {}
        BY <1>4 DEF MergesOf
      <4>2. MergesOf(ClassOf(m))' = E \cup F \cup {k}
        <5>1. MergesOf(ClassOf(m))' = {j \in DOMAIN merges' : merges'[j].source \in C \cup D}
          BY <1>3, <2>1, <3>1
        <5>2. a \in C \cup D
          BY <1>4
        <5>. QED
          BY <2>3, <5>1, <5>2 DEF MergesOf
      <4>3. Cardinality(E) + 1 = Cardinality(C) /\ Cardinality(F) + 1 = Cardinality(D)
        BY <1>0 DEF TreesCount
      <4>4. IsFiniteSet(C) /\ IsFiniteSet(D) /\ IsFiniteSet(E) /\ IsFiniteSet(F)
        BY <1>4, <4>1, FiniteTrees
      <4>5. k \notin E \cup F
        BY <1>2, <4>1
      <4>. HIDE DEF E, F
      <4>6. Cardinality(E \cup F \cup {k}) + 1 = Cardinality(C \cup D)
        BY <1>4, <4>1, <4>3, <4>4, <4>5, OneTree, SMTT(30)
      <4>. QED
        BY <1>3, <3>1, <4>2, <4>6
    <3>2. CASE m \notin C \cup D
      <4>1. ClassOf(m)' = ClassOf(m)
        BY <1>3, <3>2
      <4>2. a \notin ClassOf(m)
        BY <1>0, <1>4, <3>2 DEF ClassOf
      <4>3. MergesOf(ClassOf(m))' = MergesOf(ClassOf(m))
        <5>1. MergesOf(ClassOf(m))' = {j \in DOMAIN merges' : merges'[j].source \in ClassOf(m)}
          BY <2>1, <4>1
        <5>. QED
          BY <2>3, <4>2, <5>1 DEF MergesOf
      <4>. QED
        BY <4>1, <4>3 DEF TreesCount
    <3>. QED
      BY <3>1, <3>2
  <2>. QED
    BY <2>2 DEF TreesCount
<1>. QED
  BY <1>2, <1>5, <1>6

\* A step without a merge leaves the forest as it is.
LEMMA SameForest ==
  ASSUME ForestInv, UNCHANGED <<limits, root, merges>>, RootsAreBelow'
  PROVE  ForestInv'
<1>1. MergesHold'
  BY DEF ForestInv, MergesHold, MergeHolds, JoinsApart, Crosses
<1>2. TreesCount'
  BY DEF ForestInv, TreesCount, MergesOf, ClassOf
<1>. QED
  BY <1>1, <1>2 DEF ForestInv

\* Before its member has a walk, no merge is of a class on its own.
LEMMA InitForest == Init => ForestInv
<1>. SUFFICES ASSUME Init PROVE ForestInv
  OBVIOUS
<1>1. merges = <<>> /\ merges \in Seq(Merges) /\ DOMAIN merges = {}
  BY DEF Init
<1>2. TreesCount
  <2>1. ASSUME NEW m \in Members PROVE Cardinality(MergesOf(ClassOf(m))) + 1 = Cardinality(ClassOf(m))
    <3>1. ClassOf(m) = {m}
      BY DEF Init, ClassOf
    <3>2. MergesOf(ClassOf(m)) = {}
      BY <1>1 DEF MergesOf
    <3>. QED
      BY <3>1, <3>2, FS_EmptySet, FS_Singleton, SMTT(30)
  <2>. QED
    BY <2>1 DEF TreesCount
<1>. QED
  BY <1>1, <1>2 DEF ForestInv, MergesHold, RootsAreBelow, Init

\* The edge of a duplicate joins it to a class below it, and replays as an identity.
LEMMA DuplicateForest == IInv /\ ForestInv /\ MergeDuplicate => ForestInv'
<1>. SUFFICES ASSUME IInv, ForestInv, MergeDuplicate PROVE ForestInv'
  OBVIOUS
<1>. DEFINE original == First(MemberKey[member])
<1>1. pc = "duplicates" /\ member \in Members /\ original # member /\ root \in [Members -> Members]
  BY DEF MergeDuplicate, IInv, StageInv
<1>2. /\ original \in Members /\ MemberKey[original] = MemberKey[member]
      /\ original <= member
  BY <1>1, FirstHasKey DEF Keys
<1>3. Join(original, member, 0) /\ Advance("members") /\ UNCHANGED limits
  <2>1. ~Contradicts(original, member)
    BY <1>1, DuplicateIsDerived, NeverContradicts
  <2>. QED
    BY <2>1 DEF MergeDuplicate
<1>. HIDE DEF original
<1>4. /\ root[member] = member
      /\ root[original] < member
      /\ \A m \in Members : IF m >= member THEN root[m] = m ELSE root[m] < member
  <2>1. ~(original >= member)
    BY <1>1, <1>2, FamilyAssumption DEF Members
  <2>2. member >= member
    BY <1>1, FamilyAssumption DEF Members
  <2>. QED
    BY <1>1, <1>2, <2>1, <2>2 DEF ForestInv, RootsAreBelow
<1>5. root[original] # root[member]
  BY <1>1, <1>4, FamilyAssumption DEF Members
<1>6. MergeHolds([source |-> original, member |-> member, vertex |-> 0])
  BY <1>2 DEF MergeHolds
<1>7. (merges \in Seq(Merges) /\ MergesHold /\ TreesCount)'
  BY <1>1, <1>2, <1>3, <1>5, <1>6, JoinKeepsForest DEF ForestInv
<1>8. RootsAreBelow'
  <2>1. \A m \in Members : root'[m] = IF root[m] = member THEN root[original] ELSE root[m]
    <3>1. Larger(root[original], root[member]) = member
          /\ Smaller(root[original], root[member]) = root[original]
      BY <1>1, <1>2, <1>4, FamilyAssumption DEF Members, Larger, Smaller
    <3>. QED
      BY <1>3, <3>1 DEF Join, Joined
  <2>2. \A m \in Members : IF m >= member + 1 THEN root'[m] = m ELSE root'[m] < member + 1
    BY <1>1, <1>2, <1>4, <2>1, FamilyAssumption DEF Members
  <2>3. pc' = "members" \/ (pc' = "duplicates" /\ member' = member + 1)
    BY <1>1, <1>3, AdvanceStage
  <2>. QED
    BY <2>2, <2>3 DEF RootsAreBelow
<1>. QED
  BY <1>7, <1>8 DEF ForestInv

\* The match of the vertex under examination: its replay is the vertex.
LEMMA MatchHolds ==
  ASSUME IInv, NEW m \in Matched, m \in Members
  PROVE  /\ walk.examined + 1 \in Nat
         /\ MergeHolds([source |-> member, member |-> m, vertex |-> walk.examined + 1])
<1>1. walk.examined + 1 \in Nat /\ walk.examined + 1 # 0
  BY DEF IInv, StageInv, Walks
<1>2. Current.tilting /\ Current.target \in Keys /\ m = First(Current.target)
  BY DEF Matched
<1>3. MemberKey[m] = Current.target
  BY <1>2, FirstHasKey
<1>4. Current = Graph[limits][member][walk.examined + 1]
  BY DEF Current, Full
<1>. QED
  BY <1>1, <1>2, <1>3, <1>4 DEF MergeHolds

\* The edge of a match joins two classes, and replays as the vertex of its walk.
LEMMA MergeForest == IInv /\ ForestInv /\ ExamineAndMerge => ForestInv'
<1>. SUFFICES ASSUME IInv, ForestInv, ExamineAndMerge PROVE ForestInv'
  OBVIOUS
<1>1. pc = "examine" /\ member \in Members /\ Examining /\ root \in [Members -> Members]
  BY DEF ExamineAndMerge, Examining, IInv, StageInv
<1>2. PICK m \in Matched :
        /\ IsNews(m)
        /\ IF Contradicts(member, m) THEN Refuse /\ UNCHANGED walk
           ELSE /\ Join(member, m, walk.examined + 1)
                /\ walk' = [walk EXCEPT !.examined = @ + 1, !.merges = @ + 1]
                /\ UNCHANGED <<member, pc>>
  BY DEF ExamineAndMerge
<1>3. m \in Members /\ ~Contradicts(member, m)
  BY <1>1, MatchIsDerived, NeverContradicts
<1>4. Join(member, m, walk.examined + 1) /\ UNCHANGED <<limits, pc>>
  BY <1>2, <1>3 DEF ExamineAndMerge
<1>5. root[member] # root[m]
  BY <1>2 DEF IsNews
<1>6. /\ walk.examined + 1 \in Nat
      /\ MergeHolds([source |-> member, member |-> m, vertex |-> walk.examined + 1])
  BY <1>3, MatchHolds
<1>7. (merges \in Seq(Merges) /\ MergesHold /\ TreesCount)'
  BY <1>1, <1>3, <1>4, <1>5, <1>6, JoinKeepsForest DEF ForestInv
<1>8. RootsAreBelow'
  BY <1>1, <1>4 DEF RootsAreBelow
<1>. QED
  BY <1>7, <1>8 DEF ForestInv

\* Every step keeps the merges a forest.
LEMMA NextForest == IInv /\ ForestInv /\ [Next]_vars => ForestInv'
<1>. SUFFICES ASSUME IInv, ForestInv, [Next]_vars PROVE ForestInv'
  OBVIOUS
<1>1. CASE ComputeInvariants
  <2>1. pc = "invariants" /\ member \in Members /\ Advance("duplicates")
        /\ UNCHANGED <<limits, root, merges>>
    BY <1>1 DEF ComputeInvariants, IInv, StageInv
  <2>2. pc' = "invariants" \/ (pc' = "duplicates" /\ member' = 1)
    BY <2>1 DEF Advance
  <2>3. \A m \in Members : root[m] = m /\ m >= 1
    BY <2>1, FamilyAssumption DEF ForestInv, RootsAreBelow, Members
  <2>4. RootsAreBelow'
    BY <2>1, <2>2, <2>3 DEF RootsAreBelow
  <2>. QED
    BY <2>1, <2>4, SameForest
<1>2. CASE SkipOriginal
  <2>1. pc = "duplicates" /\ member \in Members /\ Advance("members")
        /\ UNCHANGED <<limits, root, merges>> /\ root \in [Members -> Members]
    BY <1>2 DEF SkipOriginal, IInv, StageInv
  <2>2. pc' = "members" \/ (pc' = "duplicates" /\ member' = member + 1)
    BY <2>1, AdvanceStage
  <2>3. \A m \in Members : IF m >= member THEN root[m] = m ELSE root[m] < member
    BY <2>1 DEF ForestInv, RootsAreBelow
  <2>4. \A m \in Members : IF m >= member + 1 THEN root[m] = m ELSE root[m] < member + 1
    BY <2>1, <2>3, FamilyAssumption DEF Members
  <2>5. RootsAreBelow'
    BY <2>1, <2>2, <2>4 DEF RootsAreBelow
  <2>. QED
    BY <2>1, <2>5, SameForest
<1>3. CASE \/ SkipMember \/ BeginWalk \/ FindVertex \/ EndDiscovery \/ ExamineWithoutMerge
           \/ FailTarget \/ FailInvariants \/ EndWalk
  <2>1. UNCHANGED <<limits, root, merges>>
    BY <1>3 DEF SkipMember, BeginWalk, FindVertex, EndDiscovery, ExamineWithoutMerge,
                FailTarget, FailInvariants, EndWalk
  <2>2. pc' \notin {"invariants", "duplicates"}
    BY <1>3 DEF SkipMember, BeginWalk, FindVertex, EndDiscovery, ExamineWithoutMerge,
                FailTarget, FailInvariants, EndWalk, Advance, Examining
  <2>. QED
    BY <2>1, <2>2, SameForest DEF RootsAreBelow
<1>4. CASE Cancel \/ UNCHANGED vars
  <2>1. UNCHANGED <<limits, root, merges, pc, member>>
    BY <1>4 DEF Cancel, vars
  <2>. QED
    BY <2>1, SameForest DEF ForestInv, RootsAreBelow
<1>. QED
  BY <1>1, <1>2, <1>3, <1>4, DuplicateForest, MergeForest DEF Next, Classify

\* When a run is done, the forest is what its verifier checks.
LEMMA ForestVerifies == IInv /\ ForestInv => ResultVerifies
<1>. SUFFICES ASSUME IInv, ForestInv PROVE Verify
  BY DEF ResultVerifies
<1>1. \A C \in Classes : \A m \in C : m \in Members /\ C = ClassOf(m)
  BY DEF Classes, ClassOf
<1>2. UNION Classes = Members /\ \A C, D \in Classes : C # D => C \cap D = {}
  <2>1. \A m \in Members : m \in ClassOf(m) /\ ClassOf(m) \in Classes
    BY DEF Classes, ClassOf
  <2>. QED
    BY <1>1, <2>1
<1>3. ASSUME NEW C \in Classes PROVE SpanningTree(C, MergesOf(C))
  <2>1. PICK m \in Members : C = ClassOf(m)
    BY DEF Classes
  <2>2. Cardinality(MergesOf(C)) + 1 = Cardinality(C)
    BY <2>1 DEF ForestInv, TreesCount
  <2>3. ASSUME NEW k \in MergesOf(C)
        PROVE  /\ merges[k].source \in C /\ merges[k].member \in C
               /\ ClosesNoCycle(C, MergesOf(C), k)
    <3>1. \A j \in MergesOf(C) : /\ j \in DOMAIN merges /\ merges[j].source \in C
                                 /\ merges[j].member \in C
      <4>1. \A j \in DOMAIN merges : /\ merges[j].member \in Members
                                     /\ root[merges[j].source] = root[merges[j].member]
        <5>1. \A j \in DOMAIN merges : merges[j] \in Merges
          BY DEF ForestInv
        <5>. QED
          BY <5>1 DEF ForestInv, MergesHold, Merges
      <4>. QED
        BY <2>1, <4>1 DEF MergesOf, ClassOf
    <3>2. PICK S \in SUBSET Members :
            Crosses(S, k) /\ \A j \in DOMAIN merges : j < k => ~Crosses(S, j)
      BY <3>1 DEF ForestInv, MergesHold, JoinsApart
    <3>3. /\ S \cap C \in SUBSET C
          /\ merges[k].source \in S \cap C <=> merges[k].member \notin S \cap C
          /\ \A j \in MergesOf(C) : j < k =>
               (merges[j].source \in S \cap C <=> merges[j].member \in S \cap C)
      BY <3>1, <3>2 DEF Crosses
    <3>. QED
      BY <3>1, <3>3 DEF ClosesNoCycle
  <2>. QED
    BY <2>2, <2>3 DEF SpanningTree
<1>4. \A k \in DOMAIN merges : MergeHolds(merges[k])
  BY DEF ForestInv, MergesHold
<1>. QED
  BY <1>2, <1>3, <1>4 DEF Verify

\* Every classification the code returns passes its own verifier, for every
\* family: each merge joins two classes and replays, so the merges of a class
\* are one spanning tree of it (assemble, verify).
THEOREM ResultIsVerified == Spec => []ResultVerifies
<1>1. IInv /\ ForestInv /\ [Next]_vars => (IInv /\ ForestInv)'
  BY NextInvariant, NextForest
<1>. QED
  BY InitInvariant, InitForest, <1>1, ForestVerifies, PTL DEF Spec

-----------------------------------------------------------------------------
(* The walks behind the current member.                                    *)

\* A merge joins classes and splits none: what it does to roots.
Coarser == \A m, n \in Members : root[m] = root[n] => root'[m] = root'[n]

\* Once no partner of a class is open, no later merge opens one: the separated
\* classes only grow.
LEMMA NotOpenStays ==
  ASSUME Coarser, UNCHANGED invariants, NEW m \in Members, ~HasOpenPartner(m)
  PROVE  ~HasOpenPartner(m)'
<1>1. Group(m)' = Group(m)
  BY DEF Group, Separates
<1>2. \A n \in Members : ClassOf(n) \subseteq ClassOf(n)'
  BY DEF Coarser, ClassOf
<1>3. \A n \in Group(m) : ClassOf(n)' # ClassOf(m)' => Separated(ClassOf(m)', ClassOf(n)')
  <2>. SUFFICES ASSUME NEW n \in Group(m), ClassOf(n)' # ClassOf(m)'
       PROVE  Separated(ClassOf(m)', ClassOf(n)')
    OBVIOUS
  <2>1. n \in Members
    BY DEF Group
  <2>2. root[n] # root[m]
    BY <2>1 DEF Coarser, ClassOf
  <2>3. ClassOf(n) # ClassOf(m)
    BY <2>1, <2>2 DEF ClassOf
  <2>4. Separated(ClassOf(m), ClassOf(n))
    BY <2>3 DEF HasOpenPartner, GroupClasses
  <2>. QED
    BY <1>2, <2>1, <2>4 DEF Separated
<1>4. \A n \in Group(m) : Separated(ClassOf(m)', ClassOf(n)') <=> Separated(ClassOf(m), ClassOf(n))'
  BY DEF Separated, Separates
<1>. QED
  BY <1>1, <1>3, <1>4 DEF HasOpenPartner, GroupClasses

\* The finished walks stay true when classes are joined.
LEMMA WalksStay ==
  ASSUME Coarser, UNCHANGED <<limits, invariants, walks>>, walks \in Seq(WalkRecords),
         cancelled => cancelled', WalksAreTrue
  PROVE  WalksAreTrue' /\ \A n \in Members : HasWalk(n) => HasWalk(n)'
<1>1. \A w \in DOMAIN walks : walks[w] \in WalkRecords
  OBVIOUS
<1>2. \A w \in DOMAIN walks : walks[w].member \in Members
  BY <1>1 DEF WalkRecords
<1>3. \A w \in DOMAIN walks : Explored(walks[w].member, walks[w].examined)'
  <2>1. \A w \in DOMAIN walks : Explored(walks[w].member, walks[w].examined)
    BY DEF WalksAreTrue
  <2>. QED
    BY <1>2, <2>1 DEF Explored, Coarser
<1>. QED
  BY <1>3 DEF WalksAreTrue, HasWalk

\* A walk keeps to its class: the member that a vertex matches is one of the
\* class, or becomes one.
LEMMA ExploresOneMore ==
  ASSUME IInv, WalkedInv, pc = "examine", UNCHANGED <<limits, member>>, Coarser,
         \A m \in Matched : root'[m] = root'[member],
         NEW n, n = walk.examined + 1
  PROVE  Explored(member, n)'
<1>1. member \in Members /\ walk.examined \in Nat
  BY DEF IInv, StageInv, Walks
<1>2. ASSUME NEW v \in 1 .. n, NEW x \in Members,
             Graph[limits][member][v].tilting, Graph[limits][member][v].target = MemberKey[x]
      PROVE  root'[x] = root'[member]
  <2>1. CASE v = n
    <3>1. Current.tilting /\ Current.target = MemberKey[x]
      BY <1>2, <2>1 DEF Current, Full
    <3>2. First(MemberKey[x]) \in Matched
      BY <3>1 DEF Matched, Keys
    <3>3. root[First(MemberKey[x])] = root[x] /\ First(MemberKey[x]) \in Members
      BY DuplicateIsDerived DEF WalkedInv, DuplicatesJoined, Indexed
    <3>. QED
      BY <3>2, <3>3 DEF Coarser
  <2>2. CASE v # n
    <3>1. v \in 1 .. walk.examined
      BY <1>1, <2>2
    <3>2. root[x] = root[member]
      BY <1>2, <3>1 DEF WalkedInv, WalkIsTrue, Explored
    <3>. QED
      BY <1>1, <3>2 DEF Coarser
  <2>. QED
    BY <2>1, <2>2
<1>. QED
  BY <1>2 DEF Explored

\* At first no walk is behind.
LEMMA InitWalked == Init => WalkedInv
<1>. SUFFICES ASSUME Init PROVE WalkedInv
  OBVIOUS
<1>1. walks \in Seq(WalkRecords) /\ DOMAIN walks = {} /\ cancelled \in BOOLEAN
  <2>1. walks = <<>>
    BY DEF Init
  <2>2. walks \in Seq(WalkRecords) /\ DOMAIN walks = {}
    BY <2>1
  <2>3. cancelled \in BOOLEAN
    BY DEF Init
  <2>. QED
    BY <2>2, <2>3
<1>2. WalkIsTrue
  <2>1. walk.examined = 0 /\ walk.found = 0 /\ pc # "examine"
    BY DEF Init, NoWalk
  <2>. QED
    BY <2>1 DEF WalkIsTrue
<1>3. pc = "done" => Members = {}
  BY DEF Init
<1>4. pc \in {"invariants", "done"}
  BY DEF Init
<1>. QED
  BY <1>1, <1>2, <1>3, <1>4
     DEF WalkedInv, WalksAreTrue, DuplicatesJoined, Indexed, PassedAreSettled, Passed

\* The stage of the invariants passes no member.
LEMMA ComputeWalked == IInv /\ WalkedInv /\ ComputeInvariants => WalkedInv'
<1>. SUFFICES ASSUME IInv, WalkedInv, ComputeInvariants PROVE WalkedInv'
  OBVIOUS
<1>1. /\ pc = "invariants" /\ member \in Members /\ Advance("duplicates")
      /\ UNCHANGED <<limits, root, walks, walk, cancelled>>
  BY DEF ComputeInvariants, IInv, StageInv
<1>2. pc' = "invariants" \/ (pc' = "duplicates" /\ member' = 1)
  BY <1>1 DEF Advance
<1>3. \A m \in Members : ~(m < 1)
  BY FamilyAssumption DEF Members
<1>4. \A m \in Members : ~Indexed(m)' /\ ~Passed(m)'
  BY <1>2, <1>3 DEF Indexed, Passed
<1>5. WalksAreTrue'
  BY <1>1 DEF WalkedInv, WalksAreTrue, Explored
<1>6. WalkIsTrue'
  BY <1>1, <1>2 DEF WalkedInv, WalkIsTrue
<1>. QED
  BY <1>1, <1>4, <1>5, <1>6 DEF WalkedInv, DuplicatesJoined, PassedAreSettled

\* The stage of the duplicates leaves a member with the class of the first that has its key.
LEMMA DuplicateWalked == IInv /\ WalkedInv /\ (MergeDuplicate \/ SkipOriginal) => WalkedInv'
<1>. SUFFICES ASSUME IInv, WalkedInv, MergeDuplicate \/ SkipOriginal PROVE WalkedInv'
  OBVIOUS
<1>. DEFINE original == First(MemberKey[member])
<1>1. /\ pc = "duplicates" /\ member \in Members
      /\ root \in [Members -> Members] /\ RootsAreDerived
  BY DEF MergeDuplicate, SkipOriginal, IInv, StageInv
<1>2. original \in Members /\ ~Contradicts(original, member)
  BY <1>1, DuplicateIsDerived, NeverContradicts
<1>3. /\ Advance("members") /\ UNCHANGED <<limits, invariants, walks, walk, cancelled>>
      /\ Coarser /\ root'[original] = root'[member]
  <2>1. CASE SkipOriginal
    BY <2>1 DEF SkipOriginal, IsDuplicate, Coarser
  <2>2. CASE MergeDuplicate
    <3>1. root' = Joined(original, member)
      BY <1>2, <2>2 DEF MergeDuplicate, Join
    <3>2. Coarser /\ root'[original] = root'[member]
      <4>1. CASE root[original] = root[member]
        <5>1. \A m \in Members : root'[m] = root[m]
          BY <3>1, <4>1 DEF Joined, Smaller, Larger
        <5>. QED
          BY <1>1, <1>2, <4>1, <5>1 DEF Coarser
      <4>2. CASE root[original] # root[member]
        BY <1>1, <1>2, <3>1, <4>2, JoinedClass DEF Coarser
      <4>. QED
        BY <4>1, <4>2
    <3>. QED
      BY <1>2, <2>2, <3>2 DEF MergeDuplicate
  <2>. QED
    BY <2>1, <2>2
<1>4. \/ pc' = "duplicates" /\ member < Size /\ member' = member + 1
      \/ pc' = "members" /\ member = Size /\ member' = 1
  BY <1>1, <1>3, FamilyAssumption DEF Advance, Members
<1>5. \A m \in Members : ~Passed(m)'
  BY <1>4, FamilyAssumption DEF Passed, Members
<1>6. \A m \in Members : Indexed(m)' => m = member \/ Indexed(m)
  BY <1>1, <1>4, FamilyAssumption, SMTT(30) DEF Indexed, Members
<1>7. DuplicatesJoined'
  <2>1. \A m \in Members : First(MemberKey[m]) \in Members
    BY DuplicateIsDerived
  <2>. QED
    BY <1>3, <1>6, <2>1 DEF WalkedInv, DuplicatesJoined, Coarser
<1>8. WalksAreTrue'
  BY <1>3, WalksStay DEF WalkedInv
<1>9. WalkIsTrue'
  BY <1>1, <1>3, <1>4 DEF WalkedInv, WalkIsTrue
<1>. QED
  BY <1>3, <1>5, <1>7, <1>8, <1>9 DEF WalkedInv, PassedAreSettled

\* In the stage of the walks only a step that passes its member has to settle it.
LEMMA WalkingKeeps ==
  ASSUME IInv, WalkedInv, Coarser, UNCHANGED <<limits, invariants>>,
         pc \in {"members", "discover", "examine"},
         \A n \in Members : HasWalk(n) => HasWalk(n)',
         \A m \in Members : Passed(m)' => Passed(m) \/ (m = member /\
            (IsDuplicate(m) \/ HasWalk(m)' \/ ~HasOpenPartner(m)))
  PROVE  DuplicatesJoined' /\ PassedAreSettled'
<1>1. DuplicatesJoined'
  <2>1. \A m \in Members : First(MemberKey[m]) \in Members
    BY DuplicateIsDerived
  <2>2. \A m \in Members : Indexed(m)
    BY DEF Indexed
  <2>. QED
    BY <2>1, <2>2 DEF WalkedInv, DuplicatesJoined, Coarser
<1>2. ASSUME NEW m \in Members, Passed(m)'
      PROVE  IsDuplicate(m) \/ HasWalk(m)' \/ ~HasOpenPartner(m)'
  <2>1. IsDuplicate(m) \/ HasWalk(m)' \/ ~HasOpenPartner(m)
    BY <1>2 DEF WalkedInv, PassedAreSettled
  <2>. QED
    BY <2>1, NotOpenStays
<1>3. \A m \in Members : IsDuplicate(m)' <=> IsDuplicate(m)
  BY DEF IsDuplicate, First
<1>. QED
  BY <1>1, <1>2, <1>3 DEF PassedAreSettled

\* A member is skipped when it is a duplicate or no partner of its class is open.
LEMMA SkipWalked == IInv /\ WalkedInv /\ SkipMember => WalkedInv'
<1>. SUFFICES ASSUME IInv, WalkedInv, SkipMember PROVE WalkedInv'
  OBVIOUS
<1>1. /\ pc = "members" /\ member \in Members /\ Advance("done")
      /\ UNCHANGED <<limits, invariants, root, walks, walk, cancelled>>
      /\ IsDuplicate(member) \/ ~HasOpenPartner(member)
  BY DEF SkipMember, IsWalked, IInv, StageInv
<1>2. \/ pc' = "members" /\ member < Size /\ member' = member + 1
      \/ pc' = "done" /\ member = Size
  BY <1>1, FamilyAssumption DEF Advance, Members
<1>3. \A m \in Members : Passed(m)' => Passed(m) \/ m = member
  BY <1>1, <1>2, FamilyAssumption DEF Passed, Members
<1>4. Coarser
  BY <1>1 DEF Coarser
<1>5. WalksAreTrue' /\ \A n \in Members : HasWalk(n) => HasWalk(n)'
  BY <1>1, <1>4, WalksStay DEF WalkedInv
<1>6. DuplicatesJoined' /\ PassedAreSettled'
  BY <1>1, <1>3, <1>4, <1>5, WalkingKeeps
<1>7. WalkIsTrue'
  BY <1>1, <1>2 DEF WalkedInv, WalkIsTrue
<1>. QED
  BY <1>1, <1>5, <1>6, <1>7 DEF WalkedInv

\* A walk finds and examines its vertices without leaving its class.
LEMMA OneWalked ==
  IInv /\ WalkedInv /\ (BeginWalk \/ FindVertex \/ EndDiscovery \/ ExamineWithoutMerge)
    => WalkedInv'
<1>. SUFFICES ASSUME IInv, WalkedInv,
                     BeginWalk \/ FindVertex \/ EndDiscovery \/ ExamineWithoutMerge
     PROVE  WalkedInv'
  OBVIOUS
<1>1. /\ pc \in {"members", "discover", "examine"} /\ pc' \in {"members", "discover", "examine"}
      /\ UNCHANGED <<limits, invariants, root, walks, cancelled, member>>
      /\ member \in Members /\ walk \in Walks
  BY DEF BeginWalk, FindVertex, EndDiscovery, ExamineWithoutMerge, Examining, IInv, StageInv
<1>2. Coarser
  BY <1>1 DEF Coarser
<1>3. WalksAreTrue' /\ \A n \in Members : HasWalk(n) => HasWalk(n)'
  BY <1>1, <1>2, WalksStay DEF WalkedInv
<1>4. \A m \in Members : Passed(m)' => Passed(m)
  BY <1>1 DEF Passed
<1>5. DuplicatesJoined' /\ PassedAreSettled'
  BY <1>1, <1>2, <1>3, <1>4, WalkingKeeps
<1>6. WalkIsTrue'
  <2>1. CASE BeginWalk
    BY <2>1 DEF BeginWalk, WalkedInv, WalkIsTrue
  <2>2. CASE FindVertex
    BY <1>1, <2>2 DEF FindVertex, WalkedInv, WalkIsTrue, Walks
  <2>3. CASE EndDiscovery
    <3>1. /\ pc' = "examine" /\ walk'.examined = walk.examined /\ walk'.found = walk.found
          /\ walk.examined = 0 /\ walk.examined <= walk.found
      BY <1>1, <2>3 DEF EndDiscovery, Walks, WalkedInv, WalkIsTrue
    <3>2. \A v \in 1 .. 0 : FALSE
      OBVIOUS
    <3>3. Explored(member, walk.examined)'
      BY <3>1, <3>2 DEF Explored
    <3>. QED
      BY <1>1, <3>1, <3>3 DEF WalkIsTrue
  <2>4. CASE ExamineWithoutMerge
    <3>1. /\ pc = "examine" /\ pc' = "examine" /\ walk.examined < walk.found
          /\ walk'.examined = walk.examined + 1 /\ walk'.found = walk.found
          /\ \A m \in Matched : root'[m] = root'[member]
      BY <1>1, <2>4 DEF ExamineWithoutMerge, Examining, IsNews, Walks
    <3>2. walk'.examined <= walk'.found
      BY <1>1, <3>1 DEF Walks
    <3>3. PICK n : n = walk.examined + 1
      OBVIOUS
    <3>4. Explored(member, n)'
      BY <1>1, <1>2, <3>1, <3>3, ExploresOneMore
    <3>5. Explored(member, walk.examined)'
      BY <3>1, <3>3, <3>4 DEF Explored
    <3>. QED
      BY <3>1, <3>2, <3>5 DEF WalkIsTrue
  <2>. QED
    BY <2>1, <2>2, <2>3, <2>4
<1>. QED
  BY <1>1, <1>3, <1>5, <1>6 DEF WalkedInv

\* A match is of the class of its walk once the two classes are joined.
LEMMA MergeWalked == IInv /\ WalkedInv /\ ExamineAndMerge => WalkedInv'
<1>. SUFFICES ASSUME IInv, WalkedInv, ExamineAndMerge PROVE WalkedInv'
  OBVIOUS
<1>1. /\ pc = "examine" /\ member \in Members /\ Examining /\ walk \in Walks
      /\ root \in [Members -> Members]
  BY DEF ExamineAndMerge, Examining, IInv, StageInv
<1>2. PICK m \in Matched :
        /\ IsNews(m)
        /\ IF Contradicts(member, m) THEN Refuse /\ UNCHANGED walk
           ELSE /\ Join(member, m, walk.examined + 1)
                /\ walk' = [walk EXCEPT !.examined = @ + 1, !.merges = @ + 1]
                /\ UNCHANGED <<member, pc>>
  BY DEF ExamineAndMerge
<1>3. m \in Members /\ ~Contradicts(member, m)
  BY <1>1, MatchIsDerived, NeverContradicts
<1>4. /\ root' = Joined(member, m)
      /\ walk' = [walk EXCEPT !.examined = @ + 1, !.merges = @ + 1]
      /\ UNCHANGED <<limits, invariants, walks, cancelled, member, pc>>
  BY <1>2, <1>3 DEF ExamineAndMerge, Join
<1>5. Coarser /\ root'[m] = root'[member]
  BY <1>1, <1>2, <1>3, <1>4, JoinedClass DEF Coarser, IsNews
<1>6. \A x \in Matched : root'[x] = root'[member]
  BY <1>2, <1>5 DEF Matched
<1>7. WalksAreTrue' /\ \A n \in Members : HasWalk(n) => HasWalk(n)'
  BY <1>4, <1>5, WalksStay DEF WalkedInv
<1>8. \A x \in Members : Passed(x)' => Passed(x)
  BY <1>4 DEF Passed
<1>9. DuplicatesJoined' /\ PassedAreSettled'
  BY <1>1, <1>4, <1>5, <1>7, <1>8, WalkingKeeps
<1>10. WalkIsTrue'
  <2>1. PICK n : n = walk.examined + 1
    OBVIOUS
  <2>2. walk'.examined = n /\ walk'.found = walk.found /\ n <= walk.found
    BY <1>1, <1>4, <2>1 DEF Walks, Examining
  <2>3. Explored(member, n)'
    BY <1>1, <1>4, <1>5, <1>6, <2>1, ExploresOneMore
  <2>4. Explored(member, walk.examined)'
    BY <2>2, <2>3 DEF Explored
  <2>. QED
    BY <1>1, <1>4, <2>2, <2>4 DEF WalkIsTrue
<1>. QED
  BY <1>4, <1>7, <1>9, <1>10 DEF WalkedInv

\* A walk that ends is recorded with what it examined, all of it unless cancelled.
LEMMA EndWalked == IInv /\ WalkedInv /\ EndWalk => WalkedInv'
<1>. SUFFICES ASSUME IInv, WalkedInv, EndWalk PROVE WalkedInv'
  OBVIOUS
<1>1. /\ pc = "examine" /\ member \in Members /\ walk \in Walks /\ cancelled \in BOOLEAN
      /\ walks \in Seq(WalkRecords) /\ walk' = NoWalk
      /\ UNCHANGED <<limits, invariants, root, cancelled>>
      /\ cancelled \/ walk.examined = walk.found
  BY DEF EndWalk, IInv, StageInv, WalkedInv
<1>2. PICK new, k : /\ new = [member |-> member, stop |-> walk.stop, vertices |-> walk.found,
                              examined |-> walk.examined, merges |-> walk.merges]
                    /\ k = Len(walks) + 1
  OBVIOUS
<1>3. new \in WalkRecords
  BY <1>1, <1>2 DEF Walks, WalkRecords
<1>4. walks' = Append(walks, new)
  BY <1>2 DEF EndWalk
<1>5. /\ walks' \in Seq(WalkRecords)
      /\ DOMAIN walks' = DOMAIN walks \cup {k} /\ walks'[k] = new
      /\ \A w \in DOMAIN walks : walks'[w] = walks[w]
  BY <1>1, <1>2, <1>3, <1>4
<1>6. WalksAreTrue'
  <2>1. ASSUME NEW w \in DOMAIN walks'
        PROVE  /\ Explored(walks[w].member, walks[w].examined)'
               /\ walks'[w].examined < walks'[w].vertices => cancelled
    <3>1. CASE w = k
      <4>1. /\ walks'[w].member = member /\ walks'[w].examined = walk.examined
            /\ walks'[w].vertices = walk.found
        BY <1>2, <1>5, <3>1
      <4>2. Explored(member, walk.examined)
        BY <1>1 DEF WalkedInv, WalkIsTrue
      <4>3. Explored(walks[w].member, walks[w].examined)'
        BY <1>1, <4>1, <4>2 DEF Explored
      <4>4. walk.examined < walk.found => cancelled
        BY <1>1 DEF Walks
      <4>. QED
        BY <4>1, <4>3, <4>4
    <3>2. CASE w \in DOMAIN walks
      <4>1. /\ Explored(walks[w].member, walks[w].examined)
            /\ walks[w].examined < walks[w].vertices => cancelled
        BY <3>2 DEF WalkedInv, WalksAreTrue
      <4>2. walks'[w] = walks[w]
        BY <1>5, <3>2
      <4>3. Explored(walks[w].member, walks[w].examined)'
        BY <1>1, <4>1, <4>2 DEF Explored
      <4>. QED
        BY <4>1, <4>2, <4>3
    <3>. QED
      BY <1>5, <3>1, <3>2
  <2>. QED
    BY <1>1, <2>1 DEF WalksAreTrue
<1>7. \A n \in Members : HasWalk(n) => HasWalk(n)'
  BY <1>5 DEF HasWalk
<1>8. \A n \in Members : n = member => \E w \in DOMAIN walks' : walks'[w].member = n
  BY <1>2, <1>5
<1>9. \A m \in Members : Passed(m)' => Passed(m) \/ m = member
  BY <1>1, FamilyAssumption DEF EndWalk, Passed, Members
<1>10. DuplicatesJoined' /\ PassedAreSettled'
  <2>1. Coarser
    BY <1>1 DEF Coarser
  <2>2. \A m \in Members : m = member => HasWalk(m)'
    BY <1>8 DEF HasWalk
  <2>. QED
    BY <1>1, <1>7, <1>9, <2>1, <2>2, WalkingKeeps
<1>11. WalkIsTrue'
  <2>1. walk'.examined = 0 /\ walk'.found = 0
    BY <1>1 DEF NoWalk
  <2>2. pc' \in {"members", "done"}
    BY DEF EndWalk
  <2>. QED
    BY <2>1, <2>2 DEF WalkIsTrue
<1>. QED
  BY <1>1, <1>5, <1>6, <1>10, <1>11 DEF WalkedInv

\* A failure and a cancellation leave the walks as they are.
LEMMA OtherWalked ==
  IInv /\ WalkedInv /\ (FailInvariants \/ FailTarget \/ Cancel \/ UNCHANGED vars) => WalkedInv'
<1>. SUFFICES ASSUME IInv, WalkedInv, FailInvariants \/ FailTarget \/ Cancel \/ UNCHANGED vars
     PROVE  WalkedInv'
  OBVIOUS
<1>1. /\ UNCHANGED <<limits, invariants, root, walks, walk, member>>
      /\ pc' = "failed" \/ pc' = pc
      /\ cancelled' \in BOOLEAN /\ (cancelled => cancelled')
  BY DEF FailInvariants, FailTarget, Examining, Cancel, vars, WalkedInv
<1>2. WalksAreTrue'
  BY <1>1 DEF WalkedInv, WalksAreTrue, Explored
<1>3. WalkIsTrue'
  BY <1>1 DEF WalkedInv, WalkIsTrue, Explored
<1>4. \A m \in Members : (Indexed(m)' => Indexed(m)) /\ (Passed(m)' => Passed(m))
  BY <1>1 DEF Indexed, Passed
<1>5. DuplicatesJoined'
  BY <1>1, <1>4 DEF WalkedInv, DuplicatesJoined, First
<1>6. \A m \in Members : /\ HasOpenPartner(m)' <=> HasOpenPartner(m)
                         /\ HasWalk(m)' <=> HasWalk(m)
                         /\ IsDuplicate(m)' <=> IsDuplicate(m)
  BY <1>1 DEF HasOpenPartner, GroupClasses, Group, ClassOf, Separated, Separates, HasWalk,
              IsDuplicate, First
<1>7. PassedAreSettled'
  BY <1>4, <1>6 DEF WalkedInv, PassedAreSettled
<1>. QED
  BY <1>1, <1>2, <1>3, <1>5, <1>7 DEF WalkedInv

\* Every step keeps what is known of the walks.
LEMMA NextWalked == IInv /\ WalkedInv /\ [Next]_vars => WalkedInv'
BY ComputeWalked, DuplicateWalked, SkipWalked, OneWalked, MergeWalked, EndWalked, OtherWalked
   DEF Next, Classify

\* first_difference is symmetric.
LEMMA SeparatesBothWays ==
  ASSUME NEW C, NEW D, Separated(C, D)
  PROVE  Separated(D, C)
<1>1. \A kind, left, right : DiffersFrom(kind, left, right) => DiffersFrom(kind, right, left)
  BY DEF DiffersFrom
<1>2. \A m, n : Separates(m, n) => Separates(n, m)
  BY <1>1 DEF Separates
<1>. QED
  BY <1>2 DEF Separated

\* A pair that nothing separates makes each of its members have an open partner.
LEMMA UnresolvedIsOpen ==
  ASSUME NEW pair \in Unresolved, NEW m \in UNION pair
  PROVE  m \in Members /\ ClassOf(m) \in pair /\ HasOpenPartner(m)
<1>1. PICK C \in Classes, D \in Classes : C # D /\ pair = {C, D} /\ ~Separated(C, D)
  BY DEF Unresolved
<1>2. PICK A \in Classes, B \in Classes :
        A # B /\ pair = {A, B} /\ m \in A /\ ~Separated(A, B)
  <2>1. CASE m \in C
    BY <1>1, <2>1
  <2>2. CASE m \in D
    <3>1. ~Separated(D, C) /\ pair = {D, C}
      BY <1>1, SeparatesBothWays
    <3>. QED
      BY <1>1, <2>2, <3>1
  <2>. QED
    BY <1>1, <2>1, <2>2
<1>3. m \in Members /\ A = ClassOf(m)
  BY <1>2 DEF Classes, ClassOf
<1>4. PICK n \in Members : B = ClassOf(n)
  BY DEF Classes
<1>5. m # n /\ n \in B /\ m \in A
  BY <1>2, <1>3, <1>4 DEF ClassOf
<1>6. ~Separates(m, n)
  BY <1>2, <1>5 DEF Separated
<1>7. n \in Group(m)
  BY <1>5, <1>6, <1>3 DEF Group
<1>. QED
  BY <1>2, <1>3, <1>4, <1>7 DEF HasOpenPartner, GroupClasses

\* What is still open when a run is done was walked by every member that could settle it.
LEMMA OpenPairsFollow == IInv /\ WalkedInv => OpenPairsWereWalked
<1>. SUFFICES ASSUME IInv, WalkedInv, pc = "done",
                     NEW pair \in Unresolved, NEW m \in UNION pair, ~IsDuplicate(m)
     PROVE  \E w \in WalksOf(pair) :
              /\ walks[w].member = m
              /\ walks[w].examined < walks[w].vertices => cancelled
              /\ \A v \in 1 .. walks[w].examined : \A n \in (UNION pair) \ ClassOf(m) :
                   Graph[limits][m][v].tilting => Graph[limits][m][v].target # MemberKey[n]
  BY DEF OpenPairsWereWalked
<1>1. m \in Members /\ ClassOf(m) \in pair /\ HasOpenPartner(m)
  BY UnresolvedIsOpen
<1>2. PICK w \in DOMAIN walks : walks[w].member = m
  BY <1>1 DEF WalkedInv, PassedAreSettled, Passed, HasWalk
<1>3. m \in ClassOf(m) /\ w \in WalksOf(pair)
  BY <1>1, <1>2 DEF ClassOf, WalksOf
<1>4. /\ Explored(m, walks[w].examined)
      /\ walks[w].examined < walks[w].vertices => cancelled
  BY <1>2 DEF WalkedInv, WalksAreTrue
<1>5. \A n \in (UNION pair) \ ClassOf(m) : n \in Members /\ root[n] # root[m]
  BY UnresolvedIsOpen DEF ClassOf
<1>. QED
  BY <1>2, <1>3, <1>4, <1>5 DEF Explored

\* A pair of classes stays open only after every member of the two that is not a
\* duplicate was walked, every vertex it found was examined unless the run was
\* cancelled, and none of them gave a member of the other class; for every
\* family and every limit (has_open_partner, walk, open_pair).
THEOREM OpenPairsWalked == Spec => []OpenPairsWereWalked
<1>1. IInv /\ WalkedInv /\ [Next]_vars => (IInv /\ WalkedInv)'
  BY NextInvariant, NextWalked
<1>. QED
  BY InitInvariant, InitWalked, <1>1, OpenPairsFollow, PTL DEF Spec

=============================================================================
