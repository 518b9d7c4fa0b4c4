------------------------- MODULE VerificationProofs -------------------------
(***************************************************************************)
(* Proofs about the two places where verifications run beside each other.  *)
(*                                                                         *)
(* What the memos of one verification promise for any number of threads,   *)
(* modules and requests: a stored result is the certified one, and nothing *)
(* is computed twice. The invariant speaks of every frame of every stack,  *)
(* because a nested call returns to a computation of its own thread.       *)
(*                                                                         *)
(* What the browser page promises for any files, texts and verdicts.       *)
(* VerdictIsOfItsSource is not inductive: it needs that the page waits for *)
(* one run, that the worker has no other, and that no answer under way     *)
(* carries the id of a later run. TableIsOfTheResult needs that a read     *)
(* with the current render number is a read of the result that is shown.   *)
(***************************************************************************)
EXTENDS VerificationMemo, BrowserVerifier, TLAPS, FiniteSetTheorems

-----------------------------------------------------------------------------
(* The memos of a verification.                                            *)

Keys == [memo : Operations, operands : Seq(Addresses \cup Algebras)]

\* a key of a module memo names one module at least
IsKey(key) ==
  /\ key \in Keys
  /\ IF key.memo = "opposite" THEN key.operands \in Seq(Algebras)
     ELSE key.operands \in Seq(Addresses) /\ key.operands # <<>>

\* the modules the key names are kept alive by thread t or by the certificate
HeldBy(t, key) ==
  key.memo # "opposite" =>
    \A i \in DOMAIN key.operands : key.operands[i] \in DOMAIN Stored \cup temp[t]

AnswerOf(key) == Certified(key.memo, ContentsOf(key))

\* what frame i of a stack s of thread t is: only the top one waits for its
\* cell, and each other one for the frame above it
IsFrame(t, s, i) ==
  /\ IsKey(s[i].key) /\ HeldBy(t, s[i].key)
  /\ s[i].phase # "find" => s[i].key \in DOMAIN cells
  /\ s[i].phase = "compute" => cells[s[i].key].state # "empty"
  /\ s[i].given # <<>> =>
       /\ s[i].phase = "compute"
       /\ \E key \in Needs(s[i].key) : s[i].given = <<AnswerOf(key)>>
  /\ i # Len(s) => /\ s[i].phase = "compute" /\ s[i].given = <<>>
                   /\ s[i + 1].key \in Needs(s[i].key)

AnswersOfKeys == {Certified(memo, c) : memo \in Operations, c \in Seq(Contents \cup Algebras)}

Frames == [key : Keys, phase : {"find", "count", "enter", "compute"}, miss : BOOLEAN,
           given : Seq(AnswersOfKeys)]

TypeInv ==
  /\ heap \in [Addresses -> Contents]
  /\ temp \in [Threads -> SUBSET Addresses]
  /\ frames \in [Threads -> Seq(Frames)]
  /\ misses \in [Operations -> Nat]
  /\ cells = [key \in DOMAIN cells |-> cells[key]]

CellInv ==
  \A key \in DOMAIN cells : IsKey(key) /\ cells[key] \in {Empty, Running, Set(AnswerOf(key))}

FrameInv == \A t \in Threads : \A i \in DOMAIN frames[t] : IsFrame(t, frames[t], i)

RunInv ==
  /\ DOMAIN runs = {key \in DOMAIN cells : cells[key].state # "empty"}
  /\ \A key \in DOMAIN runs : runs[key] = 1

\* somebody will compute each empty cell
Entering(t, key) ==
  frames[t] # <<>> /\ Top(t).key = key /\ Top(t).phase \in {"count", "enter"}

WaitInv ==
  \A key \in DOMAIN cells : cells[key].state = "empty" => \E t \in Threads : Entering(t, key)

\* an entry is counted as a miss, or about to be counted by its creator
Counting(t, m) == At(t, "count") /\ Top(t).miss /\ Top(t).key.memo = m

CountInv ==
  /\ IsFiniteSet(DOMAIN cells)
  /\ \A m \in Operations :
       misses[m] + Cardinality({t \in Threads : Counting(t, m)})
         = Cardinality({key \in DOMAIN cells : key.memo = m})

IInv == TypeInv /\ CellInv /\ FrameInv /\ RunInv /\ WaitInv /\ CountInv

-----------------------------------------------------------------------------
(* Stacks.                                                                 *)

\* What the top of a stack of calls is, and what is below it.
LEMMA StackFacts ==
  ASSUME NEW S, NEW s \in Seq(S), s # <<>>
  PROVE  /\ Len(s) \in Nat \ {0} /\ DOMAIN s = 1 .. Len(s)
         /\ Last(s) \in S /\ Last(s) = s[Len(s)]
         /\ Front(s) \in Seq(S) /\ Len(Front(s)) = Len(s) - 1
         /\ DOMAIN Front(s) = 1 .. Len(s) - 1
         /\ \A i \in 1 .. Len(s) - 1 : Front(s)[i] = s[i]
<1>1. Len(s) \in Nat \ {0} /\ DOMAIN s = 1 .. Len(s)
  OBVIOUS
<1>2. Front(s) = [i \in 1 .. Len(s) - 1 |-> s[i]]
  BY <1>1 DEF Front
<1>. QED
  BY <1>1, <1>2 DEF Last

\* Replacing the top of a stack leaves the frames below it.
LEMMA ReplaceTop ==
  ASSUME NEW S, NEW s \in Seq(S), s # <<>>, NEW f \in S
  PROVE  LET r == Append(Front(s), f)
         IN  /\ r \in Seq(S) /\ r # <<>> /\ Len(r) = Len(s) /\ DOMAIN r = DOMAIN s
             /\ Last(r) = f /\ r[Len(s)] = f
             /\ \A i \in 1 .. Len(s) - 1 : r[i] = s[i]
BY StackFacts DEF Last

-----------------------------------------------------------------------------
(* Answers.                                                                *)

\* Operands of a key name contents, and its certified answer is an answer.
LEMMA ContentsType ==
  ASSUME TypeInv, NEW key, IsKey(key)
  PROVE  ContentsOf(key) \in Seq(Contents \cup Algebras) /\ AnswerOf(key) \in AnswersOfKeys
<1>1. ContentsOf(key) \in Seq(Contents \cup Algebras)
  <2>1. CASE key.memo = "opposite"
    BY <2>1 DEF ContentsOf, IsKey
  <2>2. CASE key.memo # "opposite"
    <3>1. /\ key.operands \in Seq(Addresses) /\ Len(key.operands) \in Nat
          /\ DOMAIN key.operands = 1 .. Len(key.operands)
      BY <2>2 DEF IsKey
    <3>2. \A i \in 1 .. Len(key.operands) : heap[key.operands[i]] \in Contents \cup Algebras
      BY <3>1 DEF TypeInv
    <3>3. ContentsOf(key) = [i \in 1 .. Len(key.operands) |-> heap[key.operands[i]]]
      BY <2>2, <3>1 DEF ContentsOf
    <3>. QED
      BY <3>1, <3>2, <3>3
  <2>. QED
    BY <2>1, <2>2
<1>2. key.memo \in Operations
  BY DEF IsKey, Keys
<1>3. \E memo \in Operations, c \in Seq(Contents \cup Algebras) : AnswerOf(key) = Certified(memo, c)
  BY <1>1, <1>2 DEF AnswerOf
<1>. QED
  BY <1>1, <1>3 DEF AnswersOfKeys

\* What a computation asks for is a key of a memo declared before its own, of
\* the same module.
LEMMA NeedsFacts ==
  ASSUME TypeInv, NEW t, NEW key, IsKey(key), HeldBy(t, key), NEW need \in Needs(key)
  PROVE  /\ IsKey(need) /\ HeldBy(t, need)
         /\ \/ key.memo = "tau" /\ need = Key("opposite", <<AlgebraOf[heap[key.operands[1]]]>>)
            \/ /\ key.memo = "decompose" /\ heap[key.operands[1]] \notin Zero
               /\ need = Key("endo", key.operands)
<1>1. key.memo \in Operations
  BY DEF IsKey, Keys
<1>2. CASE key.memo = "tau"
  <2>1. need = Key("opposite", <<AlgebraOf[heap[key.operands[1]]]>>)
    BY <1>2 DEF Needs
  <2>2. AlgebraOf[heap[key.operands[1]]] \in Algebras
    BY <1>2, StoredAssumption DEF IsKey, TypeInv
  <2>3. "opposite" \in Operations
    BY <1>1, <1>2, StoredAssumption
  <2>. QED
    BY <1>2, <2>1, <2>2, <2>3 DEF IsKey, Keys, Key, HeldBy
<1>3. CASE key.memo = "decompose"
  <2>1. need = Key("endo", key.operands) /\ heap[key.operands[1]] \notin Zero
    BY <1>3 DEF Needs
  <2>2. "endo" \in Operations
    BY <1>1, <1>3, StoredAssumption
  <2>. QED
    BY <1>3, <2>1, <2>2 DEF IsKey, Keys, Key, HeldBy
<1>4. CASE key.memo \notin {"tau", "decompose"}
  BY <1>4 DEF Needs
<1>. QED
  BY <1>2, <1>3, <1>4

\* The result of a finished computation is the certified answer.
LEMMA OutcomeIsCertified ==
  ASSUME TypeInv, NEW t, NEW s, NEW i, IsFrame(t, s, i),
         Needs(s[i].key) = {} \/ s[i].given # <<>>
  PROVE  Outcome(s[i]) = AnswerOf(s[i].key)
<1>. DEFINE key == s[i].key
            given == s[i].given
            contents == ContentsOf(key)
            certified == /\ Succeeds(key.memo, contents)
                         /\ key.memo = "tau" => Succeeds("opposite", <<AlgebraOf[contents[1]]>>)
            ok == /\ Succeeds(key.memo, contents)
                  /\ \A j \in DOMAIN given : given[j].ok
<1>1. IsKey(key) /\ HeldBy(t, key)
  BY DEF IsFrame
<1>2. key.memo # "opposite" => contents[1] = heap[key.operands[1]]
  BY <1>1 DEF ContentsOf, IsKey
<1>3. CASE Needs(key) = {}
  <2>1. key.memo # "tau"
    BY <1>3 DEF Needs
  <2>2. given = <<>>
    BY <1>3 DEF IsFrame
  <2>3. ok <=> certified
    BY <2>1, <2>2
  <2>. QED
    BY <2>3 DEF Outcome, AnswerOf, Certified
<1>4. CASE given # <<>>
  <2>1. PICK need \in Needs(key) : given = <<AnswerOf(need)>>
    BY <1>4 DEF IsFrame
  <2>2. DOMAIN given = {1} /\ given[1] = AnswerOf(need)
    BY <2>1
  <2>3. CASE key.memo = "tau"
    <3>1. need = Key("opposite", <<AlgebraOf[heap[key.operands[1]]]>>)
      BY <1>1, <2>1, <2>3, NeedsFacts
    <3>2. given[1].ok <=> Succeeds("opposite", <<AlgebraOf[contents[1]]>>)
      <4>1. need.memo = "opposite" /\ need.operands = <<AlgebraOf[heap[key.operands[1]]]>>
        BY <3>1 DEF Key
      <4>2. ContentsOf(need) = need.operands /\ need.memo # "tau"
        BY <4>1 DEF ContentsOf
      <4>3. AnswerOf(need).ok <=> Succeeds(need.memo, need.operands)
        BY ONLY <4>2 DEF AnswerOf, Certified, Value
      <4>4. contents[1] = heap[key.operands[1]]
        BY <1>2, <2>3
      <4>. QED
        BY <2>2, <4>1, <4>3, <4>4, Zenon
    <3>3. ok <=> certified
      BY <2>2, <2>3, <3>2
    <3>. QED
      BY <3>3 DEF Outcome, AnswerOf, Certified
  <2>4. CASE key.memo # "tau"
    <3>1. need.memo = "endo"
      BY <1>1, <2>1, <2>4, NeedsFacts DEF Key
    <3>2. given[1].ok
      BY <2>2, <3>1, StoredAssumption DEF AnswerOf, Certified, Value, Succeeds
    <3>3. ok <=> certified
      BY <2>2, <2>4, <3>2
    <3>. QED
      BY <3>3 DEF Outcome, AnswerOf, Certified
  <2>. QED
    BY <2>3, <2>4
<1>. QED
  BY <1>3, <1>4

-----------------------------------------------------------------------------
(* What a step leaves alone.                                               *)

\* entries stay, and a computation that started is not forgotten
CellsGrow ==
  \A key \in DOMAIN cells :
    key \in DOMAIN cells' /\ (cells[key].state # "empty" => cells'[key].state # "empty")

\* the modules that thread t can name keep their contents
ContentsStay(t) ==
  \A key : IsKey(key) /\ HeldBy(t, key) =>
    /\ HeldBy(t, key)' /\ ContentsOf(key)' = ContentsOf(key) /\ Needs(key)' = Needs(key)

\* A call in progress is not disturbed while its cell and its modules stay.
LEMMA FrameStays ==
  ASSUME TypeInv, CellsGrow, NEW t, ContentsStay(t), NEW s, NEW i, IsFrame(t, s, i)
  PROVE  IsFrame(t, s, i)'
<1>. DEFINE key == s[i].key
<1>1. /\ IsKey(key) /\ HeldBy(t, key)
      /\ HeldBy(t, key)' /\ ContentsOf(key)' = ContentsOf(key) /\ Needs(key)' = Needs(key)
  BY DEF IsFrame, ContentsStay
<1>2. IsKey(key)'
  BY <1>1 DEF IsKey, Keys
<1>3. \A need \in Needs(key) : AnswerOf(need)' = AnswerOf(need)
  BY <1>1, NeedsFacts DEF ContentsStay, AnswerOf
<1>. QED
  BY <1>1, <1>2, <1>3 DEF IsFrame, CellsGrow

\* Without a build or a drop, modules stay what they were.
LEMMA ContentsKeep ==
  ASSUME UNCHANGED <<heap, temp>>, NEW t
  PROVE  ContentsStay(t) /\ \A key : IsKey(key) => AnswerOf(key)' = AnswerOf(key)
BY DEF ContentsStay, HeldBy, ContentsOf, Needs, AnswerOf

\* Only the stack of the thread that takes the step has new frames.
LEMMA OtherStacksStay ==
  ASSUME TypeInv, FrameInv, CellsGrow, UNCHANGED <<heap, temp>>, NEW t \in Threads,
         \A u \in Threads \ {t} : frames'[u] = frames[u],
         \A i \in DOMAIN frames'[t] : IsFrame(t, frames[t], i)' 
  PROVE  FrameInv'
<1>1. ASSUME NEW u \in Threads \ {t}, NEW i \in DOMAIN frames[u]
      PROVE  IsFrame(u, frames[u], i)'
  <2>1. IsFrame(u, frames[u], i) /\ ContentsStay(u)
    BY ContentsKeep DEF FrameInv
  <2>. QED
    BY <2>1, FrameStays
<1>. QED
  BY <1>1 DEF FrameInv

\* Changing the top frame of a stack, its key kept.
LEMMA ReplacedFrames ==
  ASSUME TypeInv, CellsGrow, NEW t, ContentsStay(t),
         NEW s \in Seq(Frames), s # <<>>, \A i \in DOMAIN s : IsFrame(t, s, i),
         NEW f \in Frames, f.key = Last(s).key, f.phase # "find",
         f.given # <<>> => /\ f.phase = "compute"
                           /\ \E need \in Needs(f.key)' : f.given = <<AnswerOf(need)'>>,
         f.key \in DOMAIN cells', f.phase = "compute" => cells'[f.key].state # "empty",
         NEW r, r = Append(Front(s), f), NEW i \in DOMAIN r
  PROVE  IsFrame(t, r, i)'
<1>1. Len(s) \in Nat \ {0} /\ DOMAIN s = 1 .. Len(s) /\ Last(s) = s[Len(s)]
  BY StackFacts
<1>2. /\ Len(r) = Len(s) /\ DOMAIN r = DOMAIN s /\ r[Len(s)] = f
      /\ \A j \in 1 .. Len(s) - 1 : r[j] = s[j]
  BY ReplaceTop
<1>3. IsFrame(t, s, i) /\ IsFrame(t, s, i)'
  BY <1>2, FrameStays
<1>3a. \A j \in DOMAIN s : j # Len(s) => j \in 1 .. Len(s) - 1 /\ j + 1 \in DOMAIN s
  BY <1>1
<1>4. \A j \in DOMAIN s : r[j].key = s[j].key
  <2>. TAKE j \in DOMAIN s
  <2>1. CASE j = Len(s)
    BY <1>1, <1>2, <2>1
  <2>2. CASE j # Len(s)
    BY <1>2, <1>3a, <2>2, SMTT(30)
  <2>. QED
    BY <2>1, <2>2
<1>5. CASE i = Len(s)
  BY <1>1, <1>2, <1>3, <1>4, <1>5 DEF IsFrame
<1>6. CASE i # Len(s)
  <2>1. r[i] = s[i] /\ i # Len(r) /\ i + 1 \in DOMAIN s
    BY <1>2, <1>3a, <1>6
  <2>2. r[i + 1].key = s[i + 1].key
    BY <1>4, <2>1
  <2>. QED
    BY <1>3, <1>6, <2>1, <2>2 DEF IsFrame
<1>. QED
  BY <1>5, <1>6

\* Replacing the top of one stack keeps every other call in order.
LEMMA SetTopFrames ==
  ASSUME TypeInv, FrameInv, CellsGrow, UNCHANGED <<heap, temp>>,
         NEW t \in Threads, frames[t] # <<>>, NEW f \in Frames, SetTop(t, f),
         f.key = Top(t).key, f.given = <<>>, f.phase # "find", f.key \in DOMAIN cells',
         f.phase = "compute" => cells'[f.key].state # "empty"
  PROVE  /\ FrameInv' /\ frames' \in [Threads -> Seq(Frames)]
         /\ frames'[t] # <<>> /\ Top(t)' = f
         /\ \A u \in Threads \ {t} : frames'[u] = frames[u]
<1>1. frames[t] \in Seq(Frames) /\ frames' = [frames EXCEPT ![t] = Append(Front(frames[t]), f)]
  BY DEF TypeInv, SetTop
<1>2. /\ Append(Front(frames[t]), f) \in Seq(Frames) /\ Append(Front(frames[t]), f) # <<>>
      /\ Last(Append(Front(frames[t]), f)) = f
  BY <1>1, ReplaceTop
<1>3. /\ frames' \in [Threads -> Seq(Frames)] /\ frames'[t] = Append(Front(frames[t]), f)
      /\ \A u \in Threads \ {t} : frames'[u] = frames[u]
  BY <1>1, <1>2 DEF TypeInv
<1>4. Top(t)' = f /\ frames'[t] # <<>>
  BY <1>2, <1>3 DEF Top
<1>5. /\ \A i \in DOMAIN frames[t] : IsFrame(t, frames[t], i)
      /\ ContentsStay(t) /\ f.key = Last(frames[t]).key
  BY ContentsKeep DEF FrameInv, Top
<1>6. \A i \in DOMAIN frames'[t] : IsFrame(t, frames[t], i)'
  BY <1>1, <1>3, <1>5, ReplacedFrames
<1>. QED
  BY <1>3, <1>4, <1>6, OtherStacksStay

\* Popping a frame gives its answer to the computation below it.
LEMMA PoppedFrames ==
  ASSUME TypeInv, CellsGrow, NEW t, ContentsStay(t),
         NEW s \in Seq(Frames), s # <<>>, \A i \in DOMAIN s : IsFrame(t, s, i),
         NEW value, value = AnswerOf(Last(s).key), Front(s) # <<>>,
         NEW f, f = [Last(Front(s)) EXCEPT !.given = <<value>>],
         NEW r, r = Append(Front(Front(s)), f)
  PROVE  /\ r \in Seq(Frames) /\ r # <<>> /\ Last(r).phase = "compute"
         /\ \A i \in DOMAIN r : IsFrame(t, r, i)'
<1>. DEFINE b == Front(s)
<1>1. /\ Len(s) \in Nat \ {0} /\ DOMAIN s = 1 .. Len(s) /\ Last(s) = s[Len(s)]
      /\ b \in Seq(Frames) /\ Len(b) = Len(s) - 1 /\ DOMAIN b = 1 .. Len(s) - 1
      /\ \A i \in 1 .. Len(s) - 1 : b[i] = s[i]
  BY StackFacts
<1>2. Len(b) \in Nat \ {0} /\ Last(b) = b[Len(b)] /\ Last(b) \in Frames
  BY <1>1, StackFacts
<1>3. \A i \in DOMAIN b : i \in DOMAIN s /\ i # Len(s)
  BY <1>1
<1>4. \A i \in DOMAIN b : i # Len(b) => i + 1 \in DOMAIN b /\ i + 1 \in 1 .. Len(s) - 1
  BY <1>1
<1>. HIDE DEF b
<1>5. ASSUME NEW i \in DOMAIN b PROVE IsFrame(t, b, i)
  <2>1. IsFrame(t, s, i) /\ b[i] = s[i] /\ (i # Len(b) => b[i + 1] = s[i + 1])
    BY <1>1, <1>3, <1>4
  <2>. QED
    BY <1>3, <2>1 DEF IsFrame
<1>6. Len(b) \in DOMAIN b /\ Len(b) + 1 = Len(s)
  BY <1>1, <1>2, SMTT(30)
<1>7. /\ IsFrame(t, s, Len(b)) /\ s[Len(b)] = Last(b)
      /\ Last(b).phase = "compute" /\ Last(s).key \in Needs(Last(b).key)
  <2>1. IsFrame(t, s, Len(b)) /\ s[Len(b)] = Last(b)
    BY <1>1, <1>2, <1>3, <1>6
  <2>. QED
    BY <1>1, <1>3, <1>6, <2>1 DEF IsFrame
<1>8. /\ IsKey(Last(b).key) /\ HeldBy(t, Last(b).key) /\ Last(b).key \in DOMAIN cells
      /\ cells[Last(b).key].state # "empty"
  BY <1>7 DEF IsFrame
<1>9. IsKey(Last(s).key) /\ HeldBy(t, Last(s).key) /\ value \in AnswersOfKeys
  BY <1>7, <1>8, NeedsFacts, ContentsType
<1>10. /\ f \in Frames /\ f.key = Last(b).key /\ f.phase = "compute" /\ f.given = <<value>>
  <2>1. f = [Last(b) EXCEPT !.given = <<value>>] /\ <<value>> \in Seq(AnswersOfKeys)
    BY <1>9 DEF b
  <2>. QED
    BY <1>2, <1>7, <2>1 DEF Frames
<1>11. Last(s).key \in Needs(f.key)' /\ value = AnswerOf(Last(s).key)'
  BY <1>7, <1>8, <1>9, <1>10 DEF ContentsStay, AnswerOf
<1>12. f.key \in DOMAIN cells' /\ cells'[f.key].state # "empty"
  BY <1>8, <1>10 DEF CellsGrow
<1>13. b \in Seq(Frames) /\ b # <<>> /\ r = Append(Front(b), f)
  BY <1>1 DEF b
<1>14. r \in Seq(Frames) /\ r # <<>> /\ Last(r) = f
  BY <1>10, <1>13, ReplaceTop
<1>15. \A i \in DOMAIN r : IsFrame(t, r, i)'
  BY <1>5, <1>10, <1>11, <1>12, <1>13, ReplacedFrames
<1>. QED
  BY <1>10, <1>14, <1>15

\* A call that returns a certified answer hands it to the call below it.
LEMMA ReturnFrames ==
  ASSUME TypeInv, FrameInv, CellsGrow, UNCHANGED <<heap, temp>>,
         NEW t \in Threads, frames[t] # <<>>,
         NEW value, value = AnswerOf(Top(t).key), Return(t, value)
  PROVE  /\ FrameInv' /\ frames' \in [Threads -> Seq(Frames)]
         /\ frames'[t] # <<>> => Top(t)'.phase = "compute"
         /\ \A u \in Threads \ {t} : frames'[u] = frames[u]
<1>. DEFINE below == Front(frames[t])
            r == IF below = <<>> THEN <<>>
                 ELSE Append(Front(below), [Last(below) EXCEPT !.given = <<value>>])
<1>1. frames[t] \in Seq(Frames) /\ frames' = [frames EXCEPT ![t] = r]
  BY DEF TypeInv, Return
<1>2. /\ \A i \in DOMAIN frames[t] : IsFrame(t, frames[t], i)
      /\ ContentsStay(t) /\ value = AnswerOf(Last(frames[t]).key)
  BY ContentsKeep DEF FrameInv, Top
<1>3. /\ frames'[t] = r /\ \A u \in Threads \ {t} : frames'[u] = frames[u]
      /\ r \in Seq(Frames) => frames' \in [Threads -> Seq(Frames)]
  BY <1>1 DEF TypeInv
<1>4. CASE below = <<>>
  <2>1. frames'[t] = <<>> /\ r \in Seq(Frames) /\ DOMAIN frames'[t] = {}
    BY <1>3, <1>4
  <2>. QED
    BY <1>3, <2>1, OtherStacksStay
<1>5. CASE below # <<>>
  <2>1. frames'[t] = Append(Front(below), [Last(below) EXCEPT !.given = <<value>>])
    BY <1>3, <1>5
  <2>2. /\ frames'[t] \in Seq(Frames) /\ frames'[t] # <<>> /\ Last(frames'[t]).phase = "compute"
        /\ \A i \in DOMAIN frames'[t] : IsFrame(t, frames[t], i)'
    BY <1>1, <1>2, <1>5, <2>1, PoppedFrames
  <2>3. frames' \in [Threads -> Seq(Frames)]
    BY <1>3, <2>2
  <2>. QED
    BY <1>3, <2>2, <2>3, OtherStacksStay DEF Top
<1>. QED
  BY <1>4, <1>5

-----------------------------------------------------------------------------
(* The steps outside get_or_compute.                                       *)

\* The invariant holds before any request.
LEMMA InitInvariant == Init => IInv
<1>. SUFFICES ASSUME Init PROVE IInv
  OBVIOUS
<1>1. TypeInv
  <2>1. (CHOOSE c \in Contents : TRUE) \in Contents
    BY StoredAssumption
  <2>. QED
    BY <2>1, StoredAssumption DEF Init, TypeInv
<1>2. DOMAIN cells = {} /\ DOMAIN runs = {} /\ \A t \in Threads : frames[t] = <<>>
  BY DEF Init
<1>3. CellInv /\ FrameInv /\ RunInv /\ WaitInv
  BY <1>2 DEF CellInv, FrameInv, RunInv, WaitInv
<1>4. CountInv
  <2>1. \A m \in Operations : /\ {t \in Threads : Counting(t, m)} = {}
                              /\ {key \in DOMAIN cells : key.memo = m} = {}
                              /\ misses[m] = 0
    BY <1>2 DEF Counting, At, Init
  <2>. QED
    BY <1>2, <2>1, FS_EmptySet DEF CountInv
<1>. QED
  BY <1>1, <1>3, <1>4 DEF IInv

\* A step outside the stacks and the cells.
LEMMA ModulesStep ==
  ASSUME IInv, UNCHANGED <<cells, frames, misses, runs>>,
         heap' \in [Addresses -> Contents], temp' \in [Threads -> SUBSET Addresses],
         \A t \in Threads : frames[t] # <<>> => ContentsStay(t),
         \A key \in DOMAIN cells : ContentsOf(key)' = ContentsOf(key)
  PROVE  IInv'
<1>1. TypeInv'
  BY DEF IInv, TypeInv
<1>2. CellInv'
  <2>1. \A key \in DOMAIN cells : AnswerOf(key)' = AnswerOf(key)
    BY DEF AnswerOf
  <2>. QED
    BY <2>1 DEF IInv, CellInv, IsKey, Keys
<1>3. FrameInv'
  <2>1. CellsGrow
    BY DEF CellsGrow
  <2>2. ASSUME NEW t \in Threads, NEW i \in DOMAIN frames[t] PROVE IsFrame(t, frames[t], i)'
    <3>1. frames[t] # <<>> /\ IsFrame(t, frames[t], i)
      BY <2>2 DEF IInv, FrameInv
    <3>2. ContentsStay(t) /\ TypeInv /\ frames'[t] = frames[t]
      BY <3>1 DEF IInv
    <3>. QED
      BY <2>1, <3>1, <3>2, FrameStays
  <2>. QED
    BY <2>2 DEF FrameInv
<1>4. RunInv' /\ WaitInv'
  BY DEF IInv, RunInv, WaitInv, Entering, Top
<1>5. CountInv'
  BY DEF IInv, CountInv, Counting, At, Top
<1>. QED
  BY <1>1, <1>2, <1>3, <1>4, <1>5 DEF IInv

\* The address of a new module is named by no key.
LEMMA BuildStep ==
  ASSUME IInv, NEW t \in Threads, NEW a \in Addresses, NEW c \in Contents, Build(t, a, c)
  PROVE  IInv'
<1>1. /\ heap' = [heap EXCEPT ![a] = c] /\ temp' = [temp EXCEPT ![t] = {a}]
      /\ UNCHANGED <<cells, frames, misses, runs>> /\ temp[t] = {} /\ a \notin Kept
  BY DEF Build
<1>2. /\ heap \in [Addresses -> Contents] /\ temp \in [Threads -> SUBSET Addresses]
      /\ \A b : b # a => heap'[b] = heap[b]
      /\ \A u \in Threads : temp[u] \subseteq temp'[u]
  BY <1>1 DEF IInv, TypeInv
<1>3. \A u \in Threads : a \notin DOMAIN Stored \cup temp[u]
  BY <1>1 DEF Kept, Held
<1>4. ASSUME NEW key, IsKey(key),
             key.memo # "opposite" => \A i \in DOMAIN key.operands : key.operands[i] # a
      PROVE  ContentsOf(key)' = ContentsOf(key) /\ Needs(key)' = Needs(key)
  <2>1. CASE key.memo = "opposite"
    BY <2>1 DEF ContentsOf, Needs
  <2>2. CASE key.memo # "opposite"
    <3>1. \A i \in DOMAIN key.operands : heap'[key.operands[i]] = heap[key.operands[i]]
      BY <1>2, <1>4, <2>2
    <3>2. 1 \in DOMAIN key.operands
      BY <1>4, <2>2 DEF IsKey
    <3>. QED
      BY <2>2, <3>1, <3>2 DEF ContentsOf, Needs
  <2>. QED
    BY <2>1, <2>2
<1>5. ASSUME NEW u \in Threads PROVE ContentsStay(u)
  BY <1>2, <1>3, <1>4 DEF ContentsStay, HeldBy
<1>6. ASSUME NEW key \in DOMAIN cells PROVE ContentsOf(key)' = ContentsOf(key)
  <2>1. IsKey(key)
    BY DEF IInv, CellInv
  <2>2. \A i \in DOMAIN key.operands : key.operands[i] # a
    BY <1>1 DEF Kept, ToSet
  <2>. QED
    BY <1>4, <2>1, <2>2
<1>7. heap' \in [Addresses -> Contents] /\ temp' \in [Threads -> SUBSET Addresses]
  BY <1>1, <1>2
<1>. QED
  BY <1>1, <1>5, <1>6, <1>7, ModulesStep

\* A dropped module may still be named by a key, which keeps it.
LEMMA DropStep == ASSUME IInv, NEW t \in Threads, Drop(t) PROVE IInv'
<1>1. /\ temp' = [temp EXCEPT ![t] = {}] /\ frames[t] = <<>>
      /\ UNCHANGED <<heap, cells, frames, misses, runs>>
  BY DEF Drop, Idle
<1>2. temp \in [Threads -> SUBSET Addresses] /\ heap' \in [Addresses -> Contents]
  BY <1>1 DEF IInv, TypeInv
<1>3. ASSUME NEW u \in Threads, frames[u] # <<>> PROVE ContentsStay(u)
  <2>1. temp'[u] = temp[u]
    BY <1>1, <1>2, <1>3
  <2>. QED
    BY <1>1, <2>1 DEF ContentsStay, HeldBy, ContentsOf, Needs
<1>4. \A key \in DOMAIN cells : ContentsOf(key)' = ContentsOf(key)
  BY <1>1 DEF ContentsOf
<1>5. temp' \in [Threads -> SUBSET Addresses]
  BY <1>1, <1>2
<1>. QED
  BY <1>1, <1>2, <1>3, <1>4, <1>5, ModulesStep

-----------------------------------------------------------------------------
(* The steps of get_or_compute.                                            *)

\* What the other threads wait for and count does not change.
LEMMA OthersKeep ==
  ASSUME NEW t, \A u \in Threads \ {t} : frames'[u] = frames[u]
  PROVE  \A u \in Threads \ {t} :
           /\ \A key : Entering(u, key)' <=> Entering(u, key)
           /\ \A m : Counting(u, m)' <=> Counting(u, m)
BY DEF Entering, Counting, At, Top

\* A step that creates no entry and neither begins nor ends a count.
LEMMA CountKeeps ==
  ASSUME CountInv, DOMAIN cells' = DOMAIN cells, UNCHANGED misses,
         NEW t, \A u \in Threads \ {t} : frames'[u] = frames[u],
         \A m : ~Counting(t, m) /\ ~Counting(t, m)'
  PROVE  CountInv'
<1>1. \A m : {u \in Threads : Counting(u, m)'} = {u \in Threads : Counting(u, m)}
  BY OthersKeep
<1>. QED
  BY <1>1 DEF CountInv

\* Entries whose modules and values a step leaves alone.
LEMMA CellsKeep ==
  ASSUME CellInv, UNCHANGED <<heap, temp>>
  PROVE  \A key \in DOMAIN cells :
           IsKey(key) /\ IsKey(key)' /\ cells[key] \in {Empty, Running, Set(AnswerOf(key)')}
<1>1. \A key \in DOMAIN cells : AnswerOf(key)' = AnswerOf(key)
  BY DEF AnswerOf, ContentsOf
<1>. QED
  BY <1>1 DEF CellInv, IsKey, Keys

\* A request starts a stack of one call on modules the thread holds.
LEMMA RequestStep ==
  ASSUME IInv, NEW t \in Threads, NEW memo, NEW operands, IsKey(Key(memo, operands)),
         HeldBy(t, Key(memo, operands)), Request(t, memo, operands)
  PROVE  IInv'
<1>. DEFINE f == Frame(Key(memo, operands))
<1>1. /\ frames[t] = <<>> /\ frames' = [frames EXCEPT ![t] = <<f>>]
      /\ UNCHANGED <<heap, temp, cells, misses, runs>>
  BY DEF Request, Idle
<1>2. f \in Frames
  BY DEF Frame, Frames, IsKey
<1>3. /\ frames' \in [Threads -> Seq(Frames)] /\ frames'[t] = <<f>>
      /\ \A u \in Threads \ {t} : frames'[u] = frames[u]
  <2>1. frames \in [Threads -> Seq(Frames)] /\ <<f>> \in Seq(Frames)
    BY <1>2 DEF IInv, TypeInv
  <2>. QED
    BY <1>1, <2>1
<1>4. TypeInv'
  BY <1>1, <1>3 DEF IInv, TypeInv
<1>5. FrameInv'
  <2>1. CellsGrow
    BY <1>1 DEF CellsGrow
  <2>2. IsKey(f.key)' /\ HeldBy(t, f.key)'
    BY <1>1 DEF Frame, IsKey, Keys, HeldBy
  <2>3. frames'[t][1] = f /\ DOMAIN frames'[t] = {1} /\ Len(frames'[t]) = 1
    BY <1>3
  <2>4. \A i \in DOMAIN frames'[t] : IsFrame(t, frames[t], i)'
    BY <2>2, <2>3 DEF IsFrame, Frame
  <2>. QED
    BY <1>1, <1>3, <2>1, <2>4, OtherStacksStay DEF IInv
<1>6. ~At(t, "count") /\ ~At(t, "count")'
  BY <1>1, <1>3 DEF At, Top, Last, Frame
<1>7. CountInv'
  BY <1>1, <1>3, <1>6, CountKeeps DEF IInv, Counting
<1>8. WaitInv'
  <2>1. \A key : ~Entering(t, key)
    BY <1>1 DEF Entering
  <2>. QED
    BY <1>1, <1>3, <2>1, OthersKeep DEF IInv, WaitInv
<1>9. CellInv' /\ RunInv'
  BY <1>1, CellsKeep DEF IInv, CellInv, RunInv
<1>. QED
  BY <1>4, <1>5, <1>7, <1>8, <1>9 DEF IInv

\* Every operation a thread may ask for is such a request.
LEMMA AskStep == ASSUME IInv, NEW t \in Threads, Ask(t) PROVE IInv'
<1>. DEFINE modules == DOMAIN Stored \cup temp[t]
<1>1. modules \subseteq Addresses
  BY StoredAssumption DEF IInv, TypeInv
<1>2. ASSUME NEW memo \in Operations, memo = "opposite", NEW algebra \in Algebras
      PROVE  IsKey(Key(memo, <<algebra>>)) /\ HeldBy(t, Key(memo, <<algebra>>))
  BY <1>2 DEF IsKey, Keys, Key, HeldBy
<1>3. ASSUME NEW memo \in Operations, memo # "opposite", NEW b \in modules, NEW c \in modules
      PROVE  IsKey(Key(memo, <<b, c>>)) /\ HeldBy(t, Key(memo, <<b, c>>))
  BY <1>1, <1>3 DEF IsKey, Keys, Key, HeldBy
<1>4. ASSUME NEW memo \in Operations, memo # "opposite", NEW b \in modules
      PROVE  IsKey(Key(memo, <<b>>)) /\ HeldBy(t, Key(memo, <<b>>))
  BY <1>1, <1>4 DEF IsKey, Keys, Key, HeldBy
<1>. HIDE DEF modules
<1>5. PICK memo \in Operations :
        \/ memo = "opposite" /\ \E algebra \in Algebras : Request(t, memo, <<algebra>>)
        \/ memo # "opposite" /\ \E b, c \in modules : Request(t, memo, <<b, c>>)
        \/ memo # "opposite" /\ \E b \in modules : Request(t, memo, <<b>>)
  BY DEF Ask, Pairwise, modules
<1>. QED
  BY <1>2, <1>3, <1>4, <1>5, RequestStep

\* The top frame of a running thread.
LEMMA TopFacts ==
  ASSUME IInv, NEW t \in Threads, frames[t] # <<>>
  PROVE  /\ Top(t) \in Frames /\ IsKey(Top(t).key) /\ HeldBy(t, Top(t).key)
         /\ Top(t).phase # "find" => Top(t).key \in DOMAIN cells
         /\ Top(t).phase = "compute" => cells[Top(t).key].state # "empty"
         /\ Top(t).phase # "compute" => Top(t).given = <<>>
         /\ Len(frames[t]) \in DOMAIN frames[t] /\ Top(t) = frames[t][Len(frames[t])]
<1>1. frames[t] \in Seq(Frames)
  BY DEF IInv, TypeInv
<1>2. /\ Len(frames[t]) \in DOMAIN frames[t] /\ Top(t) = frames[t][Len(frames[t])]
      /\ Top(t) \in Frames
  <2>1. /\ Len(frames[t]) \in Nat \ {0} /\ DOMAIN frames[t] = 1 .. Len(frames[t])
        /\ Last(frames[t]) \in Frames /\ Last(frames[t]) = frames[t][Len(frames[t])]
    BY <1>1, StackFacts
  <2>2. Len(frames[t]) \in DOMAIN frames[t]
    BY <2>1
  <2>. QED
    BY <2>1, <2>2 DEF Top
<1>3. IsFrame(t, frames[t], Len(frames[t]))
  BY <1>2 DEF IInv, FrameInv
<1>. QED
  BY <1>2, <1>3 DEF IsFrame

\* A vacant key gets an empty cell, and its creator counts a miss.
LEMMA FindStep == ASSUME IInv, NEW t \in Threads, FindCell(t) PROVE IInv'
<1>. DEFINE key == Top(t).key
            missed == key \notin DOMAIN cells
            f == [Top(t) EXCEPT !.phase = "count", !.miss = missed]
<1>1. /\ frames[t] # <<>> /\ Top(t).phase = "find" /\ SetTop(t, f)
      /\ cells' = IF missed
                  THEN [k \in DOMAIN cells \cup {key} |-> IF k = key THEN Empty ELSE cells[k]]
                  ELSE cells
      /\ UNCHANGED <<heap, temp, misses, runs>>
  BY DEF FindCell, At
<1>2. Top(t) \in Frames /\ IsKey(key) /\ Top(t).given = <<>>
  BY <1>1, TopFacts
<1>3. f \in Frames /\ f.key = key /\ f.given = <<>> /\ f.phase = "count" /\ (f.miss <=> missed)
  BY <1>2 DEF Frames
<1>. HIDE DEF f
<1>4. /\ DOMAIN cells' = DOMAIN cells \cup {key}
      /\ \A k \in DOMAIN cells : cells'[k] = cells[k]
      /\ missed => cells'[key] = Empty
      /\ cells' = [k \in DOMAIN cells' |-> cells'[k]]
  BY <1>1 DEF IInv, TypeInv
<1>5. CellsGrow
  BY <1>4 DEF CellsGrow
<1>6. /\ FrameInv' /\ frames' \in [Threads -> Seq(Frames)]
      /\ frames'[t] # <<>> /\ Top(t)' = f
      /\ \A u \in Threads \ {t} : frames'[u] = frames[u]
  BY <1>1, <1>3, <1>4, <1>5, SetTopFrames DEF IInv
<1>7. TypeInv'
  BY <1>1, <1>4, <1>6 DEF IInv, TypeInv
<1>8. CellInv'
  <2>1. \A k : IsKey(k) => IsKey(k)'
    BY DEF IsKey, Keys
  <2>2. \A k \in DOMAIN cells :
          IsKey(k)' /\ cells'[k] \in {Empty, Running, Set(AnswerOf(k)')}
    BY <1>1, <1>4, CellsKeep DEF IInv
  <2>3. \A k \in DOMAIN cells' \ DOMAIN cells : IsKey(k)' /\ cells'[k] = Empty
    BY <1>2, <1>4, <2>1
  <2>. QED
    BY <2>2, <2>3 DEF CellInv
<1>9. RunInv'
  BY <1>1, <1>4 DEF IInv, RunInv, Empty
<1>10. WaitInv'
  <2>1. Entering(t, key)'
    BY <1>3, <1>6 DEF Entering
  <2>2. \A k : ~Entering(t, k)
    BY <1>1 DEF Entering
  <2>3. \A k \in DOMAIN cells : cells'[k].state = "empty" => \E u \in Threads : Entering(u, k)'
    <3>. TAKE k \in DOMAIN cells
    <3>. HAVE cells'[k].state = "empty"
    <3>1. PICK u \in Threads : Entering(u, k)
      BY <1>4 DEF IInv, WaitInv
    <3>2. Entering(u, k)'
      BY <1>6, <2>2, <3>1, OthersKeep
    <3>. QED
      BY <3>2
  <2>4. Top(t)'.key = key
    BY <1>3, <1>6
  <2>5. ASSUME NEW k \in DOMAIN cells', cells'[k].state = "empty"
        PROVE  \E u \in Threads : Entering(u, k)'
    <3>1. CASE k \in DOMAIN cells
      BY <2>3, <2>5, <3>1
    <3>2. CASE k = key
      <4>1. Entering(t, k)'
        BY <1>3, <1>6, <3>2 DEF Entering
      <4>. QED
        BY <4>1
    <3>. QED
      BY <1>4, <3>1, <3>2
  <2>. QED
    BY <2>5 DEF WaitInv
<1>11. CountInv'
  <2>1. /\ IsFiniteSet(DOMAIN cells) /\ IsFiniteSet(DOMAIN cells')
    BY <1>4, FS_AddElement DEF IInv, CountInv
  <2>2. \A m : ~Counting(t, m) /\ (Counting(t, m)' <=> missed /\ m = key.memo)
    BY <1>1, <1>3, <1>6 DEF Counting, At
  <2>3. ASSUME NEW m \in Operations
        PROVE  misses'[m] + Cardinality({u \in Threads : Counting(u, m)'})
                 = Cardinality({k \in DOMAIN cells' : k.memo = m})
    <3>. DEFINE C == {u \in Threads : Counting(u, m)}
                K == {k \in DOMAIN cells : k.memo = m}
    <3>1. misses[m] + Cardinality(C) = Cardinality(K) /\ misses' = misses /\ misses[m] \in Nat
      BY <1>1 DEF IInv, TypeInv, CountInv
    <3>2. IsFiniteSet(C) /\ IsFiniteSet(K)
      BY <2>1, FS_Subset, StoredAssumption
    <3>3. CASE missed /\ m = key.memo
      <4>1. {u \in Threads : Counting(u, m)'} = C \cup {t} /\ t \notin C
        BY <1>6, <2>2, <3>3, OthersKeep
      <4>2. {k \in DOMAIN cells' : k.memo = m} = K \cup {key} /\ key \notin K
        BY <1>4, <3>3
      <4>. HIDE DEF C, K
      <4>3. /\ Cardinality(C \cup {t}) = Cardinality(C) + 1 /\ Cardinality(C) \in Nat
            /\ Cardinality(K \cup {key}) = Cardinality(K) + 1 /\ Cardinality(K) \in Nat
        BY <3>2, <4>1, <4>2, FS_AddElement, FS_CardinalityType
      <4>4. misses[m] + (Cardinality(C) + 1) = Cardinality(K) + 1
        BY <3>1, <4>3
      <4>. QED
        BY <3>1, <4>1, <4>2, <4>3, <4>4
    <3>4. CASE ~(missed /\ m = key.memo)
      <4>1. {u \in Threads : Counting(u, m)'} = C
        BY <1>6, <2>2, <3>4, OthersKeep
      <4>2. {k \in DOMAIN cells' : k.memo = m} = K
        BY <1>4, <3>4
      <4>. QED
        BY <3>1, <4>1, <4>2
    <3>. QED
      BY <3>3, <3>4
  <2>. QED
    BY <2>1, <2>3 DEF CountInv
<1>. QED
  BY <1>6, <1>7, <1>8, <1>9, <1>10, <1>11 DEF IInv

\* The counter of the memo catches up with the cell that was created.
LEMMA CountStep == ASSUME IInv, NEW t \in Threads, CountRequest(t) PROVE IInv'
<1>. DEFINE memo == Top(t).key.memo
            f == [Top(t) EXCEPT !.phase = "enter"]
<1>1. /\ frames[t] # <<>> /\ Top(t).phase = "count" /\ SetTop(t, f)
      /\ UNCHANGED <<heap, temp, cells, runs>>
      /\ IF Top(t).miss THEN misses' = [misses EXCEPT ![memo] = @ + 1] ELSE misses' = misses
  BY DEF CountRequest, At
<1>2. /\ Top(t) \in Frames /\ IsKey(Top(t).key) /\ Top(t).given = <<>>
      /\ Top(t).key \in DOMAIN cells
  BY <1>1, TopFacts
<1>3. f \in Frames /\ f.key = Top(t).key /\ f.given = <<>> /\ f.phase = "enter"
  BY <1>2 DEF Frames
<1>. HIDE DEF f
<1>4. CellsGrow
  BY <1>1 DEF CellsGrow
<1>5. /\ FrameInv' /\ frames' \in [Threads -> Seq(Frames)]
      /\ frames'[t] # <<>> /\ Top(t)' = f
      /\ \A u \in Threads \ {t} : frames'[u] = frames[u]
  BY <1>1, <1>2, <1>3, <1>4, SetTopFrames DEF IInv
<1>6. TypeInv'
  <2>1. memo \in Operations /\ misses \in [Operations -> Nat]
    BY <1>2 DEF IsKey, Keys, IInv, TypeInv
  <2>2. misses' \in [Operations -> Nat]
    BY <1>1, <2>1
  <2>. QED
    BY <1>1, <1>5, <2>2 DEF IInv, TypeInv
<1>7. CellInv' /\ RunInv'
  BY <1>1, CellsKeep DEF IInv, CellInv, RunInv
<1>8. WaitInv'
  <2>1. \A k : Entering(t, k) => Entering(t, k)'
    BY <1>3, <1>5 DEF Entering
  <2>. QED
    BY <1>1, <1>5, <2>1, OthersKeep, ZenonT(40) DEF IInv, WaitInv
<1>9. CountInv'
  <2>1. \A m : ~Counting(t, m)' /\ (Counting(t, m) <=> Top(t).miss /\ m = memo)
    BY <1>1, <1>3, <1>5 DEF Counting, At
  <2>2. misses \in [Operations -> Nat]
    BY DEF IInv, TypeInv
  <2>3. ASSUME NEW m \in Operations
        PROVE  misses'[m] + Cardinality({u \in Threads : Counting(u, m)'})
                 = misses[m] + Cardinality({u \in Threads : Counting(u, m)})
    <3>. DEFINE C == {u \in Threads : Counting(u, m)}
    <3>1. CASE Top(t).miss /\ m = memo
      <4>1. {u \in Threads : Counting(u, m)'} = C \ {t} /\ t \in C
        BY <1>5, <2>1, <3>1, OthersKeep
      <4>2. IsFiniteSet(C)
        BY FS_Subset, StoredAssumption
      <4>. HIDE DEF C
      <4>3. Cardinality(C \ {t}) = Cardinality(C) - 1 /\ Cardinality(C) \in Nat
        BY <4>1, <4>2, FS_RemoveElement, FS_CardinalityType
      <4>4. misses'[m] = misses[m] + 1 /\ misses[m] \in Nat
        BY <1>1, <2>2, <3>1
      <4>5. (misses[m] + 1) + (Cardinality(C) - 1) = misses[m] + Cardinality(C)
        BY <4>3, <4>4
      <4>. QED
        BY <4>1, <4>3, <4>4, <4>5 DEF C
    <3>2. CASE ~(Top(t).miss /\ m = memo)
      <4>1. {u \in Threads : Counting(u, m)'} = C
        <5>1. ~Counting(t, m)' /\ ~Counting(t, m)
          BY <2>1, <3>2, Zenon
        <5>2. \A u \in Threads : Counting(u, m)' <=> Counting(u, m)
          BY <1>5, <5>1, OthersKeep, Zenon
        <5>. QED
          BY ONLY <5>2, Zenon
      <4>2. misses'[m] = misses[m]
        BY <1>1, <2>2, <3>2
      <4>. QED
        BY <4>1, <4>2
    <3>. QED
      BY <3>1, <3>2
  <2>. QED
    BY <1>1, <2>3 DEF IInv, CountInv
<1>. QED
  BY <1>5, <1>6, <1>7, <1>8, <1>9 DEF IInv

\* Only an empty cell is entered, so its computation starts for the first time.
LEMMA StartStep == ASSUME IInv, NEW t \in Threads, StartComputation(t) PROVE IInv'
<1>. DEFINE f == [Top(t) EXCEPT !.phase = "compute"]
<1>0. PICK key : key = Top(t).key
  OBVIOUS
<1>1. /\ frames[t] # <<>> /\ Top(t).phase = "enter" /\ SetTop(t, f)
      /\ cells[key].state = "empty" /\ cells' = [cells EXCEPT ![key] = Running]
      /\ runs' = [k \in DOMAIN runs \cup {key} |->
                    (IF k \in DOMAIN runs THEN runs[k] ELSE 0) + (IF k = key THEN 1 ELSE 0)]
      /\ UNCHANGED <<heap, temp, misses>>
  BY <1>0 DEF StartComputation, At, IsInitializer
<1>2. /\ Top(t) \in Frames /\ IsKey(key) /\ Top(t).given = <<>> /\ key \in DOMAIN cells
  BY <1>0, <1>1, TopFacts
<1>3. f \in Frames /\ f.key = key /\ f.given = <<>> /\ f.phase = "compute"
  BY <1>0, <1>2 DEF Frames
<1>. HIDE DEF f
<1>4. /\ DOMAIN cells' = DOMAIN cells /\ cells'[key] = Running
      /\ \A k \in DOMAIN cells : k # key => cells'[k] = cells[k]
      /\ cells' = [k \in DOMAIN cells' |-> cells'[k]]
  BY <1>1, <1>2 DEF IInv, TypeInv
<1>5. CellsGrow
  BY <1>4 DEF CellsGrow, Running
<1>6. /\ FrameInv' /\ frames' \in [Threads -> Seq(Frames)]
      /\ frames'[t] # <<>> /\ Top(t)' = f
      /\ \A u \in Threads \ {t} : frames'[u] = frames[u]
  BY <1>0, <1>1, <1>2, <1>3, <1>4, <1>5, SetTopFrames DEF IInv, Running
<1>7. TypeInv'
  BY <1>1, <1>4, <1>6 DEF IInv, TypeInv
<1>8. CellInv'
  <2>1. \A k \in DOMAIN cells' : IsKey(k)' /\ cells'[k] \in {Empty, Running, Set(AnswerOf(k)')}
    BY <1>1, <1>4, CellsKeep DEF IInv
  <2>. QED
    BY <2>1 DEF CellInv
<1>9. RunInv'
  <2>1. /\ DOMAIN runs = {k \in DOMAIN cells : cells[k].state # "empty"}
        /\ \A k \in DOMAIN runs : runs[k] = 1
    BY DEF IInv, RunInv
  <2>2. key \notin DOMAIN runs
    BY <1>1, <2>1
  <2>3. DOMAIN runs' = DOMAIN runs \cup {key} /\ \A k \in DOMAIN runs' : runs'[k] = 1
    BY <1>1, <2>1, <2>2
  <2>4. DOMAIN runs' = {k \in DOMAIN cells' : cells'[k].state # "empty"}
    BY <1>2, <1>4, <2>1, <2>3 DEF Running
  <2>. QED
    BY <2>3, <2>4 DEF RunInv
<1>10. WaitInv'
  <2>1. ASSUME NEW k \in DOMAIN cells', cells'[k].state = "empty"
        PROVE  \E u \in Threads : Entering(u, k)'
    <3>1. k # key /\ k \in DOMAIN cells /\ cells[k].state = "empty"
      BY <1>4, <2>1 DEF Running
    <3>2. PICK u \in Threads : Entering(u, k)
      BY <3>1 DEF IInv, WaitInv
    <3>3. u # t
      BY <1>0, <3>1, <3>2 DEF Entering
    <3>4. Entering(u, k)'
      BY <1>6, <3>2, <3>3, OthersKeep
    <3>. QED
      BY <3>4
  <2>. QED
    BY <2>1 DEF WaitInv
<1>11. CountInv'
  <2>1. \A m : ~Counting(t, m) /\ ~Counting(t, m)'
    BY <1>1, <1>3, <1>6 DEF Counting, At
  <2>. QED
    BY <1>1, <1>4, <1>6, <2>1, CountKeeps DEF IInv
<1>. QED
  BY <1>6, <1>7, <1>8, <1>9, <1>10, <1>11 DEF IInv

\* A nested call is put on top of the computation that makes it.
LEMMA PushedFrames ==
  ASSUME TypeInv, CellsGrow, NEW t, ContentsStay(t),
         NEW s \in Seq(Frames), s # <<>>, \A i \in DOMAIN s : IsFrame(t, s, i),
         Last(s).phase = "compute", Last(s).given = <<>>,
         NEW need \in Needs(Last(s).key), NEW r, r = Append(s, Frame(need))
  PROVE  /\ r \in Seq(Frames) /\ r # <<>> /\ Last(r) = Frame(need)
         /\ \A i \in DOMAIN r : IsFrame(t, r, i)'
<1>. DEFINE n == Len(s)
<1>1. n \in Nat \ {0} /\ DOMAIN s = 1 .. n /\ Last(s) = s[n] /\ n \in DOMAIN s
  <2>1. Len(s) \in Nat \ {0} /\ DOMAIN s = 1 .. Len(s) /\ Last(s) = s[Len(s)]
    BY StackFacts
  <2>. QED
    BY <2>1
<1>2. IsKey(Last(s).key) /\ HeldBy(t, Last(s).key)
  BY <1>1 DEF IsFrame
<1>3. IsKey(need) /\ HeldBy(t, need) /\ Frame(need) \in Frames
  <2>1. IsKey(need) /\ HeldBy(t, need)
    BY <1>2, NeedsFacts
  <2>. QED
    BY <2>1 DEF Frame, Frames, IsKey
<1>4. /\ r \in Seq(Frames) /\ Len(r) = n + 1 /\ DOMAIN r = 1 .. n + 1
      /\ r[n + 1] = Frame(need) /\ \A i \in 1 .. n : r[i] = s[i]
  BY <1>1, <1>3
<1>. HIDE DEF n
<1>5. IsFrame(t, r, n + 1)'
  <2>1. IsKey(need)' /\ HeldBy(t, need)'
    BY <1>3 DEF ContentsStay, IsKey, Keys
  <2>. QED
    BY <1>4, <2>1 DEF IsFrame, Frame
<1>6. ASSUME NEW i \in 1 .. n PROVE IsFrame(t, r, i)'
  <2>1. IsFrame(t, s, i)'
    BY <1>1, FrameStays
  <2>2. r[i] = s[i] /\ i # Len(r) /\ (i # n => i + 1 \in 1 .. n)
    BY <1>1, <1>4
  <2>3. CASE i # n
    <3>1. r[i + 1] = s[i + 1]
      BY <1>4, <2>2, <2>3
    <3>. QED
      BY <2>1, <2>2, <2>3, <3>1 DEF IsFrame, n
  <2>4. CASE i = n
    <3>1. r[i] = Last(s) /\ r[i + 1].key = need
      BY <1>1, <1>4, <2>2, <2>4 DEF Frame
    <3>2. need \in Needs(Last(s).key)'
      BY <1>2 DEF ContentsStay
    <3>. QED
      BY <2>1, <2>2, <3>1, <3>2 DEF IsFrame
  <2>. QED
    BY <2>3, <2>4
<1>7. \A i \in DOMAIN r : i = n + 1 \/ i \in 1 .. n
  BY <1>1, <1>4
<1>. QED
  BY <1>1, <1>4, <1>5, <1>6, <1>7 DEF Last

\* A computation asks only a memo declared before its own.
LEMMA NestedStep == ASSUME IInv, NEW t \in Threads, AskNested(t) PROVE IInv'
<1>1. /\ frames[t] # <<>> /\ Top(t).phase = "compute" /\ Top(t).given = <<>>
      /\ UNCHANGED <<heap, temp, cells, misses, runs>>
  BY DEF AskNested, At
<1>2. PICK need \in Needs(Top(t).key) : frames' = [frames EXCEPT ![t] = Append(@, Frame(need))]
  BY DEF AskNested
<1>3. frames \in [Threads -> Seq(Frames)] /\ \A i \in DOMAIN frames[t] : IsFrame(t, frames[t], i)
  BY DEF IInv, TypeInv, FrameInv
<1>4. CellsGrow /\ ContentsStay(t)
  BY <1>1, ContentsKeep DEF CellsGrow
<1>5. frames'[t] = Append(frames[t], Frame(need)) /\ \A u \in Threads \ {t} : frames'[u] = frames[u]
  BY <1>2, <1>3
<1>6. /\ frames'[t] \in Seq(Frames) /\ frames'[t] # <<>> /\ Last(frames'[t]) = Frame(need)
      /\ \A i \in DOMAIN frames'[t] : IsFrame(t, frames[t], i)'
  BY <1>1, <1>2, <1>3, <1>4, <1>5, PushedFrames DEF Top, IInv
<1>7. FrameInv'
  BY <1>1, <1>4, <1>5, <1>6, OtherStacksStay DEF IInv
<1>8. TypeInv'
  <2>1. frames' \in [Threads -> Seq(Frames)]
    BY <1>2, <1>3, <1>5, <1>6
  <2>. QED
    BY <1>1, <2>1 DEF IInv, TypeInv
<1>9. CellInv' /\ RunInv'
  BY <1>1, CellsKeep DEF IInv, CellInv, RunInv
<1>10. WaitInv'
  <2>1. \A k : ~Entering(t, k)
    BY <1>1 DEF Entering
  <2>. QED
    BY <1>1, <1>5, <2>1, OthersKeep DEF IInv, WaitInv
<1>11. CountInv'
  <2>1. \A m : ~Counting(t, m) /\ ~Counting(t, m)'
    BY <1>1, <1>6 DEF Counting, At, Top, Frame
  <2>. QED
    BY <1>1, <1>5, <2>1, CountKeeps DEF IInv
<1>. QED
  BY <1>7, <1>8, <1>9, <1>10, <1>11 DEF IInv

\* A set cell returns the certified answer.
LEMMA ReadStep == ASSUME IInv, NEW t \in Threads, ReadCell(t) PROVE IInv'
<1>1. /\ frames[t] # <<>> /\ Top(t).phase = "enter" /\ cells[Top(t).key].state = "set"
      /\ Return(t, cells[Top(t).key].value)
      /\ UNCHANGED <<heap, temp, cells, misses, runs>>
  BY DEF ReadCell, At
<1>2. Top(t).key \in DOMAIN cells
  BY <1>1, TopFacts
<1>3. cells[Top(t).key].value = AnswerOf(Top(t).key)
  BY <1>1, <1>2 DEF IInv, CellInv, Empty, Running, Set
<1>4. CellsGrow
  BY <1>1 DEF CellsGrow
<1>5. /\ FrameInv' /\ frames' \in [Threads -> Seq(Frames)]
      /\ frames'[t] # <<>> => Top(t)'.phase = "compute"
      /\ \A u \in Threads \ {t} : frames'[u] = frames[u]
  BY <1>1, <1>3, <1>4, ReturnFrames DEF IInv
<1>6. TypeInv'
  BY <1>1, <1>5 DEF IInv, TypeInv
<1>7. CellInv' /\ RunInv'
  BY <1>1, CellsKeep DEF IInv, CellInv, RunInv
<1>8. WaitInv'
  <2>1. ASSUME NEW k \in DOMAIN cells, cells[k].state = "empty"
        PROVE  \E u \in Threads : Entering(u, k)'
    <3>1. PICK u \in Threads : Entering(u, k)
      BY <2>1 DEF IInv, WaitInv
    <3>2. u # t
      BY <1>1, <2>1, <3>1 DEF Entering
    <3>3. Entering(u, k)'
      BY <1>5, <3>1, <3>2, OthersKeep
    <3>. QED
      BY <3>3
  <2>. QED
    BY <1>1, <2>1 DEF WaitInv
<1>9. CountInv'
  <2>1. \A m : ~Counting(t, m) /\ ~Counting(t, m)'
    BY <1>1, <1>5 DEF Counting, At
  <2>. QED
    BY <1>1, <1>5, <2>1, CountKeeps DEF IInv
<1>. QED
  BY <1>5, <1>6, <1>7, <1>8, <1>9 DEF IInv

\* A computation ends with the certified answer and sets its cell.
LEMMA StoreStep == ASSUME IInv, NEW t \in Threads, StoreResult(t) PROVE IInv'
<1>0. PICK key : key = Top(t).key
  OBVIOUS
<1>1. /\ frames[t] # <<>> /\ Top(t).phase = "compute"
      /\ Needs(key) = {} \/ Top(t).given # <<>>
      /\ cells' = [cells EXCEPT ![key] = Set(Outcome(Top(t)))]
      /\ Return(t, Outcome(Top(t)))
      /\ UNCHANGED <<heap, temp, misses, runs>>
  BY <1>0 DEF StoreResult, At
<1>2. /\ IsKey(key) /\ HeldBy(t, key) /\ key \in DOMAIN cells /\ cells[key].state # "empty"
      /\ Len(frames[t]) \in DOMAIN frames[t] /\ Top(t) = frames[t][Len(frames[t])]
  BY <1>0, <1>1, TopFacts
<1>3. Outcome(Top(t)) = AnswerOf(key)
  <2>1. IsFrame(t, frames[t], Len(frames[t]))
    BY <1>2 DEF IInv, FrameInv
  <2>. QED
    BY <1>0, <1>1, <1>2, <2>1, OutcomeIsCertified DEF IInv
<1>4. /\ DOMAIN cells' = DOMAIN cells /\ cells'[key] = Set(AnswerOf(key))
      /\ \A k \in DOMAIN cells : k # key => cells'[k] = cells[k]
      /\ cells' = [k \in DOMAIN cells' |-> cells'[k]]
  BY <1>1, <1>2, <1>3 DEF IInv, TypeInv
<1>5. cells'[key].state = "set"
  BY <1>4 DEF Set
<1>6. CellsGrow
  BY <1>4, <1>5 DEF CellsGrow
<1>7. /\ FrameInv' /\ frames' \in [Threads -> Seq(Frames)]
      /\ frames'[t] # <<>> => Top(t)'.phase = "compute"
      /\ \A u \in Threads \ {t} : frames'[u] = frames[u]
  BY <1>0, <1>1, <1>3, <1>6, ReturnFrames DEF IInv
<1>8. TypeInv'
  BY <1>1, <1>4, <1>7 DEF IInv, TypeInv
<1>9. CellInv'
  <2>1. \A k : IsKey(k) => AnswerOf(k)' = AnswerOf(k)
    BY <1>1, ContentsKeep
  <2>2. \A k \in DOMAIN cells' : IsKey(k)' /\ cells'[k] \in {Empty, Running, Set(AnswerOf(k)')}
    BY <1>1, <1>2, <1>4, <2>1, CellsKeep DEF IInv
  <2>. QED
    BY <2>2 DEF CellInv
<1>10. RunInv'
  BY <1>1, <1>2, <1>4, <1>5 DEF IInv, RunInv
<1>11. WaitInv'
  <2>1. ASSUME NEW k \in DOMAIN cells', cells'[k].state = "empty"
        PROVE  \E u \in Threads : Entering(u, k)'
    <3>1. k \in DOMAIN cells /\ cells[k].state = "empty"
      BY <1>4, <1>5, <2>1
    <3>2. PICK u \in Threads : Entering(u, k)
      BY <3>1 DEF IInv, WaitInv
    <3>3. u # t
      BY <1>1, <3>2 DEF Entering
    <3>4. Entering(u, k)'
      BY <1>7, <3>2, <3>3, OthersKeep
    <3>. QED
      BY <3>4
  <2>. QED
    BY <2>1 DEF WaitInv
<1>12. CountInv'
  <2>1. \A m : ~Counting(t, m) /\ ~Counting(t, m)'
    BY <1>1, <1>7 DEF Counting, At
  <2>. QED
    BY <1>1, <1>4, <1>7, <2>1, CountKeeps DEF IInv
<1>. QED
  BY <1>7, <1>8, <1>9, <1>10, <1>11, <1>12 DEF IInv

-----------------------------------------------------------------------------
(* The theorems.                                                           *)

\* Every step preserves the invariant.
LEMMA NextInvariant == IInv /\ [Next]_vars => IInv'
<1>. SUFFICES ASSUME IInv, [Next]_vars PROVE IInv'
  OBVIOUS
<1>1. CASE UNCHANGED vars
  <2>1. /\ heap \in [Addresses -> Contents] /\ temp \in [Threads -> SUBSET Addresses]
        /\ UNCHANGED <<heap, temp, cells, frames, misses, runs>>
    BY <1>1 DEF vars, IInv, TypeInv
  <2>2. \A t : ContentsStay(t)
    BY <2>1, ContentsKeep
  <2>3. \A key : ContentsOf(key)' = ContentsOf(key)
    BY <2>1 DEF ContentsOf
  <2>. QED
    BY <2>1, <2>2, <2>3, ModulesStep
<1>2. CASE Next
  BY <1>2, BuildStep, DropStep, AskStep, FindStep, CountStep, StartStep, ReadStep,
     NestedStep, StoreStep DEF Next, Call
<1>. QED
  BY <1>1, <1>2

\* The invariant holds in every reachable state.
THEOREM Invariance == Spec => []IInv
<1>. QED
  BY InitInvariant, NextInvariant, PTL DEF Spec

\* A stored result is the certified answer for the modules its key names now,
\* whatever was built and dropped around it.
THEOREM CertifiedEntries == Spec => []EntriesAreCertified
<1>1. IInv => EntriesAreCertified
  BY DEF IInv, CellInv, EntriesAreCertified, AnswerOf, Empty, Running, Set
<1>. QED
  BY <1>1, Invariance, PTL

\* With no call in progress every cell was computed, once, and counted.
LEMMA OnceFollows == IInv => ComputedOnce
<1>. SUFFICES ASSUME IInv PROVE ComputedOnce
  OBVIOUS
<1>1. \A key \in DOMAIN runs : runs[key] = 1
  BY DEF IInv, RunInv
<1>2. ASSUME \A t \in Threads : Idle(t)
      PROVE  /\ DOMAIN runs = DOMAIN cells
             /\ \A m \in Operations :
                  misses[m] = Cardinality({key \in DOMAIN cells : key.memo = m})
  <2>1. DOMAIN runs = DOMAIN cells
    BY <1>2 DEF IInv, RunInv, WaitInv, Entering, Idle
  <2>2. ASSUME NEW m \in Operations
        PROVE  misses[m] = Cardinality({key \in DOMAIN cells : key.memo = m})
    <3>1. {t \in Threads : Counting(t, m)} = {}
      BY <1>2 DEF Counting, At, Idle
    <3>2. misses[m] + Cardinality({}) = Cardinality({key \in DOMAIN cells : key.memo = m})
      BY <3>1 DEF IInv, CountInv
    <3>3. misses[m] \in Nat /\ Cardinality({}) = 0
      BY FS_EmptySet DEF IInv, TypeInv
    <3>4. misses[m] + 0 = misses[m]
      BY <3>3
    <3>. QED
      BY <3>2, <3>3, <3>4
  <2>. QED
    BY <2>1, <2>2
<1>. QED
  BY <1>1, <1>2 DEF ComputedOnce

\* No key is computed twice, and between requests the misses of a memo are its
\* entries, each of which was computed.
THEOREM OneComputation == Spec => []ComputedOnce
<1>. QED
  BY Invariance, OnceFollows, PTL

-----------------------------------------------------------------------------
(* The browser page.                                                       *)

Answers(source) == {VerdictOf[source], Result("failed", "none"), Unavailable}

\* the run awaited is the one shown as running, and its id is the newest
RunIsShown ==
  /\ \A r \in running : r.id < next_id /\ shown = {Shown(r, Result("running", "none"))}
  /\ running = {} => \A s \in shown : s.status # "running"
  /\ \A s \in shown : s.id < next_id

\* answers are of submitted runs that have left the worker, and the answer to the
\* current run is one it can have
AnswersAreHonest ==
  /\ \A m \in posted : m.id < next_id /\ \A w \in inbox \cup tasks : m.id # w.id
  /\ \A m \in posted, r \in running : m.id = r.id => m.result \in Answers(r.source)

\* a read with the current number is of the accepted atlas on the page
ReadsAreNumbered ==
  \A a \in atlas_reads :
    /\ a.render <= atlas_render
    /\ a.render = atlas_render => \E s \in shown : s.source = a.source /\ Accepted(s)

PageInv ==
  /\ TypeOK /\ OneReplayAtATime /\ RunIsShown /\ AnswersAreHonest /\ ReadsAreNumbered
  /\ VerdictIsOfItsSource /\ TableIsOfTheResult

-----------------------------------------------------------------------------

\* Every answer a run can have is a result record of the page.
LEMMA AnswersTyped ==
  ASSUME NEW source \in Sources
  PROVE  /\ Answers(source) \subseteq Results
         /\ \A result \in Answers(source) :
              result.status \in Verdicts \ {"failed"} =>
                Result(result.status, result.kind) = VerdictOf[source]
<1>1. VerdictOf[source] \in [status : Verdicts, kind : Kinds]
  BY VerdictAssumption
<1>2. VerdictOf[source] = Result(VerdictOf[source].status, VerdictOf[source].kind)
  BY <1>1 DEF Result
<1> QED
  BY <1>1, <1>2 DEF Answers, Results, Result, Unavailable, Verdicts, Kinds

\* The first state satisfies the invariant.
LEMMA PageInvInit == PageInit => PageInv
BY DEF PageInit, PageInv, TypeOK, OneReplayAtATime, RunIsShown, AnswersAreHonest,
       ReadsAreNumbered, VerdictIsOfItsSource, TableIsOfTheResult, Runs, Results

\* A submission, whether it starts a run or is dropped, keeps the invariant.
LEMMA SubmitKeepsInv ==
  ASSUME PageInv, NEW source \in Sources, Submit(source), reads' \in [Files -> Nat]
  PROVE  PageInv'
<1> USE DEF PageInv
<1>1. CASE running # {}
  <2>1. UNCHANGED <<running, next_id, shown, atlas_render, atlas_reads, table, worker, posted>>
    BY <1>1 DEF Submit
  <2> QED
    BY <2>1 DEF TypeOK, OneReplayAtATime, RunIsShown, AnswersAreHonest, ReadsAreNumbered,
                VerdictIsOfItsSource, TableIsOfTheResult, worker
<1>2. CASE running = {}
  <2> DEFINE run == Run(next_id, source)
  <2> DEFINE new == Shown(run, Result("running", "none"))
  <2>1. /\ running' = {run} /\ next_id' = next_id + 1 /\ shown' = {new}
        /\ atlas_render' = atlas_render + 1 /\ table' = {}
        /\ inbox' = inbox \cup {run}
        /\ UNCHANGED <<atlas_reads, tasks, compiled, posted>>
    BY <1>2 DEF Submit, HideAtlas
  <2>2. next_id \in Nat /\ inbox = {} /\ tasks = {}
    BY <1>2 DEF TypeOK, OneReplayAtATime
  <2>3. run \in Runs /\ run.id = next_id /\ run.source = source
    BY <2>2 DEF Run, Runs
  <2>4. /\ new \in [id : Nat, source : Sources, status : Statuses, kind : Kinds]
        /\ new.id = next_id /\ new.status = "running"
    BY <2>3 DEF Shown, Result, Runs, Statuses, Kinds
  <2> HIDE DEF run, new
  <2>5. TypeOK'
    BY <2>1, <2>2, <2>3, <2>4 DEF TypeOK
  <2>6. OneReplayAtATime'
    BY <2>1, <2>2 DEF OneReplayAtATime
  <2>7. RunIsShown'
    BY <2>1, <2>2, <2>3, <2>4 DEF RunIsShown, new
  <2>8. AnswersAreHonest'
    <3>1. \A m \in posted : m.id \in Nat /\ m.id < next_id /\ m.id # next_id
      BY <2>2 DEF TypeOK, AnswersAreHonest
    <3> QED
      BY <2>1, <2>2, <2>3, <3>1 DEF AnswersAreHonest
  <2>9. ReadsAreNumbered'
    BY <2>1 DEF ReadsAreNumbered, TypeOK
  <2>10. VerdictIsOfItsSource' /\ TableIsOfTheResult'
    BY <2>1, <2>4 DEF VerdictIsOfItsSource, TableIsOfTheResult, Verdicts
  <2> QED
    BY <2>5, <2>6, <2>7, <2>8, <2>9, <2>10
<1> QED
  BY <1>1, <1>2

\* The end of the awaited run, with an answer it can have or cancelled, keeps the invariant.
LEMMA RenderKeepsInv ==
  ASSUME PageInv, NEW run \in running,
         NEW result \in [status : Statuses \ {"running"}, kind : Kinds],
         result.status \in Verdicts \ {"failed"} =>
           Result(result.status, result.kind) = VerdictOf[run.source],
         running' = {}, Render(run, result), UNCHANGED <<next_id, reads>>,
         posted' \subseteq posted, inbox' = {}, tasks' = {},
         compiled' \in {"none", "loading", "ready"}
  PROVE  PageInv'
<1> USE DEF PageInv
<1> DEFINE new == Shown(run, result)
<1>1. /\ shown' = {new} /\ atlas_render' = atlas_render + 1 /\ table' = {}
      /\ \A a \in atlas_reads' :
           \/ a \in atlas_reads
           \/ a = [render |-> atlas_render', source |-> run.source] /\ Accepted(result)
  BY DEF Render, HideAtlas
<1>2. run \in Runs /\ run.id < next_id
  BY DEF TypeOK, RunIsShown
<1>3. /\ new \in [id : Nat, source : Sources, status : Statuses, kind : Kinds]
      /\ new.id = run.id /\ new.source = run.source
      /\ new.status = result.status /\ new.kind = result.kind
  BY <1>2 DEF Shown, Runs
<1> HIDE DEF new
<1>4. TypeOK'
  <2>1. \A a \in atlas_reads' : a \in [render : Nat, source : Sources]
    BY <1>1, <1>2 DEF TypeOK, Runs
  <2> QED
    BY <1>1, <1>3, <2>1 DEF TypeOK
<1>5. OneReplayAtATime' /\ RunIsShown' /\ AnswersAreHonest'
  BY <1>1, <1>2, <1>3 DEF OneReplayAtATime, RunIsShown, AnswersAreHonest
<1>6. ReadsAreNumbered'
  <2> SUFFICES ASSUME NEW a \in atlas_reads'
               PROVE  /\ a.render <= atlas_render'
                      /\ a.render = atlas_render' =>
                           \E s \in shown' : s.source = a.source /\ Accepted(s)
    BY DEF ReadsAreNumbered
  <2>1. CASE a \in atlas_reads
    BY <2>1, <1>1 DEF ReadsAreNumbered, TypeOK
  <2>2. CASE a = [render |-> atlas_render', source |-> run.source] /\ Accepted(result)
    BY <2>2, <1>1, <1>3 DEF Accepted, TypeOK
  <2> QED
    BY <2>1, <2>2, <1>1
<1>7. VerdictIsOfItsSource' /\ TableIsOfTheResult'
  BY <1>1, <1>3 DEF VerdictIsOfItsSource, TableIsOfTheResult
<1> QED
  BY <1>4, <1>5, <1>6, <1>7

\* A step that only posts answers to the current run, or moves it within the worker,
\* keeps the invariant.
LEMMA WorkerKeepsInv ==
  ASSUME PageInv, UNCHANGED page,
         inbox' \cup tasks' \subseteq inbox \cup tasks, inbox' \cap tasks' = {},
         compiled' \in {"none", "loading", "ready"},
         \A m \in posted' : \/ m \in posted
                            \/ \E task \in tasks \ (inbox' \cup tasks') :
                                 \E result \in Answers(task.source) : m = Answer(task, result)
  PROVE  PageInv'
<1> USE DEF PageInv
<1>1. UNCHANGED <<running, next_id, reads, shown, atlas_render, atlas_reads, table>>
  BY DEF page
<1>2. inbox' \cup tasks' \subseteq running /\ tasks \subseteq running /\ running \subseteq Runs
  BY DEF OneReplayAtATime, TypeOK
<1>3. \A m \in posted' :
        /\ m \in [id : Nat, result : Results] /\ m.id < next_id
        /\ \A w \in inbox' \cup tasks' : m.id # w.id
        /\ \A r \in running : m.id = r.id => m.result \in Answers(r.source)
  <2> SUFFICES ASSUME NEW m \in posted'
               PROVE  /\ m \in [id : Nat, result : Results] /\ m.id < next_id
                      /\ \A w \in inbox' \cup tasks' : m.id # w.id
                      /\ \A r \in running : m.id = r.id => m.result \in Answers(r.source)
    OBVIOUS
  <2>1. CASE m \in posted
    BY <2>1, <1>2 DEF TypeOK, AnswersAreHonest
  <2>2. CASE \E task \in tasks \ (inbox' \cup tasks') :
              \E result \in Answers(task.source) : m = Answer(task, result)
    <3>1. PICK task \in tasks \ (inbox' \cup tasks') :
            \E result \in Answers(task.source) : m = Answer(task, result)
      BY <2>2
    <3>2. PICK result \in Answers(task.source) : m = Answer(task, result)
      BY <3>1
    <3>3. task \in running /\ task \in Runs /\ task.source \in Sources /\ task.id \in Nat
      BY <1>2 DEF Runs
    <3>4. result \in Results
      BY <3>3, AnswersTyped
    <3>5. /\ task.id < next_id
          /\ \A r \in running : r = task
          /\ inbox' \cup tasks' = {}
      BY <1>2, <3>3, <3>1 DEF RunIsShown, OneReplayAtATime
    <3> QED
      BY <3>2, <3>3, <3>4, <3>5 DEF Answer
  <2> QED
    BY <2>1, <2>2
<1>4. TypeOK' /\ OneReplayAtATime' /\ AnswersAreHonest'
  BY <1>1, <1>2, <1>3 DEF TypeOK, OneReplayAtATime, AnswersAreHonest
<1>5. RunIsShown' /\ ReadsAreNumbered' /\ VerdictIsOfItsSource' /\ TableIsOfTheResult'
  BY <1>1 DEF RunIsShown, ReadsAreNumbered, VerdictIsOfItsSource, TableIsOfTheResult
<1> QED
  BY <1>4, <1>5

\* Every step keeps the invariant.
LEMMA PageInvStep == PageInv /\ [PageNext]_page_vars => PageInv'
<1> SUFFICES ASSUME PageInv, [PageNext]_page_vars PROVE PageInv'
  OBVIOUS
<1> USE DEF PageInv
<1>1. ASSUME NEW f \in Files, ChooseFile(f) PROVE PageInv'
  BY <1>1 DEF ChooseFile, TypeOK, OneReplayAtATime, RunIsShown, AnswersAreHonest,
              ReadsAreNumbered, VerdictIsOfItsSource, TableIsOfTheResult, worker
<1>2. ASSUME NEW f \in Files, FileRead(f) PROVE PageInv'
  <2>1. reads' \in [Files -> Nat]
    BY <1>2 DEF FileRead, TypeOK
  <2> QED
    BY <1>2, <2>1, SubmitKeepsInv DEF FileRead, Sources
<1>3. ASSUME NEW f \in Files, FileReadFails(f) PROVE PageInv'
  BY <1>3 DEF FileReadFails, TypeOK, OneReplayAtATime, RunIsShown, AnswersAreHonest,
              ReadsAreNumbered, VerdictIsOfItsSource, TableIsOfTheResult, worker
<1>4. ASSUME NEW t \in Texts, VerifyPaste(t) PROVE PageInv'
  BY <1>4, SubmitKeepsInv DEF VerifyPaste, Sources, TypeOK
<1>5. CASE Deliver
  <2>1. PICK message \in posted :
          /\ posted' = posted \ {message}
          /\ \/ \E run \in running :
                  /\ message.id = run.id
                  /\ running' = {}
                  /\ Render(run, message.result)
                  /\ UNCHANGED <<next_id, reads, worker>>
             \/ UNCHANGED <<page, worker>>
    BY <1>5 DEF Deliver
  <2>2. CASE \E run \in running : /\ message.id = run.id
                                 /\ running' = {}
                                 /\ Render(run, message.result)
                                 /\ UNCHANGED <<next_id, reads, worker>>
    <3>1. PICK run \in running : /\ message.id = run.id
                                /\ running' = {}
                                /\ Render(run, message.result)
                                /\ UNCHANGED <<next_id, reads, worker>>
      BY <2>2
    <3>2. run.source \in Sources /\ message.result \in Answers(run.source)
      BY <3>1 DEF TypeOK, Runs, AnswersAreHonest
    <3>3. inbox = {} /\ tasks = {}
      BY <2>1, <3>1 DEF AnswersAreHonest, OneReplayAtATime
    <3>4. message.result \in [status : Statuses \ {"running"}, kind : Kinds]
      BY <3>2, AnswersTyped DEF Results, Statuses, Verdicts
    <3>5. message.result.status \in Verdicts \ {"failed"} =>
            Result(message.result.status, message.result.kind) = VerdictOf[run.source]
      BY <3>2, AnswersTyped
    <3> QED
      BY <2>1, <3>1, <3>3, <3>4, <3>5, RenderKeepsInv DEF worker, TypeOK
  <2>3. CASE UNCHANGED <<page, worker>>
    BY <2>1, <2>3, WorkerKeepsInv DEF TypeOK, OneReplayAtATime, worker
  <2> QED
    BY <2>1, <2>2, <2>3
<1>6. CASE Cancel
  <2>1. PICK run \in running : /\ Terminate
                              /\ running' = {}
                              /\ Render(run, Result("cancelled", "none"))
                              /\ UNCHANGED <<next_id, reads>>
    BY <1>6 DEF Cancel
  <2>2. Result("cancelled", "none") \in [status : Statuses \ {"running"}, kind : Kinds]
    BY DEF Result, Statuses, Kinds, Verdicts
  <2>3. Result("cancelled", "none").status \notin Verdicts
    BY DEF Result, Verdicts
  <2> QED
    BY <2>1, <2>2, <2>3, RenderKeepsInv DEF Terminate
<1>7. CASE AtlasRead
  <2>1. PICK read \in atlas_reads :
          /\ atlas_reads' = atlas_reads \ {read}
          /\ table' = IF read.render = atlas_render THEN {read.source} ELSE table
          /\ UNCHANGED <<running, next_id, reads, shown, atlas_render, worker, posted>>
    BY <1>7 DEF AtlasRead
  <2>2. TypeOK' /\ TableIsOfTheResult'
    BY <2>1 DEF TypeOK, TableIsOfTheResult, ReadsAreNumbered, worker
  <2>3. /\ OneReplayAtATime' /\ RunIsShown' /\ AnswersAreHonest' /\ ReadsAreNumbered'
        /\ VerdictIsOfItsSource'
    BY <2>1 DEF OneReplayAtATime, RunIsShown, AnswersAreHonest, ReadsAreNumbered,
                VerdictIsOfItsSource, worker
  <2> QED
    BY <2>2, <2>3
<1>8. CASE AtlasReadFails
  BY <1>8 DEF AtlasReadFails, TypeOK, OneReplayAtATime, RunIsShown, AnswersAreHonest,
              ReadsAreNumbered, VerdictIsOfItsSource, TableIsOfTheResult, worker
<1>9. CASE TakeRequest
  BY <1>9, WorkerKeepsInv DEF TakeRequest, TypeOK, OneReplayAtATime
<1>10. CASE ModuleLoads
  BY <1>10, WorkerKeepsInv DEF ModuleLoads, OneReplayAtATime
<1>11. CASE ModuleFails
  <2>1. /\ UNCHANGED page /\ inbox' = inbox /\ tasks' = {} /\ compiled' = "none"
        /\ posted' = posted \cup {Answer(task, Unavailable) : task \in tasks}
    BY <1>11 DEF ModuleFails
  <2>2. \A task \in tasks : task \notin inbox' \cup tasks' /\ Unavailable \in Answers(task.source)
    BY <2>1 DEF OneReplayAtATime, Answers
  <2> QED
    BY <2>1, <2>2, WorkerKeepsInv
<1>12. CASE Replay
  <2>1. PICK task \in tasks : \E result \in {VerdictOf[task.source], Result("failed", "none")} :
          /\ tasks' = tasks \ {task}
          /\ posted' = posted \cup {Answer(task, result)}
          /\ UNCHANGED <<page, inbox, compiled>>
    BY <1>12 DEF Replay
  <2>2. task \notin inbox' \cup tasks'
    BY <2>1 DEF OneReplayAtATime
  <2>3. /\ inbox' \cup tasks' \subseteq inbox \cup tasks /\ inbox' \cap tasks' = {}
        /\ compiled' \in {"none", "loading", "ready"} /\ UNCHANGED page
    BY <2>1 DEF OneReplayAtATime, TypeOK
  <2>4. \A m \in posted' : \/ m \in posted
                           \/ \E result \in Answers(task.source) : m = Answer(task, result)
    BY <2>1 DEF Answers
  <2> QED
    BY <2>2, <2>3, <2>4, WorkerKeepsInv
<1>13. CASE UNCHANGED page_vars
  BY <1>13, WorkerKeepsInv DEF page_vars, worker, OneReplayAtATime, TypeOK
<1> QED
  BY <1>1, <1>2, <1>3, <1>4, <1>5, <1>6, <1>7, <1>8, <1>9, <1>10, <1>11, <1>12, <1>13
  DEF PageNext, WorkerStep

\* Every behaviour keeps the invariant.
THEOREM PageInvariant == PageSpec => []PageInv
BY PageInvInit, PageInvStep, PTL DEF PageSpec

\* Every variable of the page and its worker keeps its type, and the page has a text for
\* every status a worker can answer.
THEOREM PageTypeCorrect == PageSpec => []TypeOK
<1>1. PageInv => TypeOK
  BY DEF PageInv
<1> QED
  BY <1>1, PageInvariant, PTL

\* A verdict on the page is the verifier's for the source it is shown with.
THEOREM VerdictsBelongToSources == PageSpec => []VerdictIsOfItsSource
<1>1. PageInv => VerdictIsOfItsSource
  BY DEF PageInv
<1> QED
  BY <1>1, PageInvariant, PTL

\* The worker never has a request the page does not wait for.
THEOREM ReplaysAreSingle == PageSpec => []OneReplayAtATime
<1>1. PageInv => OneReplayAtATime
  BY DEF PageInv
<1> QED
  BY <1>1, PageInvariant, PTL

\* A class table is visible only below the result of the atlas it was read from.
THEOREM TablesBelongToResults == PageSpec => []TableIsOfTheResult
<1>1. PageInv => TableIsOfTheResult
  BY DEF PageInv
<1> QED
  BY <1>1, PageInvariant, PTL

\* The page never shows a result of a run it had not shown as running just before.
THEOREM ResultsAreInOrder == PageSpec => ResultsFollowTheirRun
<1> DEFINE Follows == shown' # shown => \A s \in shown' : TakesItsPlace(s, shown)
<1>1. PageInv /\ [PageNext]_page_vars => [Follows]_shown
  <2> SUFFICES ASSUME PageInv, PageNext, shown' # shown, NEW s \in shown'
               PROVE  TakesItsPlace(s, shown)
    BY DEF page_vars, page
  <2>1. CASE \E run \in running, result \in Results \cup {Result("cancelled", "none")} :
               Render(run, result)
    <3>1. PICK run \in running, result \in Results \cup {Result("cancelled", "none")} :
                 Render(run, result)
      BY <2>1
    <3>2. /\ s.id = run.id /\ s.source = run.source /\ s.status # "running"
      BY <3>1 DEF Render, Shown, Results, Result, Verdicts
    <3>3. Shown(run, Result("running", "none")) \in shown
      BY DEF PageInv, RunIsShown
    <3> QED
      BY <3>2, <3>3 DEF TakesItsPlace, Shown, Result
  <2>2. CASE \E source \in Sources : Submit(source)
    <3>1. /\ running = {} /\ s.id = next_id /\ s.status = "running"
      BY <2>2 DEF Submit, Shown, Run, Result
    <3> QED
      BY <3>1 DEF TakesItsPlace, PageInv, RunIsShown
  <2>3. \/ \E run \in running, result \in Results \cup {Result("cancelled", "none")} :
               Render(run, result)
        \/ \E source \in Sources : Submit(source)
    <3>1. ASSUME Deliver
          PROVE  \E run \in running, result \in Results : Render(run, result)
      BY <3>1 DEF Deliver, PageInv, TypeOK, page
    <3>2. ASSUME Cancel
          PROVE  \E run \in running : Render(run, Result("cancelled", "none"))
      BY <3>2 DEF Cancel
    <3> QED
      BY <3>1, <3>2 DEF PageNext, ChooseFile, FileRead, FileReadFails, VerifyPaste, AtlasRead,
         AtlasReadFails, WorkerStep, TakeRequest, ModuleLoads, ModuleFails, Replay, page,
         Sources
  <2> QED
    BY <2>1, <2>2, <2>3
<1> QED
  BY <1>1, PageInvariant, PTL DEF PageSpec, ResultsFollowTheirRun

=============================================================================
