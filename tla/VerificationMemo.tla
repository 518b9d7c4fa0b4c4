-------------------------- MODULE VerificationMemo --------------------------
(***************************************************************************)
(* The memos of one top-level verification, shared by its worker threads   *)
(* (context.rs: Memo::get_or_compute and the memos of VerificationContext).*)
(* Modules are values at addresses; a key is an address and keeps the      *)
(* module alive. Modules that a thread rebuilds for a check are dropped    *)
(* afterwards, and their addresses may be allocated again.                 *)
(***************************************************************************)
EXTENDS Integers, Sequences, FiniteSets, SequencesExt

CONSTANTS
  Threads,
  Addresses, Contents,   \* of module values
  Stored,                \* address -> content of the modules of the certificate
  Zero,                  \* the contents that are the zero module
  Algebras, AlgebraOf,   \* content -> the algebra of the module
  Failing,               \* <<memo, contents>> whose computation reports an error
  Operations,            \* the memos the verification asks
  MaxRequests            \* of all threads: a bound of the model

ASSUME StoredAssumption ==
  /\ IsFiniteSet(Threads) /\ Contents # {} /\ MaxRequests \in Nat
  /\ DOMAIN Stored \subseteq Addresses /\ \A a \in DOMAIN Stored : Stored[a] \in Contents
  /\ AlgebraOf \in [Contents -> Algebras]
  /\ Operations \subseteq {"opposite", "endo", "hom_dim", "tau", "decompose", "pair_iso"}
  /\ "tau" \in Operations => "opposite" \in Operations
  /\ "decompose" \in Operations => "endo" \in Operations
  /\ \A f \in Failing : f[1] \notin {"endo", "decompose"}

VARIABLES
  heap,      \* address -> the module last built there
  temp,      \* thread -> the addresses of the modules it holds for a check
  cells,     \* key -> the state of its OnceLock, for the keys requested
  frames,    \* thread -> its calls of get_or_compute, innermost last
  hits, misses,
  asked,     \* requests made
  runs       \* key -> how often its computation was started

vars == <<heap, temp, cells, frames, hits, misses, asked, runs>>

Key(memo, operands) == [memo |-> memo, operands |-> operands]

Pairwise == {"hom_dim", "pair_iso"}

Empty == [state |-> "empty"]
Running == [state |-> "running"]
Set(value) == [state |-> "set", value |-> value]

\* what the certified operation answers for given contents
Value(memo, contents, ok) == [memo |-> memo, contents |-> contents, ok |-> ok]

Succeeds(memo, contents) == <<memo, contents>> \notin Failing

\* a translate is computed over the opposite algebra
Certified(memo, contents) ==
  Value(memo, contents,
        /\ Succeeds(memo, contents)
        /\ memo = "tau" => Succeeds("opposite", <<AlgebraOf[contents[1]]>>))

ContentsOf(key) ==
  IF key.memo = "opposite" THEN key.operands
  ELSE [i \in DOMAIN key.operands |-> heap[key.operands[i]]]

-----------------------------------------------------------------------------
(* Module values.                                                          *)

Held == DOMAIN Stored \cup UNION {temp[t] : t \in Threads}

\* mutant of Kept: a key that stores only the number of the address
KeptByCallers == Held

\* a key owns a clone of each module that it names
Kept == Held \cup UNION {ToSet(key.operands) : key \in DOMAIN cells}

Init ==
  /\ heap = [a \in Addresses |-> IF a \in DOMAIN Stored THEN Stored[a] ELSE CHOOSE c \in Contents : TRUE]
  /\ temp = [t \in Threads |-> {}]
  /\ cells = [key \in {} |-> Empty]
  /\ frames = [t \in Threads |-> <<>>]
  /\ hits = [m \in Operations |-> 0] /\ misses = [m \in Operations |-> 0]
  /\ asked = 0
  /\ runs = [key \in {} |-> 0]

Idle(t) == frames[t] = <<>>

Build(t, a, c) ==
  /\ Idle(t) /\ temp[t] = {} /\ a \notin Kept /\ asked < MaxRequests
  /\ heap' = [heap EXCEPT ![a] = c]
  /\ temp' = [temp EXCEPT ![t] = {a}]
  /\ UNCHANGED <<cells, frames, hits, misses, asked, runs>>

Drop(t) ==
  /\ Idle(t) /\ temp[t] # {}
  /\ temp' = [temp EXCEPT ![t] = {}]
  /\ UNCHANGED <<heap, cells, frames, hits, misses, asked, runs>>

-----------------------------------------------------------------------------
(* get_or_compute.                                                         *)

Frame(key) == [key |-> key, phase |-> "find", miss |-> FALSE, given |-> <<>>]

Top(t) == Last(frames[t])
SetTop(t, frame) == frames' = [frames EXCEPT ![t] = Append(Front(@), frame)]

Request(t, memo, operands) ==
  /\ Idle(t) /\ asked < MaxRequests
  /\ asked' = asked + 1
  /\ frames' = [frames EXCEPT ![t] = <<Frame(Key(memo, operands))>>]
  /\ UNCHANGED <<heap, temp, cells, hits, misses, runs>>

Ask(t) ==
  LET modules == DOMAIN Stored \cup temp[t] IN
  \E memo \in Operations :
    \/ memo = "opposite" /\ \E algebra \in Algebras : Request(t, memo, <<algebra>>)
    \/ memo \in Pairwise /\ \E a, b \in modules : Request(t, memo, <<a, b>>)
    \/ memo \notin Pairwise \cup {"opposite"} /\ \E a \in modules : Request(t, memo, <<a>>)

At(t, phase) == frames[t] # <<>> /\ Top(t).phase = phase

\* under the map lock: the cell of the key, created when it is vacant
FindCell(t) ==
  LET key == Top(t).key
      miss == key \notin DOMAIN cells
  IN
  /\ At(t, "find")
  /\ cells' = IF miss THEN [k \in DOMAIN cells \cup {key} |-> IF k = key THEN Empty ELSE cells[k]]
                      ELSE cells
  /\ SetTop(t, [Top(t) EXCEPT !.phase = "count", !.miss = miss])
  /\ UNCHANGED <<heap, temp, hits, misses, asked, runs>>

CountRequest(t) ==
  LET memo == Top(t).key.memo IN
  /\ At(t, "count")
  /\ IF Top(t).miss THEN misses' = [misses EXCEPT ![memo] = @ + 1] /\ UNCHANGED hits
                    ELSE hits' = [hits EXCEPT ![memo] = @ + 1] /\ UNCHANGED misses
  /\ SetTop(t, [Top(t) EXCEPT !.phase = "enter"])
  /\ UNCHANGED <<heap, temp, cells, asked, runs>>

\* mutant of IsInitializer: whoever finds no value computes it
EntersUnset(key) == cells[key].state # "set"

\* get_or_init: one caller computes, the others wait until the cell is set
IsInitializer(key) == cells[key].state = "empty"

StartComputation(t) ==
  LET key == Top(t).key IN
  /\ At(t, "enter") /\ IsInitializer(key)
  /\ cells' = [cells EXCEPT ![key] = Running]
  /\ runs' = [k \in DOMAIN runs \cup {key} |->
                (IF k \in DOMAIN runs THEN runs[k] ELSE 0) + (IF k = key THEN 1 ELSE 0)]
  /\ SetTop(t, [Top(t) EXCEPT !.phase = "compute"])
  /\ UNCHANGED <<heap, temp, hits, misses, asked>>

\* the call returns to the thread, or to the computation that asked for it
Return(t, value) ==
  frames' = [frames EXCEPT ![t] =
    LET below == Front(@)
    IN  IF below = <<>> THEN <<>>
        ELSE Append(Front(below), [Last(below) EXCEPT !.given = <<value>>])]

ReadCell(t) ==
  /\ At(t, "enter") /\ cells[Top(t).key].state = "set"
  /\ Return(t, cells[Top(t).key].value)
  /\ UNCHANGED <<heap, temp, cells, hits, misses, asked, runs>>

\* mutant of Needs: End is read off the decomposition, which asks for End
NeedsEachOther(key) ==
  CASE key.memo = "tau" -> {Key("opposite", <<AlgebraOf[heap[key.operands[1]]]>>)}
    [] key.memo = "endo" -> {Key("decompose", key.operands)}
    [] key.memo = "decompose" -> {Key("endo", key.operands)}
    [] OTHER -> {}

\* what a computation asks of a memo declared before its own
Needs(key) ==
  CASE key.memo = "tau" -> {Key("opposite", <<AlgebraOf[heap[key.operands[1]]]>>)}
    [] key.memo = "decompose" /\ heap[key.operands[1]] \notin Zero -> {Key("endo", key.operands)}
    [] OTHER -> {}

AskNested(t) ==
  /\ At(t, "compute") /\ Top(t).given = <<>>
  /\ \E key \in Needs(Top(t).key) : frames' = [frames EXCEPT ![t] = Append(@, Frame(key))]
  /\ UNCHANGED <<heap, temp, cells, hits, misses, asked, runs>>

\* the closure ends: an error it was given is its own error
Outcome(frame) ==
  LET key == frame.key IN
  Value(key.memo, ContentsOf(key),
        /\ Succeeds(key.memo, ContentsOf(key))
        /\ \A i \in DOMAIN frame.given : frame.given[i].ok)

StoreResult(t) ==
  LET value == Outcome(Top(t)) IN
  /\ At(t, "compute")
  /\ Needs(Top(t).key) = {} \/ Top(t).given # <<>>
  /\ cells' = [cells EXCEPT ![Top(t).key] = Set(value)]
  /\ Return(t, value)
  /\ UNCHANGED <<heap, temp, hits, misses, asked, runs>>

Call(t) ==
  \/ FindCell(t) \/ CountRequest(t) \/ StartComputation(t)
  \/ ReadCell(t) \/ AskNested(t) \/ StoreResult(t)

Next ==
  \E t \in Threads :
    \/ \E a \in Addresses \ DOMAIN Stored, c \in Contents : Build(t, a, c)
    \/ Drop(t) \/ Ask(t) \/ Call(t)

Spec == Init /\ [][Next]_vars /\ \A t \in Threads : WF_vars(Call(t))

-----------------------------------------------------------------------------
(* Properties.                                                             *)

\* Every stored result is the output of the certified operation on the modules
\* that its key names now: an address is not allocated again while an entry
\* names it, and an error stays the error it was.
EntriesAreCertified ==
  \A key \in DOMAIN cells :
    cells[key].state = "set" => cells[key].value = Certified(key.memo, ContentsOf(key))

\* The computation of a key starts once, whatever threads ask for it and when;
\* between requests each miss is an entry that was computed.
ComputedOnce ==
  /\ \A key \in DOMAIN runs : runs[key] = 1
  /\ (\A t \in Threads : Idle(t)) =>
       /\ DOMAIN runs = DOMAIN cells
       /\ \A m \in Operations : misses[m] = Cardinality({key \in DOMAIN cells : key.memo = m})

\* Every request returns: no computation waits for a cell whose computation
\* waits for it (the declaration order of the memos).
EveryRequestReturns == \A t \in Threads : ~Idle(t) ~> Idle(t)

=============================================================================
