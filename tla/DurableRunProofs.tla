-------------------------- MODULE DurableRunProofs --------------------------
(***************************************************************************)
(* The safety of a durable run, for every catalog, capacity, budget and    *)
(* number of starts.                                                       *)
(***************************************************************************)
EXTENDS DurableRun, ProofLibrary, SequenceTheorems, TLAPS

-----------------------------------------------------------------------------
(* The inductive invariant.                                                *)

\* what a checkpoint says of the catalog and of its budget
Solid(p) ==
  /\ p.next_source <= catalog.total
  /\ p.rows = ChunkRows(0, p.next_source)
  /\ p.work.units = UnitsPerSource * p.next_source
  /\ p.next_source <= p.budget.max_sources
  /\ p.work.units <= p.budget.max_work_units
  /\ VerifyPrefix(p)

Sane(p) == Solid(p) /\ VerifyStatus(p)

SaneFile(f) ==
  f = {} \/ \E p \in Checkpoints : f = {Entry(p, "flushed")} /\ Sane(p)

FilesAreSane == SaneFile(file) /\ \A f \in survivors : SaneFile(f)

\* between two chunks the file holds what the stream holds
WritePoint ==
  /\ pc = "flush" => temp = {Entry(portable, "buffered")}
  /\ pc = "replace" => temp = {Entry(portable, "flushed")}
  /\ pc \in {"sync", "boundary", "compute"} => file = {Entry(portable, "flushed")}

ComputePoint ==
  /\ pc \in {"boundary", "compute"} => portable.status.kind = "active"
  /\ pc = "compute" => ~AtEnd(portable) /\ ~AtSourceLimit(portable)

CancelPoint ==
  /\ late <= 1
  /\ ~cancelled => late = 0
  /\ pc = "compute" => late = 0

RunInv ==
  TypeOK /\ Sane(portable) /\ FilesAreSane /\ WritePoint /\ ComputePoint /\ CancelPoint

-----------------------------------------------------------------------------
(* The two sums of verify_portable over the chunks of a checkpoint.        *)

\* The sources covered by a prefix of the chunks, chunk by chunk.
LEMMA CoveredIs ==
  ASSUME NEW sizes \in Seq(Nat)
  PROVE  /\ Covered(sizes) \in [0 .. Len(sizes) -> Nat]
         /\ Covered(sizes)[0] = 0
         /\ \A i \in 1 .. Len(sizes) : Covered(sizes)[i] = Covered(sizes)[i - 1] + sizes[i]
<1> DEFINE n == Len(sizes)
           step == [i \in 1 .. n |-> [v \in Nat |-> v + sizes[i]]]
           Is(f) == f = [i \in 0 .. n |-> IF i = 0 THEN 0 ELSE f[i - 1] + sizes[i]]
           c == Covered(sizes)
<1>1. n \in Nat /\ step \in [1 .. n -> [Nat -> Nat]]
  OBVIOUS
<1>2. \E f \in [0 .. n -> Nat] : Computes(f, n, 0, step)
  <2> HIDE DEF n, step
  <2> QED BY <1>1, RecursionExists
<1>3. PICK f \in [0 .. n -> Nat] : Computes(f, n, 0, step)
  BY <1>2
<1>4. ASSUME NEW i \in 1 .. n PROVE step[i][f[i - 1]] = f[i - 1] + sizes[i]
  <2>1. i - 1 \in 0 .. n
    BY <1>1
  <2>2. f[i - 1] \in Nat
    BY <2>1
  <2> QED BY <2>2
<1>5. Is(f)
  <2>1. f = [i \in 0 .. n |-> IF i = 0 THEN 0 ELSE step[i][f[i - 1]]]
    BY <1>3 DEF Computes
  <2> HIDE DEF step
  <2>2. \A i \in 0 .. n : i # 0 => i \in 1 .. n
    BY <1>1
  <2>3. [i \in 0 .. n |-> IF i = 0 THEN 0 ELSE step[i][f[i - 1]]]
          = [i \in 0 .. n |-> IF i = 0 THEN 0 ELSE f[i - 1] + sizes[i]]
    BY <1>4, <2>2
  <2> QED BY <2>1, <2>3
<1>6. c = CHOOSE g : Is(g)
  BY DEF Covered
<1>7. Is(c)
  BY <1>5, <1>6
<1> HIDE DEF c, step
<1>8. /\ DOMAIN c = 0 .. n /\ c = [i \in DOMAIN c |-> c[i]] /\ c[0] = 0
      /\ \A i \in 1 .. n : c[i] = c[i - 1] + sizes[i]
  <2>1. n \in Nat
    OBVIOUS
  <2> HIDE DEF n
  <2>2. \A i \in 1 .. n : i \in 0 .. n /\ i # 0
    BY <2>1
  <2>3. 0 \in 0 .. n
    BY <2>1
  <2> QED BY <1>7, <2>2, <2>3
<1>9. \A i \in 0 .. n : c[i] \in Nat
  <2> DEFINE T == {i \in 0 .. n : c[i] \in Nat}
  <2>1. 0 \in T /\ \A i \in 1 .. n : i - 1 \in T => i \in T
    <3>1. n \in Nat /\ \A i \in 1 .. n : sizes[i] \in Nat
      OBVIOUS
    <3> HIDE DEF n
    <3> QED BY <1>8, <3>1
  <2>2. 0 .. n \subseteq T
    <3> HIDE DEF T
    <3> QED BY <1>1, <2>1, IntervalInduction
  <2> QED BY <2>2
<1> QED BY <1>8, <1>9 DEF c

\* One chunk more leaves the sums before it alone.
LEMMA CoveredExtends ==
  ASSUME NEW sizes \in Seq(Nat), NEW k \in Nat
  PROVE  /\ \A i \in 0 .. Len(sizes) : Covered(Append(sizes, k))[i] = Covered(sizes)[i]
         /\ Covered(Append(sizes, k))[Len(sizes) + 1] = Covered(sizes)[Len(sizes)] + k
<1> DEFINE n == Len(sizes)
           longer == Append(sizes, k)
           T == {i \in 0 .. n : Covered(longer)[i] = Covered(sizes)[i]}
<1>1. /\ n \in Nat /\ longer \in Seq(Nat) /\ Len(longer) = n + 1 /\ longer[n + 1] = k
      /\ \A i \in 1 .. n : longer[i] = sizes[i]
  OBVIOUS
<1> HIDE DEF longer
<1>2. 0 \in T /\ \A i \in 1 .. n : i - 1 \in T => i \in T
  <2>1. 0 \in T
    BY <1>1, CoveredIs
  <2>2. ASSUME NEW i \in 1 .. n, i - 1 \in T PROVE i \in T
    <3>1. i \in 1 .. Len(longer) /\ i \in 0 .. n
      BY <1>1
    <3>2. /\ Covered(longer)[i] = Covered(longer)[i - 1] + longer[i]
          /\ Covered(sizes)[i] = Covered(sizes)[i - 1] + sizes[i]
      BY <1>1, <3>1, CoveredIs
    <3> QED BY <1>1, <2>2, <3>1, <3>2
  <2> QED BY <2>1, <2>2
<1> HIDE DEF n
<1>3. 0 .. n \subseteq T
  <2> HIDE DEF T
  <2> QED BY <1>1, <1>2, IntervalInduction
<1>4. \A i \in 0 .. n : Covered(longer)[i] = Covered(sizes)[i]
  BY <1>3
<1>5. Covered(longer)[n + 1] = Covered(longer)[n] + k
  BY <1>1, CoveredIs
<1> QED BY <1>1, <1>4, <1>5 DEF n, longer

\* No prefix of the chunks covers more than all of them.
LEMMA CoveredGrows ==
  ASSUME NEW sizes \in Seq(Nat), NEW i \in 0 .. Len(sizes)
  PROVE  Covered(sizes)[i] <= Covered(sizes)[Len(sizes)]
<1> DEFINE n == Len(sizes)
           c == Covered(sizes)
           T == {j \in 0 .. n : c[n - j] <= c[n]}
<1>1. /\ n \in Nat /\ c \in [0 .. n -> Nat]
      /\ \A k \in 1 .. n : c[k] = c[k - 1] + sizes[k] /\ sizes[k] \in Nat
  BY CoveredIs
<1> HIDE DEF n, c
<1>2. 0 \in T
  <2>1. n - 0 = n /\ c[n] \in Nat
    BY <1>1
  <2> QED BY <1>1, <2>1
<1>3. ASSUME NEW j \in 1 .. n, j - 1 \in T PROVE j \in T
  <2>1. /\ n - j \in 0 .. n /\ n - (j - 1) \in 1 .. n /\ (n - (j - 1)) - 1 = n - j
        /\ j \in 0 .. n
    BY <1>1
  <2>2. c[n - (j - 1)] = c[n - j] + sizes[n - (j - 1)] /\ sizes[n - (j - 1)] \in Nat
    BY <1>1, <2>1
  <2>3. c[n - j] \in Nat /\ c[n - (j - 1)] \in Nat /\ c[n] \in Nat
    BY <1>1, <2>1
  <2>4. c[n - (j - 1)] <= c[n]
    BY <1>3
  <2> QED BY <2>1, <2>2, <2>3, <2>4
<1>4. 0 .. n \subseteq T
  <2> HIDE DEF T
  <2> QED BY <1>1, <1>2, <1>3, IntervalInduction
<1>5. n - i \in 0 .. n /\ n - (n - i) = i
  BY <1>1 DEF n
<1> QED BY <1>4, <1>5 DEF n, c

Works == [chunks : Nat, sources : Nat, units : Nat, peak_live_sources : Nat]

\* Adding a chunk to a work record gives a work record.
LEMMA AddChunkType ==
  ASSUME NEW w \in Works, NEW k \in Nat
  PROVE  AddChunk(w, k) \in Works
BY DEF Works, AddChunk, Larger, UnitsPerSource

\* the work after each chunk
WorkAfter(sizes) ==
  CHOOSE w : w = [i \in 0 .. Len(sizes) |-> IF i = 0 THEN NoWork ELSE AddChunk(w[i - 1], sizes[i])]

\* The work rebuilt from the chunk sizes adds them one after the other.
LEMMA WorkAfterIs ==
  ASSUME NEW sizes \in Seq(Nat)
  PROVE  /\ RebuiltWork(sizes) = WorkAfter(sizes)[Len(sizes)]
         /\ WorkAfter(sizes)[0] = NoWork
         /\ \A i \in 1 .. Len(sizes) :
              WorkAfter(sizes)[i] = AddChunk(WorkAfter(sizes)[i - 1], sizes[i])
<1> DEFINE n == Len(sizes)
           step == [i \in 1 .. n |-> [w \in Works |-> AddChunk(w, sizes[i])]]
           Is(f) == f = [i \in 0 .. n |-> IF i = 0 THEN NoWork ELSE AddChunk(f[i - 1], sizes[i])]
           w == WorkAfter(sizes)
<1>1. n \in Nat /\ NoWork \in Works /\ step \in [1 .. n -> [Works -> Works]]
  <2>1. NoWork \in Works
    BY DEF NoWork, Works
  <2>2. \A i \in 1 .. n : sizes[i] \in Nat
    OBVIOUS
  <2> QED BY <2>1, <2>2, AddChunkType
<1>2. \E f \in [0 .. n -> Works] : Computes(f, n, NoWork, step)
  <2> HIDE DEF n, step
  <2> QED BY <1>1, RecursionExists
<1>3. PICK f \in [0 .. n -> Works] : Computes(f, n, NoWork, step)
  BY <1>2
<1>4. ASSUME NEW i \in 1 .. n PROVE step[i][f[i - 1]] = AddChunk(f[i - 1], sizes[i])
  <2>1. f[i - 1] \in Works
    BY <1>1, <1>3
  <2> QED BY <2>1
<1>5. Is(f)
  <2>1. f = [i \in 0 .. n |-> IF i = 0 THEN NoWork ELSE step[i][f[i - 1]]]
    BY <1>3 DEF Computes
  <2> HIDE DEF step
  <2>2. \A i \in 0 .. n : i # 0 => i \in 1 .. n
    BY <1>1
  <2>3. [i \in 0 .. n |-> IF i = 0 THEN NoWork ELSE step[i][f[i - 1]]]
          = [i \in 0 .. n |-> IF i = 0 THEN NoWork ELSE AddChunk(f[i - 1], sizes[i])]
    BY <1>4, <2>2
  <2> QED BY <2>1, <2>3
<1>6. w = CHOOSE g : Is(g)
  BY DEF WorkAfter
<1>7. Is(w)
  BY <1>5, <1>6
<1>8. RebuiltWork(sizes) = w[n]
  BY <1>6 DEF RebuiltWork
<1> HIDE DEF w
<1>9. w[0] = NoWork /\ \A i \in 1 .. n : w[i] = AddChunk(w[i - 1], sizes[i])
  BY <1>1, <1>7, SMTT(30)
<1> QED BY <1>8, <1>9 DEF w

\* One chunk more adds its own work.
LEMMA WorkExtends ==
  ASSUME NEW sizes \in Seq(Nat), NEW k \in Nat
  PROVE  RebuiltWork(Append(sizes, k)) = AddChunk(RebuiltWork(sizes), k)
<1> DEFINE n == Len(sizes)
           longer == Append(sizes, k)
           T == {i \in 0 .. n : WorkAfter(longer)[i] = WorkAfter(sizes)[i]}
<1>1. /\ n \in Nat /\ longer \in Seq(Nat) /\ Len(longer) = n + 1 /\ longer[n + 1] = k
      /\ \A i \in 1 .. n : longer[i] = sizes[i]
  OBVIOUS
<1> HIDE DEF longer
<1>2. 0 \in T /\ \A i \in 1 .. n : i - 1 \in T => i \in T
  <2>1. 0 \in T
    BY <1>1, WorkAfterIs
  <2>2. ASSUME NEW i \in 1 .. n, i - 1 \in T PROVE i \in T
    <3>1. i \in 1 .. Len(longer) /\ i \in 0 .. n
      BY <1>1
    <3>2. /\ WorkAfter(longer)[i] = AddChunk(WorkAfter(longer)[i - 1], longer[i])
          /\ WorkAfter(sizes)[i] = AddChunk(WorkAfter(sizes)[i - 1], sizes[i])
      BY <1>1, <3>1, WorkAfterIs
    <3> QED BY <1>1, <2>2, <3>1, <3>2
  <2> QED BY <2>1, <2>2
<1> HIDE DEF n
<1>3. 0 .. n \subseteq T
  <2> HIDE DEF T
  <2> QED BY <1>1, <1>2, IntervalInduction
<1>4. WorkAfter(longer)[n] = WorkAfter(sizes)[n]
  BY <1>1, <1>3
<1>5. WorkAfter(longer)[n + 1] = AddChunk(WorkAfter(longer)[n], k)
  BY <1>1, WorkAfterIs
<1> QED BY <1>1, <1>4, <1>5, WorkAfterIs DEF n, longer

-----------------------------------------------------------------------------
(* What the operators of the stream do to a sane checkpoint.               *)

\* A catalog has sources, and fails at some naturals.
LEMMA CatalogType == ASSUME catalog \in Catalogs
                     PROVE  /\ catalog.total \in Nat \ {0}
                            /\ catalog.failing \in SUBSET Nat
BY StreamAssumption

\* The fields of a well-typed checkpoint, one by one.
LEMMA CheckpointFields ==
  ASSUME NEW p \in Checkpoints
  PROVE  /\ p.capacity \in Capacities /\ p.capacity \in Nat \ {0}
         /\ p.budget \in Budgets
         /\ p.budget.max_sources \in Nat /\ p.budget.max_work_units \in Nat
         /\ p.next_source \in Nat /\ p.rows \in Seq(Nat)
         /\ p.work \in [chunks : Nat, sources : Nat, units : Nat, peak_live_sources : Nat]
         /\ p.chunk_sizes \in Seq(Nat)
         /\ p.status \in [kind : StatusKinds, limit : Nat]
BY StreamAssumption DEF Checkpoints

\* A checkpoint that holds no row yet is sane under any budget.
LEMMA NewIsSane ==
  ASSUME catalog \in Catalogs, NEW c \in Capacities, NEW b \in Budgets
  PROVE  NewCheckpoint(c, b) \in Checkpoints /\ Sane(NewCheckpoint(c, b))
<1> DEFINE p == NewCheckpoint(c, b)
<1>1. p \in Checkpoints
  BY StreamAssumption DEF NewCheckpoint, NoWork, Active, StreamStatus, StatusKinds,
                          Checkpoints
<1>2. /\ p.next_source = 0 /\ p.rows = <<>> /\ p.work.units = 0 /\ p.status.kind = "active"
  BY DEF NewCheckpoint, NoWork, Active, StreamStatus
<1>3. VerifyPrefix(p)
  <2>1. /\ p.chunk_sizes = <<>> /\ p.work = NoWork /\ NoWork.chunks = 0 /\ NoWork.sources = 0
        /\ <<>> \in Seq(Nat) /\ Len(<<>>) = 0
    BY DEF NewCheckpoint, NoWork
  <2>2. Covered(<<>>)[0] = 0 /\ RebuiltWork(<<>>) = NoWork
    BY <2>1, CoveredIs, WorkAfterIs
  <2> HIDE DEF p
  <2> QED BY <1>2, <2>1, <2>2, CatalogType DEF VerifyPrefix
<1>4. Solid(p)
  BY <1>1, <1>2, <1>3, CatalogType, CheckpointFields DEF Solid, ChunkRows, UnitsPerSource
<1>5. VerifyStatus(p)
  BY <1>1, <1>2, CatalogType, CheckpointFields DEF VerifyStatus, VerifyActive, AtEnd
<1> QED BY <1>1, <1>4, <1>5 DEF Sane

\* A chunk fits the catalog and the budget, and is not empty before their ends.
LEMMA ChunkCountBounds ==
  ASSUME catalog \in Catalogs, NEW p \in Checkpoints, Solid(p)
  PROVE  /\ ChunkCount(p) \in Nat
         /\ p.next_source + ChunkCount(p) <= catalog.total
         /\ p.next_source + ChunkCount(p) <= p.budget.max_sources
         /\ ChunkCount(p) <= p.capacity
         /\ ~AtEnd(p) /\ ~AtSourceLimit(p) => ChunkCount(p) > 0
BY CatalogType, CheckpointFields, SMTT(30)
   DEF ChunkCount, Remaining, Smaller, Solid, AtEnd, AtSourceLimit

\* The rows of a prefix and of the chunk after it are the rows of the longer prefix.
LEMMA RowsExtend ==
  ASSUME NEW n \in Nat, NEW k \in Nat
  PROVE  /\ ChunkRows(0, n) \o ChunkRows(n, k) = ChunkRows(0, n + k)
         /\ ChunkRows(n, k) \in Seq(Nat)
<1>1. /\ ChunkRows(0, n) \in Seq(Nat) /\ Len(ChunkRows(0, n)) = n
      /\ ChunkRows(n, k) \in Seq(Nat) /\ Len(ChunkRows(n, k)) = k
      /\ ChunkRows(0, n + k) \in Seq(Nat) /\ Len(ChunkRows(0, n + k)) = n + k
  BY DEF ChunkRows
<1>2. \A i \in 1 .. n + k :
         (ChunkRows(0, n) \o ChunkRows(n, k))[i] = ChunkRows(0, n + k)[i]
  BY <1>1 DEF ChunkRows
<1>3. /\ ChunkRows(0, n) \o ChunkRows(n, k) \in Seq(Nat)
      /\ Len(ChunkRows(0, n) \o ChunkRows(n, k)) = n + k
  BY <1>1, ConcatProperties
<1>4. ChunkRows(0, n) \o ChunkRows(n, k) = ChunkRows(0, n + k)
  BY <1>1, <1>2, <1>3, SeqEqual
<1> QED BY <1>1, <1>4

\* A stretch of the rows of a prefix is the rows of a chunk.
LEMMA RowsBetween ==
  ASSUME NEW n \in Nat, NEW a \in Nat, NEW k \in Nat, a + k <= n
  PROVE  SubSeq(ChunkRows(0, n), a + 1, a + k) = ChunkRows(a, k)
<1>1. /\ ChunkRows(0, n) \in Seq(Nat) /\ Len(ChunkRows(0, n)) = n
      /\ ChunkRows(a, k) \in Seq(Nat) /\ Len(ChunkRows(a, k)) = k
      /\ \A i \in 1 .. n : ChunkRows(0, n)[i] = i - 1
      /\ \A i \in 1 .. k : ChunkRows(a, k)[i] = a + i - 1
  BY DEF ChunkRows
<1> DEFINE t == SubSeq(ChunkRows(0, n), a + 1, a + k)
<1>2. /\ t \in Seq(Nat) /\ Len(t) = k
      /\ \A i \in 1 .. k : t[i] = ChunkRows(0, n)[a + 1 + i - 1]
  BY <1>1
<1> HIDE DEF t
<1>3. ASSUME NEW i \in 1 .. k PROVE t[i] = ChunkRows(a, k)[i]
  <2> DEFINE j == a + 1 + i - 1
  <2>1. j \in 1 .. n /\ j - 1 = a + i - 1
    OBVIOUS
  <2>2. t[i] = ChunkRows(0, n)[j]
    BY <1>2
  <2> HIDE DEF j
  <2>3. ChunkRows(0, n)[j] = j - 1
    BY <1>1, <2>1
  <2> QED BY <1>1, <2>1, <2>2, <2>3
<1>4. t = ChunkRows(a, k)
  BY <1>1, <1>2, <1>3, SeqEqual
<1> QED BY <1>4 DEF t

\* The replay looks at neither the status nor the budget.
LEMMA PrefixStays ==
  ASSUME NEW p, NEW q,
         q.capacity = p.capacity, q.next_source = p.next_source, q.rows = p.rows,
         q.work = p.work, q.chunk_sizes = p.chunk_sizes
  PROVE  VerifyPrefix(q) <=> VerifyPrefix(p)
BY DEF VerifyPrefix

\* A checkpoint with a committed chunk more replays.
LEMMA PrefixExtends ==
  ASSUME catalog \in Catalogs, NEW p \in Checkpoints, VerifyPrefix(p),
         NEW n \in 1 .. p.capacity, p.next_source + n <= catalog.total,
         ~ChunkFails(p.next_source, n),
         NEW r \in Checkpoints,
         r.capacity = p.capacity, r.next_source = p.next_source + n,
         r.rows = ChunkRows(0, p.next_source + n), r.work = AddChunk(p.work, n),
         r.chunk_sizes = Append(p.chunk_sizes, n)
  PROVE  VerifyPrefix(r)
<1> DEFINE sizes == p.chunk_sizes
           longer == r.chunk_sizes
           m == Len(sizes)
           c == Covered(longer)
<1>1. /\ sizes \in Seq(Nat) /\ m \in Nat /\ n \in Nat /\ p.next_source \in Nat
      /\ longer \in Seq(Nat) /\ Len(longer) = m + 1 /\ longer[m + 1] = n
      /\ \A i \in 1 .. m : longer[i] = sizes[i]
      /\ p.work.chunks \in Nat /\ p.work.sources \in Nat
  <2>1. /\ sizes \in Seq(Nat) /\ n \in Nat /\ p.next_source \in Nat
        /\ p.work.chunks \in Nat /\ p.work.sources \in Nat
    BY CheckpointFields, SMTT(30)
  <2>2. longer = Append(sizes, n)
    OBVIOUS
  <2> HIDE DEF sizes, longer
  <2> QED BY <2>1, <2>2
<1>2. /\ Covered(sizes)[m] = p.next_source /\ p.work = RebuiltWork(sizes)
      /\ m = p.work.chunks /\ p.work.sources = p.next_source
      /\ \A i \in 1 .. m : sizes[i] \in 1 .. p.capacity
      /\ \A i \in 1 .. m : ~ChunkFails(Covered(sizes)[i - 1], sizes[i])
  BY DEF VerifyPrefix
<1>3. longer = Append(sizes, n)
  OBVIOUS
<1>4. /\ \A i \in 0 .. m : c[i] = Covered(sizes)[i]
      /\ c[m + 1] = p.next_source + n /\ c[m] = p.next_source
  <2>1. m \in 0 .. m
    BY <1>1
  <2> HIDE DEF sizes, longer
  <2>2. /\ \A i \in 0 .. m : c[i] = Covered(sizes)[i]
        /\ c[m + 1] = Covered(sizes)[m] + n
    BY <1>1, <1>3, CoveredExtends
  <2> HIDE DEF m, c
  <2> QED BY <1>2, <2>1, <2>2
<1>5. c \in [0 .. m + 1 -> Nat] /\ \A i \in 1 .. m + 1 : c[i] = c[i - 1] + longer[i]
  BY <1>1, CoveredIs
<1>6. \A i \in 0 .. m + 1 : c[i] <= p.next_source + n
  BY <1>1, <1>4, CoveredGrows
<1>7. r.work = RebuiltWork(longer)
  BY <1>1, <1>2, <1>3, WorkExtends
<1>8. /\ r.work.sources = p.next_source + n /\ r.work.chunks = m + 1
      /\ Len(r.rows) = p.next_source + n
  BY <1>1, <1>2 DEF AddChunk, ChunkRows
<1> HIDE DEF sizes, longer, m, c
<1>9. ASSUME NEW i \in 1 .. m + 1
      PROVE  /\ longer[i] \in 1 .. r.capacity
             /\ ~ChunkFails(c[i - 1], longer[i])
             /\ SubSeq(r.rows, c[i - 1] + 1, c[i]) = ChunkRows(c[i - 1], longer[i])
  <2>1. i - 1 \in 0 .. m + 1 /\ i \in 0 .. m + 1
    BY <1>1
  <2>2. longer[i] \in 1 .. r.capacity /\ ~ChunkFails(c[i - 1], longer[i])
    <3>1. CASE i = m + 1
      <4>1. i - 1 = m
        BY <1>1, <3>1
      <4> QED BY <1>1, <1>4, <3>1, <4>1
    <3>2. CASE i \in 1 .. m
      <4>1. i - 1 \in 0 .. m
        BY <1>1, <3>2
      <4> QED BY <1>1, <1>2, <1>4, <3>2, <4>1
    <3> QED BY <1>1, <3>1, <3>2
  <2>3. /\ c[i - 1] \in Nat /\ c[i] = c[i - 1] + longer[i]
        /\ c[i] <= p.next_source + n
    BY <1>5, <1>6, <2>1
  <2>4. longer[i] \in Nat
    BY <2>2
  <2>5. SubSeq(r.rows, c[i - 1] + 1, c[i - 1] + longer[i]) = ChunkRows(c[i - 1], longer[i])
    <3>1. c[i - 1] + longer[i] <= p.next_source + n /\ p.next_source + n \in Nat
      BY <1>1, <2>3, SMTT(30)
    <3>2. SubSeq(ChunkRows(0, p.next_source + n), c[i - 1] + 1, c[i - 1] + longer[i])
            = ChunkRows(c[i - 1], longer[i])
      BY <2>3, <2>4, <3>1, RowsBetween
    <3> QED BY <3>2
  <2> QED BY <2>2, <2>3, <2>5
<1> QED BY <1>1, <1>4, <1>7, <1>8, <1>9 DEF VerifyPrefix, longer, c

\* The status recorded at a boundary is one the verifier accepts there.
LEMMA BoundaryIsSane ==
  ASSUME catalog \in Catalogs, NEW p \in Checkpoints, Solid(p), p.status.kind = "active"
  PROVE  /\ WithBoundaryStatus(p) \in Checkpoints
         /\ Sane(WithBoundaryStatus(p))
         /\ WithBoundaryStatus(p).status.kind = "active" =>
              WithBoundaryStatus(p) = p /\ ~AtEnd(p) /\ ~AtSourceLimit(p)
<1> DEFINE s == BoundaryStatus(p)
           q == WithBoundaryStatus(p)
<1>0. /\ p.next_source \in Nat /\ p.work.units \in Nat /\ catalog.total \in Nat
      /\ p.budget.max_sources \in Nat /\ p.budget.max_work_units \in Nat
  BY CheckpointFields, CatalogType
<1>1. s \in [kind : StatusKinds, limit : Nat]
  BY <1>0, CheckpointFields DEF BoundaryStatus, StreamStatus, StatusKinds
<1>2. /\ q \in Checkpoints /\ q.status = s
      /\ q.next_source = p.next_source /\ q.rows = p.rows
      /\ q.work = p.work /\ q.budget = p.budget
      /\ q.capacity = p.capacity /\ q.chunk_sizes = p.chunk_sizes
  BY <1>1 DEF WithBoundaryStatus, Checkpoints
<1>3. Solid(q)
  BY <1>2, PrefixStays DEF Solid
<1>4. /\ AtEnd(q) <=> AtEnd(p)
      /\ AtSourceLimit(q) <=> AtSourceLimit(p)
      /\ AtWorkLimit(q) <=> AtWorkLimit(p)
  BY <1>2 DEF AtEnd, AtSourceLimit, AtWorkLimit
<1>5. CASE AtEnd(p)
  <2>1. s = StreamStatus("complete", 0)
    BY <1>5 DEF BoundaryStatus
  <2>2. VerifyComplete(q)
    BY <1>0, <1>2, <1>3, <1>5, <2>1 DEF VerifyComplete, StreamStatus, Solid, AtEnd
  <2> QED BY <1>2, <1>3, <2>1, <2>2 DEF Sane, VerifyStatus, StreamStatus
<1>6. CASE ~AtEnd(p) /\ AtSourceLimit(p)
  <2>1. s = StreamStatus("source_limit", p.budget.max_sources)
    BY <1>6 DEF BoundaryStatus
  <2>2. VerifySourceLimit(q)
    BY <1>0, <1>2, <1>3, <1>4, <1>6, <2>1 DEF VerifySourceLimit, Solid, AtSourceLimit
  <2> QED BY <1>2, <1>3, <2>1, <2>2 DEF Sane, VerifyStatus, StreamStatus
<1>7. CASE ~AtEnd(p) /\ ~AtSourceLimit(p) /\ AtWorkLimit(p)
  <2>1. s = StreamStatus("work_limit", p.budget.max_work_units)
    BY <1>7 DEF BoundaryStatus
  <2>2. VerifyWorkLimit(q)
    BY <1>0, <1>2, <1>3, <1>4, <1>7, <2>1 DEF VerifyWorkLimit, Solid, AtWorkLimit
  <2> QED BY <1>2, <1>3, <2>1, <2>2 DEF Sane, VerifyStatus, StreamStatus
<1>8. CASE ~AtEnd(p) /\ ~AtSourceLimit(p) /\ ~AtWorkLimit(p)
  <2>1. s = p.status
    BY <1>8 DEF BoundaryStatus
  <2>2. q = p
    BY <2>1 DEF WithBoundaryStatus, Checkpoints
  <2>3. VerifyActive(q)
    BY <1>4, <1>8, <2>2 DEF VerifyActive
  <2> QED BY <1>2, <1>3, <1>8, <2>2, <2>3 DEF Sane, VerifyStatus
<1> QED BY <1>5, <1>6, <1>7, <1>8

\* The same of a boundary at which the flag is looked at first.
LEMMA FlagBoundaryIsSane ==
  ASSUME catalog \in Catalogs, NEW p \in Checkpoints, Solid(p), p.status.kind = "active",
         NEW flag \in BOOLEAN, flag => ~AtEnd(p)
  PROVE  /\ AtBoundary(p, flag) \in Checkpoints
         /\ Sane(AtBoundary(p, flag))
         /\ AtBoundary(p, flag).next_source = p.next_source
         /\ AtBoundary(p, flag).status.kind = "active" =>
              AtBoundary(p, flag) = p /\ ~flag /\ ~AtEnd(p) /\ ~AtSourceLimit(p)
<1>1. CASE ~flag
  <2>1. AtBoundary(p, flag) = WithBoundaryStatus(p)
    BY <1>1 DEF AtBoundary, WithBoundaryStatus
  <2>2. WithBoundaryStatus(p).next_source = p.next_source
    BY DEF WithBoundaryStatus, Checkpoints
  <2> QED BY <1>1, <2>1, <2>2, BoundaryIsSane
<1>2. CASE flag
  <2> DEFINE q == AtBoundary(p, flag)
  <2>1. /\ q \in Checkpoints /\ q.status = StreamStatus("cancelled", 0)
        /\ q.next_source = p.next_source /\ q.rows = p.rows
        /\ q.work = p.work /\ q.budget = p.budget
        /\ q.capacity = p.capacity /\ q.chunk_sizes = p.chunk_sizes
    BY <1>2 DEF AtBoundary, StreamStatus, StatusKinds, Checkpoints
  <2>2. Solid(q)
    BY <2>1, PrefixStays DEF Solid
  <2>3. VerifyCancelled(q)
    <3>1. ~AtEnd(p)
      BY <1>2
    <3>2. q.status.kind = "cancelled"
      BY <2>1 DEF StreamStatus
    <3>3. AtEnd(q) <=> AtEnd(p)
      BY <2>1 DEF AtEnd
    <3> QED BY <3>1, <3>2, <3>3 DEF VerifyCancelled
  <2> QED BY <2>1, <2>2, <2>3 DEF Sane, VerifyStatus, StreamStatus
<1> QED BY <1>1, <1>2

\* Committing a chunk keeps a checkpoint sane and moves its cursor.
LEMMA CommitIsSane ==
  ASSUME catalog \in Catalogs, NEW p \in Checkpoints, Solid(p), p.status.kind = "active",
         ~AtEnd(p), ~AtSourceLimit(p), ~OverWork(p), ~Failing(p)
  PROVE  LET q == WithBoundaryStatus(CommitChunk(p, ChunkCount(p)))
         IN q \in Checkpoints /\ Sane(q) /\ q.next_source > p.next_source
<1> DEFINE n == ChunkCount(p)
           r == CommitChunk(p, n)
           q == WithBoundaryStatus(r)
<1>1. /\ n \in Nat /\ n > 0
      /\ p.next_source + n <= catalog.total
      /\ p.next_source + n <= p.budget.max_sources
      /\ n <= p.capacity /\ ~ChunkFails(p.next_source, n)
  BY ChunkCountBounds DEF Failing
<1> HIDE DEF n
<1>2. /\ ChunkRows(0, p.next_source) \o ChunkRows(p.next_source, n)
           = ChunkRows(0, p.next_source + n)
      /\ ChunkRows(p.next_source, n) \in Seq(Nat)
  BY <1>1, RowsExtend, CheckpointFields
<1>3. /\ AddChunk(p.work, n) \in
             [chunks : Nat, sources : Nat, units : Nat, peak_live_sources : Nat]
      /\ AddChunk(p.work, n).units = p.work.units + UnitsPerSource * n
  BY <1>1, CheckpointFields, SMTT(30) DEF AddChunk, Larger, UnitsPerSource
<1>4. AddChunk(p.work, n).units <= p.budget.max_work_units
  BY <1>3, CheckpointFields DEF OverWork, n, UnitsPerSource
<1>5. /\ r \in Checkpoints
      /\ r.next_source = p.next_source + n
      /\ r.rows = p.rows \o ChunkRows(p.next_source, n)
      /\ r.work = AddChunk(p.work, n)
      /\ r.budget = p.budget
      /\ r.status = p.status
      /\ r.capacity = p.capacity /\ r.chunk_sizes = Append(p.chunk_sizes, n)
  <2>1. /\ p.rows \o ChunkRows(p.next_source, n) \in Seq(Nat)
        /\ Append(p.chunk_sizes, n) \in Seq(Nat)
        /\ p.next_source + n \in Nat
    BY <1>1, <1>2, CheckpointFields, ConcatProperties
  <2> QED BY <1>3, <2>1 DEF CommitChunk, Checkpoints
<1> HIDE DEF r
<1>6. Solid(r)
  <2>1. r.rows = ChunkRows(0, r.next_source)
    <3>1. p.rows = ChunkRows(0, p.next_source)
      BY DEF Solid
    <3> QED BY <1>2, <1>5, <3>1
  <2>2. r.work.units = UnitsPerSource * r.next_source
    <3>1. p.work.units = UnitsPerSource * p.next_source /\ p.next_source \in Nat
      BY CheckpointFields DEF Solid
    <3> QED BY <1>1, <1>3, <1>5, <3>1 DEF UnitsPerSource
  <2>3. VerifyPrefix(r)
    <3>1. n \in 1 .. p.capacity
      BY <1>1, CheckpointFields
    <3>2. VerifyPrefix(p)
      BY DEF Solid
    <3>3. r.rows = ChunkRows(0, p.next_source + n)
      BY <1>5, <2>1
    <3> QED BY <1>1, <1>5, <3>1, <3>2, <3>3, PrefixExtends
  <2> QED BY <1>1, <1>4, <1>5, <2>1, <2>2, <2>3 DEF Solid
<1>7. WithBoundaryStatus(r) \in Checkpoints /\ Sane(WithBoundaryStatus(r))
  BY <1>5, <1>6, BoundaryIsSane
<1>8. WithBoundaryStatus(r).next_source = r.next_source
  BY <1>5 DEF WithBoundaryStatus, Checkpoints
<1> QED BY <1>1, <1>5, <1>7, <1>8, CheckpointFields, SMTT(30) DEF n, r

\* A chunk that would go over the work budget is the verifier's reason for the cut.
LEMMA OverWorkIsSane ==
  ASSUME catalog \in Catalogs, NEW p \in Checkpoints, Solid(p),
         ~AtEnd(p), ~AtSourceLimit(p), ~Failing(p), OverWork(p)
  PROVE  LET q == [p EXCEPT !.status = StreamStatus("work_limit", p.budget.max_work_units)]
         IN q \in Checkpoints /\ Sane(q) /\ q.next_source = p.next_source
<1> DEFINE q == [p EXCEPT !.status = StreamStatus("work_limit", p.budget.max_work_units)]
<1>0. /\ p.work.units \in Nat /\ p.budget.max_work_units \in Nat
  BY CheckpointFields
<1>1. /\ q \in Checkpoints
      /\ q.status = StreamStatus("work_limit", p.budget.max_work_units)
      /\ q.next_source = p.next_source /\ q.rows = p.rows /\ q.capacity = p.capacity
      /\ q.work = p.work /\ q.budget = p.budget /\ q.chunk_sizes = p.chunk_sizes
  BY <1>0 DEF StreamStatus, StatusKinds, Checkpoints
<1> HIDE DEF q
<1>2. Solid(q)
  BY <1>1, PrefixStays DEF Solid
<1>3. /\ ~AtEnd(q) /\ ~AtSourceLimit(q)
      /\ ~Failing(q) /\ OverWork(q)
  BY <1>1 DEF AtEnd, AtSourceLimit, Failing, OverWork, ChunkCount, Remaining
<1>4. VerifyWorkLimit(q)
  BY <1>0, <1>1, <1>2, <1>3 DEF VerifyWorkLimit, Solid
<1> QED BY <1>1, <1>2, <1>4 DEF Sane, VerifyStatus, q

-----------------------------------------------------------------------------
(* The catalog is fixed: what is sane stays sane.                          *)

\* What is right of a checkpoint depends on the catalog alone.
LEMMA SaneStays ==
  ASSUME catalog' = catalog, NEW p
  PROVE  Sane(p)' <=> Sane(p)
BY DEF Sane, Solid, VerifyPrefix, VerifyStatus, VerifyActive, VerifyComplete, VerifyCancelled,
       VerifySourceLimit, VerifyWorkLimit, AtEnd, AtSourceLimit, AtWorkLimit, Failing,
       OverWork, ChunkCount, ChunkFails

\* A portable checkpoint that is left alone stays right.
LEMMA PortableStaysSane ==
  ASSUME catalog' = catalog, NEW p, portable' = p, Sane(p)
  PROVE  Sane(portable)'
BY DEF Sane, Solid, VerifyPrefix, VerifyStatus, VerifyActive, VerifyComplete, VerifyCancelled,
       VerifySourceLimit, VerifyWorkLimit, AtEnd, AtSourceLimit, AtWorkLimit, Failing,
       OverWork, ChunkCount, ChunkFails

\* So do the files.
LEMMA FilesStaySane ==
  ASSUME catalog' = catalog, file' = file, survivors' = survivors, FilesAreSane
  PROVE  FilesAreSane'
BY SaneStays DEF FilesAreSane, SaneFile

-----------------------------------------------------------------------------
(* The invariant holds initially and after every step.                     *)

\* The invariant holds before the first run.
LEMMA InitRunInv == Init => RunInv
<1> SUFFICES ASSUME Init PROVE RunInv
  OBVIOUS
<1>1. PICK c \in Capacities, b \in Budgets : portable = NewCheckpoint(c, b)
  BY DEF Init
<1>2. portable \in Checkpoints /\ Sane(portable)
  BY <1>1, NewIsSane DEF Init
<1>3. TypeOK
  BY <1>2 DEF Init, TypeOK, Entries
<1> QED BY <1>2, <1>3 DEF Init, RunInv, FilesAreSane, SaneFile, WritePoint, ComputePoint,
                          CancelPoint

\* Steps of the writer: the checkpoint on its way to the disk is the stream's.
LEMMA WriterKeepsRunInv ==
  ASSUME RunInv, WriteTemp \/ FlushTemp \/ Replace \/ SyncDirectory \/ WriteFails
  PROVE  RunInv'
<1>0. /\ TypeOK /\ Sane(portable) /\ FilesAreSane /\ portable \in Checkpoints
      /\ catalog' = catalog /\ portable' = portable /\ cancelled' = cancelled
      /\ late' = late /\ starts' = starts
  BY DEF RunInv, TypeOK, WriteTemp, FlushTemp, Replace, SyncDirectory, WriteFails, stream
<1>1. Sane(portable)'
  BY <1>0, PortableStaysSane
<1>2. Entry(portable, "buffered") \in Entries /\ Entry(portable, "flushed") \in Entries
  BY <1>0 DEF Entry, Entries
<1>3. CASE WriteTemp
  <2>1. FilesAreSane'
    BY <1>0, <1>3, FilesStaySane DEF WriteTemp
  <2>2. TypeOK'
    BY <1>0, <1>2, <1>3 DEF TypeOK, WriteTemp
  <2> QED BY <1>0, <1>1, <1>3, <2>1, <2>2
          DEF RunInv, WriteTemp, WritePoint, ComputePoint, CancelPoint
<1>4. CASE FlushTemp
  <2>1. temp' = {Entry(portable, "flushed")}
    <3>1. temp = {Entry(portable, "buffered")}
      BY <1>4 DEF RunInv, WritePoint, FlushTemp
    <3>2. [Entry(portable, "buffered") EXCEPT !.data = "flushed"] = Entry(portable, "flushed")
      BY DEF Entry
    <3> QED BY <1>4, <3>1, <3>2 DEF FlushTemp
  <2>2. FilesAreSane'
    BY <1>0, <1>4, FilesStaySane DEF FlushTemp
  <2>3. TypeOK'
    BY <1>0, <1>2, <1>4, <2>1 DEF TypeOK, FlushTemp
  <2> QED BY <1>0, <1>1, <1>4, <2>1, <2>2, <2>3
          DEF RunInv, FlushTemp, WritePoint, ComputePoint, CancelPoint
<1>5. CASE Replace
  <2>1. /\ file' = {Entry(portable, "flushed")}
        /\ survivors' = survivors \cup {file'}
    BY <1>5 DEF RunInv, WritePoint, Replace
  <2>2. FilesAreSane'
    <3>1. \A p : Sane(p)' <=> Sane(p)
      BY <1>0, SaneStays
    <3>2. SaneFile(file')
      BY <1>0, <2>1 DEF SaneFile
    <3> QED BY <1>0, <2>1, <3>1, <3>2 DEF FilesAreSane, SaneFile
  <2>3. TypeOK'
    BY <1>0, <1>2, <1>5, <2>1 DEF TypeOK, Replace
  <2> QED BY <1>0, <1>1, <1>5, <2>1, <2>2, <2>3
          DEF RunInv, Replace, WritePoint, ComputePoint, CancelPoint
<1>6. CASE SyncDirectory
  <2>1. file = {Entry(portable, "flushed")}
    BY <1>6 DEF RunInv, WritePoint, SyncDirectory
  <2>2. FilesAreSane'
    BY <1>0, <1>6, SaneStays DEF FilesAreSane, SaneFile, SyncDirectory
  <2>3. TypeOK'
    BY <1>0, <1>6 DEF TypeOK, SyncDirectory
  <2> QED BY <1>0, <1>1, <1>6, <2>1, <2>2, <2>3
          DEF RunInv, SyncDirectory, WritePoint, ComputePoint, CancelPoint
<1>7. CASE WriteFails
  <2>1. FilesAreSane'
    BY <1>0, <1>7, FilesStaySane DEF WriteFails
  <2>2. TypeOK'
    BY <1>0, <1>7 DEF TypeOK, WriteFails
  <2> QED BY <1>0, <1>1, <1>7, <2>1, <2>2
          DEF RunInv, WriteFails, WritePoint, ComputePoint, CancelPoint
<1> QED BY <1>3, <1>4, <1>5, <1>6, <1>7

\* Steps of the stream: cuts and commits stay sane, and only an unset flag lets it compute.
LEMMA StreamKeepsRunInv ==
  ASSUME RunInv, Boundary \/ ComputeChunk \/ FailChunk
  PROVE  RunInv'
<1>0. /\ TypeOK /\ Sane(portable) /\ Solid(portable) /\ FilesAreSane
      /\ portable \in Checkpoints /\ catalog \in Catalogs /\ cancelled \in BOOLEAN
      /\ catalog' = catalog /\ cancelled' = cancelled /\ starts' = starts
      /\ temp' = temp /\ file' = file /\ survivors' = survivors
      /\ portable.status.kind = "active" /\ ~AtEnd(portable)
  <2>1. portable.status.kind = "active"
    BY DEF RunInv, ComputePoint, Boundary, ComputeChunk, FailChunk
  <2>2. ~AtEnd(portable)
    BY <2>1 DEF RunInv, Sane, VerifyStatus, VerifyActive, VerifyComplete, VerifyCancelled,
                VerifySourceLimit, VerifyWorkLimit, StreamStatus
  <2> QED BY <2>1, <2>2
          DEF RunInv, TypeOK, Sane, Boundary, ComputeChunk, FailChunk, CutOverWork,
              CommitNextChunk, ChunkFailed, stream, disk
<1>1. FilesAreSane'
  BY <1>0, FilesStaySane
<1>2. CASE Boundary
  <2> DEFINE q == AtBoundary(portable, cancelled)
  <2>1. /\ portable' = q /\ late' = late
        /\ pc' = IF q.status.kind = "active" THEN "compute" ELSE "write"
    BY <1>2 DEF Boundary
  <2>2. /\ q \in Checkpoints /\ Sane(q)
        /\ q.status.kind = "active" =>
             q = portable /\ ~cancelled /\ ~AtEnd(portable) /\ ~AtSourceLimit(portable)
    BY <1>0, FlagBoundaryIsSane
  <2> HIDE DEF q
  <2>3. Sane(portable)'
    BY <1>0, <2>1, <2>2, PortableStaysSane
  <2>4. TypeOK'
    BY <1>0, <2>1, <2>2 DEF TypeOK
  <2>5. CASE q.status.kind = "active"
    <3>1. portable' = portable /\ pc' = "compute"
      BY <2>1, <2>2, <2>5
    <3>2. ComputePoint'
      BY <1>0, <2>2, <2>5, <3>1 DEF ComputePoint, AtEnd, AtSourceLimit
    <3> QED BY <1>0, <1>1, <1>2, <2>1, <2>2, <2>3, <2>4, <2>5, <3>1, <3>2
            DEF RunInv, WritePoint, CancelPoint, Boundary
  <2>6. CASE q.status.kind # "active"
    <3>1. pc' = "write"
      BY <2>1, <2>6
    <3> QED BY <1>0, <1>1, <2>1, <2>3, <2>4, <3>1
            DEF RunInv, WritePoint, ComputePoint, CancelPoint
  <2> QED BY <2>5, <2>6
<1>3. CASE ComputeChunk
  <2>1. /\ pc = "compute" /\ pc' = "write"
        /\ ~AtEnd(portable) /\ ~AtSourceLimit(portable) /\ late = 0
    BY <1>3 DEF RunInv, ComputePoint, CancelPoint, ComputeChunk
  <2>2. CASE CutOverWork
    <3> DEFINE q == [portable EXCEPT !.status =
                       StreamStatus("work_limit", portable.budget.max_work_units)]
    <3>1. portable' = q /\ late' = late
      BY <2>2 DEF CutOverWork
    <3>2. q \in Checkpoints /\ Sane(q)
      BY <1>0, <2>1, <2>2, OverWorkIsSane DEF CutOverWork
    <3> HIDE DEF q
    <3>3. Sane(portable)'
      BY <1>0, <3>1, <3>2, PortableStaysSane
    <3>4. TypeOK'
      BY <1>0, <2>1, <3>1, <3>2 DEF TypeOK
    <3> QED BY <1>0, <1>1, <2>1, <3>1, <3>3, <3>4
            DEF RunInv, WritePoint, ComputePoint, CancelPoint
  <2>3. CASE CommitNextChunk
    <3> DEFINE q == WithBoundaryStatus(CommitChunk(portable, ChunkCount(portable)))
    <3>1. portable' = q /\ late' = IF cancelled THEN 1 ELSE 0
      BY <2>1, <2>3 DEF CommitNextChunk
    <3>2. q \in Checkpoints /\ Sane(q)
      BY <1>0, <2>1, <2>3, CommitIsSane DEF CommitNextChunk
    <3> HIDE DEF q
    <3>3. Sane(portable)'
      BY <1>0, <3>1, <3>2, PortableStaysSane
    <3>4. TypeOK'
      BY <1>0, <2>1, <3>1, <3>2 DEF TypeOK
    <3> QED BY <1>0, <1>1, <2>1, <3>1, <3>3, <3>4
            DEF RunInv, WritePoint, ComputePoint, CancelPoint
  <2> QED BY <1>3, <2>2, <2>3 DEF ComputeChunk
<1>4. CASE FailChunk
  <2>1. portable' = portable /\ late' = late /\ pc' = "stopped"
    BY <1>4 DEF FailChunk, ChunkFailed, stream
  <2>2. Sane(portable)'
    BY <1>0, <2>1, PortableStaysSane
  <2>3. TypeOK'
    BY <1>0, <2>1 DEF TypeOK
  <2> QED BY <1>0, <1>1, <2>1, <2>2, <2>3
          DEF RunInv, WritePoint, ComputePoint, CancelPoint
<1> QED BY <1>2, <1>3, <1>4

\* A lost power supply leaves one of the files it could leave, whole.
LEMMA SurvivorIsWhole ==
  ASSUME RunInv, LosePower
  PROVE  \E left \in survivors : file' = left /\ survivors' = {left}
<1>1. PICK left \in survivors, data \in {"flushed", "torn"} :
        /\ data = "torn" => \E f \in left : f.data = "buffered"
        /\ file' = {[f EXCEPT !.data = IF @ = "torn" THEN "torn" ELSE data] : f \in left}
        /\ survivors' = {file'}
  BY DEF LosePower
<1>2. CASE left = {}
  BY <1>1, <1>2
<1>3. CASE \E p \in Checkpoints : left = {Entry(p, "flushed")}
  <2>1. PICK p \in Checkpoints : left = {Entry(p, "flushed")}
    BY <1>3
  <2>2. Entry(p, "flushed").data = "flushed"
    BY DEF Entry
  <2>3. data = "flushed"
    BY <1>1, <2>1, <2>2
  <2>4. [Entry(p, "flushed") EXCEPT !.data = "flushed"] = Entry(p, "flushed")
    BY DEF Entry
  <2>5. file' = {Entry(p, "flushed")}
    <3>1. file' = {[f EXCEPT !.data = IF f.data = "torn" THEN "torn" ELSE "flushed"] :
                     f \in {Entry(p, "flushed")}}
      BY <1>1, <2>1, <2>3
    <3>2. @ = {[Entry(p, "flushed") EXCEPT !.data = "flushed"]}
      BY <2>2
    <3> QED BY <2>4, <3>1, <3>2
  <2> QED BY <1>1, <2>1, <2>5
<1> QED BY <1>2, <1>3 DEF RunInv, FilesAreSane, SaneFile

\* Steps of the caller, the canceller and the machine.
LEMMA OthersKeepRunInv ==
  ASSUME RunInv, Cancel \/ StartAgain \/ RunAgain \/ Resume \/ Crash \/ LosePower
  PROVE  RunInv'
<1>0. /\ TypeOK /\ Sane(portable) /\ FilesAreSane
      /\ portable \in Checkpoints /\ catalog \in Catalogs
      /\ catalog' = catalog
  BY DEF RunInv, TypeOK, Cancel, StartAgain, RunAgain, Resume, Crash, LosePower, Begin,
         LoseMemory
<1>1. CASE Cancel
  <2>1. portable' = portable /\ cancelled' = TRUE /\ late' = late /\ pc' = pc
    BY <1>1 DEF Cancel
  <2>2. Sane(portable)' /\ FilesAreSane'
    BY <1>0, <1>1, <2>1, PortableStaysSane, FilesStaySane DEF Cancel, disk
  <2>3. TypeOK'
    BY <1>0, <1>1 DEF TypeOK, Cancel, disk
  <2> QED BY <1>0, <1>1, <2>1, <2>2, <2>3
          DEF RunInv, Cancel, WritePoint, ComputePoint, CancelPoint, AtEnd,
              AtSourceLimit, disk
<1>2. ASSUME NEW p, NEW flag \in BOOLEAN, Begin(p, flag), p \in Checkpoints, Sane(p)
      PROVE  RunInv'
  <2>1. /\ portable' = p /\ cancelled' = flag /\ late' = 0 /\ pc' = "write"
        /\ starts' = starts + 1
        /\ temp' = temp /\ file' = file /\ survivors' = survivors
    BY <1>2 DEF Begin, disk
  <2>2. Sane(portable)' /\ FilesAreSane'
    BY <1>0, <1>2, <2>1, PortableStaysSane, FilesStaySane
  <2>3. TypeOK'
    BY <1>0, <1>2, <2>1 DEF TypeOK
  <2> QED BY <2>1, <2>2, <2>3 DEF RunInv, WritePoint, ComputePoint, CancelPoint
<1>3. CASE StartAgain
  BY <1>0, <1>2, <1>3, NewIsSane DEF StartAgain
<1>4. CASE RunAgain
  <2>1. /\ portable' = portable /\ cancelled' = cancelled /\ late' = late
        /\ pc' = "write" /\ starts' = starts + 1
        /\ temp' = temp /\ file' = file /\ survivors' = survivors
    BY <1>4 DEF RunAgain, stream, disk
  <2>2. Sane(portable)' /\ FilesAreSane'
    BY <1>0, <2>1, PortableStaysSane, FilesStaySane
  <2>3. TypeOK'
    BY <1>0, <2>1 DEF TypeOK
  <2> QED BY <1>0, <2>1, <2>2, <2>3 DEF RunInv, WritePoint, ComputePoint, CancelPoint
<1>5. CASE Resume
  <2>1. PICK f \in file, budget \in Budgets, flag \in BOOLEAN :
          /\ ResumeAdmits(f.checkpoint, budget)
          /\ Begin(Resumed(f.checkpoint, budget, flag), flag)
    BY <1>5 DEF Resume
  <2>2. f.checkpoint \in Checkpoints /\ Sane(f.checkpoint)
    <3>1. PICK p \in Checkpoints : file = {Entry(p, "flushed")} /\ Sane(p)
      BY <1>0, <2>1 DEF FilesAreSane, SaneFile
    <3> QED BY <2>1, <3>1 DEF Entry
  <2> DEFINE p == f.checkpoint
             r == [p EXCEPT !.budget = budget, !.status = Active]
  <2>3. /\ r \in Checkpoints /\ r.status.kind = "active"
        /\ r.next_source = p.next_source /\ r.rows = p.rows /\ r.work = p.work
        /\ r.budget = budget
        /\ r.capacity = p.capacity /\ r.chunk_sizes = p.chunk_sizes
    BY <2>1, <2>2 DEF Active, StreamStatus, StatusKinds, Checkpoints
  <2>4. Solid(r)
    BY <2>1, <2>2, <2>3, CheckpointFields, StreamAssumption, PrefixStays
       DEF Sane, Solid, ResumeAdmits
  <2>5. ~AtEnd(r)
    <3>1. ~AtEnd(p)
      BY <2>1, <2>2 DEF ResumeAdmits, Sane, VerifyStatus, VerifyActive, VerifyComplete,
                        VerifyCancelled, VerifySourceLimit, VerifyWorkLimit
    <3> QED BY <2>3, <3>1 DEF AtEnd
  <2>6. AtBoundary(r, flag) \in Checkpoints /\ Sane(AtBoundary(r, flag))
    BY <1>0, <2>3, <2>4, <2>5, FlagBoundaryIsSane
  <2> QED BY <1>2, <2>1, <2>6 DEF Resumed
<1>6. ASSUME LoseMemory, FilesAreSane', file' \subseteq Entries,
             survivors' \subseteq SUBSET Entries
      PROVE  RunInv'
  <2> DEFINE q == NewCheckpoint(portable.capacity, portable.budget)
  <2>1. /\ portable' = q /\ cancelled' = FALSE /\ late' = 0 /\ pc' = "no_process"
        /\ temp' = {} /\ starts' = starts
    BY <1>6 DEF LoseMemory
  <2>2. q \in Checkpoints /\ Sane(q)
    BY <1>0, NewIsSane, CheckpointFields
  <2> HIDE DEF q
  <2>3. Sane(portable)'
    BY <1>0, <2>1, <2>2, PortableStaysSane
  <2>4. TypeOK'
    BY <1>0, <1>6, <2>1, <2>2 DEF TypeOK
  <2> QED BY <1>6, <2>1, <2>3, <2>4 DEF RunInv, WritePoint, ComputePoint, CancelPoint
<1>7. CASE Crash
  <2>1. FilesAreSane'
    BY <1>0, <1>7, FilesStaySane DEF Crash
  <2> QED BY <1>0, <1>6, <1>7, <2>1 DEF Crash, TypeOK
<1>8. CASE LosePower
  <2>1. PICK left \in survivors : file' = left /\ survivors' = {left}
    BY <1>8, SurvivorIsWhole
  <2>2. FilesAreSane'
    BY <1>0, <2>1, SaneStays DEF FilesAreSane, SaneFile
  <2>3. file' \subseteq Entries /\ survivors' \subseteq SUBSET Entries
    BY <1>0, <2>1 DEF TypeOK
  <2> QED BY <1>6, <1>8, <2>2, <2>3 DEF LosePower
<1> QED BY <1>1, <1>3, <1>4, <1>5, <1>7, <1>8

\* It holds in every state of every sequence of runs and crashes.
LEMMA RunInvariant == Spec => []RunInv
<1>1. Init => RunInv
  BY InitRunInv
<1>2. RunInv /\ [Next]_vars => RunInv'
  <2> SUFFICES ASSUME RunInv, [Next]_vars PROVE RunInv'
    OBVIOUS
  <2>1. CASE UNCHANGED vars
    <3>1. Sane(portable)' /\ FilesAreSane'
      BY <2>1, PortableStaysSane, FilesStaySane DEF RunInv, vars, stream, disk
    <3> QED BY <2>1, <3>1
            DEF RunInv, TypeOK, WritePoint, ComputePoint, CancelPoint, AtEnd,
                AtSourceLimit, vars, stream, disk
  <2>2. CASE Next
    BY <2>2, WriterKeepsRunInv, StreamKeepsRunInv, OthersKeepRunInv DEF Next, Driver
  <2> QED BY <2>1, <2>2
<1> QED BY <1>1, <1>2, PTL DEF Spec

-----------------------------------------------------------------------------
(* Theorems.                                                               *)

\* Every variable keeps its type, whatever fails and however often a run is started.
THEOREM RunTypeCorrect == Spec => []TypeOK
BY RunInvariant, PTL DEF RunInv

\* Neither a failed write nor a crash nor a loss of power tears the file.
THEOREM NeverTorn == Spec => []FileIsNeverTorn
<1>1. RunInv => FileIsNeverTorn
  <2> SUFFICES ASSUME RunInv, NEW f \in Surviving PROVE f.data # "torn"
    BY DEF FileIsNeverTorn
  <2>1. PICK p : f = Entry(p, "flushed")
    BY DEF Surviving, RunInv, FilesAreSane, SaneFile
  <2> QED BY <2>1 DEF Entry
<1> QED BY <1>1, RunInvariant, PTL

\* Whatever checkpoint is held is well typed and right.
LEMMA HeldAreSane == RunInv => \A p \in HeldCheckpoints : p \in Checkpoints /\ Sane(p)
<1> SUFFICES ASSUME RunInv, NEW p \in HeldCheckpoints
             PROVE  p \in Checkpoints /\ Sane(p)
  OBVIOUS
<1>1. CASE p = portable
  BY <1>1 DEF RunInv, TypeOK
<1>2. CASE \E f \in Surviving : p = f.checkpoint
  <2>1. PICK q \in Checkpoints : p = Entry(q, "flushed").checkpoint /\ Sane(q)
    BY <1>2 DEF Surviving, RunInv, FilesAreSane, SaneFile
  <2> QED BY <2>1 DEF Entry
<1> QED BY <1>1, <1>2 DEF HeldCheckpoints

\* The verifier accepts whatever the file may hold, after any failure: the chunks replay
\* one after another up to the cursor, and the status names the first reason that applies.
THEOREM FileVerifies == Spec => []FileAlwaysVerifies
<1>1. RunInv => FileAlwaysVerifies
  BY HeldAreSane DEF FileAlwaysVerifies, HeldCheckpoints, VerifyPortable, Sane, Solid
<1> QED BY <1>1, RunInvariant, PTL

\* Rows, their price and completion depend on the cursor alone, not on how it got there.
THEOREM RowsCorrect == Spec => []RowsAreTheCatalogPrefix
<1>1. RunInv => RowsAreTheCatalogPrefix
  <2> SUFFICES ASSUME RunInv, NEW p \in HeldCheckpoints
               PROVE  /\ p.next_source <= catalog.total
                      /\ p.rows = ChunkRows(0, p.next_source)
                      /\ p.work.units = UnitsPerSource * p.next_source
                      /\ p.status.kind = "complete" <=> p.next_source = catalog.total
    BY DEF RowsAreTheCatalogPrefix
  <2>1. p \in Checkpoints /\ Solid(p) /\ VerifyStatus(p) /\ catalog \in Catalogs
    BY HeldAreSane DEF Sane, RunInv, TypeOK
  <2>2. p.status.kind = "complete" <=> p.next_source = catalog.total
    <3>1. p.next_source = catalog.total => AtEnd(p)
      BY <2>1, CatalogType, CheckpointFields DEF AtEnd
    <3> QED BY <2>1, <3>1 DEF VerifyStatus, VerifyActive, VerifyComplete, VerifyCancelled,
                              VerifySourceLimit, VerifyWorkLimit, StreamStatus
  <2> QED BY <2>1, <2>2 DEF Solid
<1> QED BY <1>1, RunInvariant, PTL

\* Every checkpoint is within the budget it names.
THEOREM BudgetsAreKept == Spec => []WithinBudget
<1>1. RunInv => WithinBudget
  BY HeldAreSane DEF WithinBudget, Sane, Solid
<1> QED BY <1>1, RunInvariant, PTL

\* A cancellation lets at most one more chunk be committed.
THEOREM CancellationIsPrompt == Spec => []CancelIsPrompt
<1>1. RunInv => CancelIsPrompt
  BY DEF RunInv, CancelPoint, CancelIsPrompt
<1> QED BY <1>1, RunInvariant, PTL

-----------------------------------------------------------------------------
(* A durable run implements DurablePrefix.                                 *)

\* The next source of a single entry is that of its checkpoint.
LEMMA NextSourceOfEntry ==
  ASSUME NEW p, NEW data PROVE NextSource({Entry(p, data)}) = p.next_source
<1>1. (CHOOSE f \in {Entry(p, data)} : TRUE) = Entry(p, data)
  OBVIOUS
<1> QED BY <1>1 DEF NextSource, Entry

\* The initial states map to initial states of DurablePrefix.
LEMMA InitRefines == Init => DP!Init
<1> SUFFICES ASSUME Init PROVE DP!Init
  OBVIOUS
<1>1. NextSource({}) = 0
  BY DEF NextSource
<1>2. portable.next_source = 0
  BY DEF Init, NewCheckpoint
<1> QED BY <1>1, <1>2 DEF Init, DP!Init

\* Every step maps to a step of DurablePrefix or to a stutter.
LEMMA StepRefines ==
  ASSUME RunInv, RunInv', [Next]_vars PROVE [DP!Next]_(DP!dvars)
<1> DEFINE saved == NextSource(file)
           safe == {NextSource(left) : left \in survivors}
<1>0. portable \in Checkpoints /\ portable' \in Checkpoints
  BY DEF RunInv, TypeOK
<1>1. CASE UNCHANGED vars
  BY <1>1 DEF DP!dvars, vars, stream, disk
<1>2. CASE WriteTemp \/ FlushTemp \/ WriteFails \/ FailChunk \/ Cancel \/ RunAgain
  <2>1. /\ portable' = portable /\ file' = file /\ survivors' = survivors
        /\ pc # "no_process" /\ pc' # "no_process"
    BY <1>2 DEF WriteTemp, FlushTemp, WriteFails, FailChunk, Cancel, RunAgain, ChunkFailed,
                stream, disk
  <2> QED BY <2>1 DEF DP!dvars
<1>3. CASE Replace
  <2>1. /\ file' = {Entry(portable, "flushed")}
        /\ survivors' = survivors \cup {file'}
        /\ pc # "no_process" /\ pc' # "no_process" /\ portable' = portable
    BY <1>3 DEF Replace, RunInv, WritePoint, stream
  <2>2. saved' = portable.next_source
    BY <2>1, NextSourceOfEntry
  <2>3. safe' = safe \cup {saved'}
    BY <2>1
  <2> QED BY <2>1, <2>2, <2>3 DEF DP!Save, DP!Next
<1>4. CASE SyncDirectory
  <2>1. /\ file' = file /\ portable' = portable
        /\ survivors' = {file} \/ survivors' = survivors
        /\ pc # "no_process" /\ pc' # "no_process"
    BY <1>4 DEF SyncDirectory, stream
  <2> QED BY <2>1 DEF DP!Secure, DP!Next, DP!dvars
<1>5. CASE Boundary
  <2>1. /\ file' = file /\ survivors' = survivors
        /\ portable'.next_source = portable.next_source
        /\ pc # "no_process" /\ pc' # "no_process"
    BY <1>0, <1>5 DEF Boundary, AtBoundary, disk, Checkpoints
  <2> QED BY <2>1 DEF DP!dvars
<1>6. CASE ComputeChunk
  <2>1. /\ file' = file /\ survivors' = survivors
        /\ pc = "compute" /\ pc' = "write"
        /\ file = {Entry(portable, "flushed")}
    BY <1>6 DEF ComputeChunk, RunInv, WritePoint, disk
  <2>2. saved = portable.next_source
    BY <2>1, NextSourceOfEntry
  <2>3. CASE CutOverWork
    <3>1. portable'.next_source = portable.next_source
      BY <1>0, <2>3 DEF CutOverWork, Checkpoints
    <3> QED BY <2>1, <3>1 DEF DP!dvars
  <2>4. CASE CommitNextChunk
    <3>1. portable'.next_source > portable.next_source
      BY <1>0, <2>1, <2>4, CommitIsSane
         DEF CommitNextChunk, RunInv, Sane, ComputePoint, TypeOK
    <3>2. portable'.next_source \in Nat
      BY <1>0 DEF Checkpoints
    <3> QED BY <2>1, <2>2, <3>1, <3>2 DEF DP!Compute, DP!Next
  <2> QED BY <1>6, <2>3, <2>4 DEF ComputeChunk
<1>7. CASE StartAgain
  <2>1. /\ pc = "no_process" /\ pc' = "write" /\ file = {}
        /\ file' = file /\ survivors' = survivors
        /\ portable'.next_source = 0
    BY <1>7 DEF StartAgain, Begin, NewCheckpoint, disk
  <2>2. saved = 0
    BY <2>1 DEF NextSource
  <2> QED BY <2>1, <2>2 DEF DP!dvars
<1>8. CASE Resume
  <2>1. PICK f \in file, budget \in Budgets, flag \in BOOLEAN :
          Begin(Resumed(f.checkpoint, budget, flag), flag)
    BY <1>8 DEF Resume
  <2>2. PICK p \in Checkpoints : file = {Entry(p, "flushed")}
    BY <2>1 DEF RunInv, FilesAreSane, SaneFile
  <2>3. f.checkpoint = p /\ saved = p.next_source
    <3>1. Entry(p, "flushed").checkpoint = p
      BY DEF Entry
    <3>2. f = Entry(p, "flushed")
      BY <2>1, <2>2
    <3> QED BY <2>2, <3>1, <3>2, NextSourceOfEntry
  <2>4. /\ pc' = "write" /\ file' = file /\ survivors' = survivors
        /\ portable' = Resumed(p, budget, flag)
    BY <2>1, <2>3 DEF Begin, disk
  <2>5. portable'.next_source = p.next_source
    BY <2>4 DEF Resumed, AtBoundary, Checkpoints
  <2> QED BY <2>3, <2>4, <2>5 DEF DP!Restart, DP!Next
<1>9. CASE Crash
  <2>1. pc' = "no_process" /\ file' = file /\ survivors' = survivors
    BY <1>9 DEF Crash, LoseMemory
  <2> QED BY <2>1 DEF DP!Restart, DP!Next
<1>10. CASE LosePower
  <2>1. PICK left \in survivors : file' = left /\ survivors' = {left}
    BY <1>10, SurvivorIsWhole
  <2>2. pc' = "no_process"
    BY <1>10 DEF LosePower, LoseMemory
  <2>3. /\ NextSource(left) \in safe /\ saved' = NextSource(left)
        /\ safe' = {NextSource(left)}
    BY <2>1
  <2> QED BY <2>2, <2>3 DEF DP!LosePower, DP!Next
<1> QED BY <1>1, <1>2, <1>3, <1>4, <1>5, <1>6, <1>7, <1>8, <1>9, <1>10 DEF Next, Driver

\* Through failed writes, crashes, losses of power, retries and resumes, the rows in
\* memory and in the file move as DurablePrefix allows: at most one chunk is unsaved.
THEOREM ImplementsDurablePrefix == Spec => RefinesDurablePrefix
<1>1. Init => DP!Init
  BY InitRefines
<1>2. RunInv /\ RunInv' /\ [Next]_vars => [DP!Next]_(DP!dvars)
  BY StepRefines
<1> QED BY <1>1, <1>2, RunInvariant, PTL DEF Spec, DP!Spec, RefinesDurablePrefix

=============================================================================
