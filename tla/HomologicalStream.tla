------------------------- MODULE HomologicalStream -------------------------
(***************************************************************************)
(* The durable homological stream (batch_stream/portable.rs and            *)
(* portable_verify.rs): one row per representative of a complete census,   *)
(* computed in chunks, each committed whole to a checkpoint that is cut by *)
(* a cancellation or a budget, verified from nothing and resumed.          *)
(*                                                                         *)
(* This module has the stream object and the verifier; DurableRun drives   *)
(* them and keeps the checkpoint in a file.                                *)
(***************************************************************************)
EXTENDS Integers, Sequences

CONSTANTS Catalogs,     \* the representatives a census offers, and those that fail
          Capacities,   \* HomologicalBatchStreamLimits::capacity of a configuration
          Budgets       \* the HomologicalStreamBudgets a caller may pass

ASSUME StreamAssumption ==
  /\ Catalogs \subseteq [total : Nat \ {0}, failing : SUBSET Nat]
  /\ Capacities \subseteq Nat \ {0}
  /\ Budgets \subseteq [max_sources : Nat, max_work_units : Nat]

VARIABLES
  catalog,      \* the census under the stream
  portable,     \* the checkpoint the stream holds in memory
  cancelled,    \* the cancellation flag of the stream's control
  late          \* history: chunks committed since the flag was set

stream == <<portable, cancelled, late>>

-----------------------------------------------------------------------------
(* Checkpoints.                                                            *)

\* primitive_units of one self-pair: a resolution, a cover, two Hom spaces, an Ext table
UnitsPerSource == 5

StreamStatus(kind, limit) == [kind |-> kind, limit |-> limit]
Active == StreamStatus("active", 0)

NoWork == [chunks |-> 0, sources |-> 0, units |-> 0, peak_live_sources |-> 0]

NewCheckpoint(capacity, budget) ==
  [capacity |-> capacity, budget |-> budget, next_source |-> 0, rows |-> <<>>,
   work |-> NoWork, chunk_sizes |-> <<>>, status |-> Active]

Larger(a, b) == IF a >= b THEN a ELSE b
Smaller(a, b) == IF a <= b THEN a ELSE b

AddChunk(work, sources) ==
  [chunks |-> work.chunks + 1,
   sources |-> work.sources + sources,
   units |-> work.units + UnitsPerSource * sources,
   peak_live_sources |-> Larger(work.peak_live_sources, sources)]

\* the sources left in the budget, saturating
Remaining(p) ==
  IF p.next_source <= p.budget.max_sources
  THEN p.budget.max_sources - p.next_source ELSE 0

ChunkCount(p) ==
  Smaller(Smaller(p.capacity, Remaining(p)), catalog.total - p.next_source)

ChunkFails(first, count) == \E s \in catalog.failing : s \in first .. first + count - 1

\* mutant of ChunkRows: rows carry their index in the chunk
ChunkRowsLocal(first, count) == [i \in 1 .. count |-> i - 1]

\* a row is named by its source; the rest of it is a function of the source
ChunkRows(first, count) == [i \in 1 .. count |-> first + i - 1]

-----------------------------------------------------------------------------
(* next_chunk and resume.                                                  *)

AtEnd(p) == p.next_source >= catalog.total
AtSourceLimit(p) == p.next_source >= p.budget.max_sources
AtWorkLimit(p) == p.work.units >= p.budget.max_work_units

\* mutant of BoundaryStatus: the work budget is looked at before the source budget
BoundaryStatusWorkFirst(p) ==
  CASE AtEnd(p) -> StreamStatus("complete", 0)
    [] ~AtEnd(p) /\ AtWorkLimit(p) ->
         StreamStatus("work_limit", p.budget.max_work_units)
    [] ~AtEnd(p) /\ ~AtWorkLimit(p) /\ AtSourceLimit(p) ->
         StreamStatus("source_limit", p.budget.max_sources)
    [] OTHER -> p.status

\* set_boundary_status, and boundary_step after its look at the flag
BoundaryStatus(p) ==
  CASE AtEnd(p) -> StreamStatus("complete", 0)
    [] ~AtEnd(p) /\ AtSourceLimit(p) ->
         StreamStatus("source_limit", p.budget.max_sources)
    [] ~AtEnd(p) /\ ~AtSourceLimit(p) /\ AtWorkLimit(p) ->
         StreamStatus("work_limit", p.budget.max_work_units)
    [] OTHER -> p.status

\* mutant of AtBoundary: the flag is not looked at between chunks
AtBoundaryDeaf(p, flag) == [p EXCEPT !.status = BoundaryStatus(p)]

\* boundary_step: the checkpoint as it stands before the next chunk
AtBoundary(p, flag) ==
  [p EXCEPT !.status = IF flag THEN StreamStatus("cancelled", 0) ELSE BoundaryStatus(p)]

CommitChunk(p, count) ==
  [p EXCEPT !.next_source = p.next_source + count,
            !.rows = p.rows \o ChunkRows(p.next_source, count),
            !.work = AddChunk(p.work, count),
            !.chunk_sizes = Append(p.chunk_sizes, count)]

WithBoundaryStatus(p) == [p EXCEPT !.status = BoundaryStatus(p)]

OverWork(p) == AddChunk(p.work, ChunkCount(p)).units > p.budget.max_work_units

Failing(p) == ChunkFails(p.next_source, ChunkCount(p))

\* the three ends of compute_chunk
CutOverWork ==
  /\ ~Failing(portable) /\ OverWork(portable)
  /\ portable' = [portable EXCEPT !.status =
                    StreamStatus("work_limit", portable.budget.max_work_units)]
  /\ UNCHANGED <<catalog, cancelled, late>>

CommitNextChunk ==
  /\ ~Failing(portable) /\ ~OverWork(portable)
  /\ portable' = WithBoundaryStatus(CommitChunk(portable, ChunkCount(portable)))
  /\ late' = IF cancelled THEN late + 1 ELSE 0
  /\ UNCHANGED <<catalog, cancelled>>

ChunkFailed == Failing(portable) /\ UNCHANGED <<catalog, stream>>

\* mutant of ResumeAdmits: the ceilings are not compared with what was committed
ResumeAdmitsAny(p, budget) == p.status.kind # "complete"

\* a complete checkpoint cannot resume, nor one above the new ceilings
ResumeAdmits(p, budget) ==
  /\ p.status.kind # "complete"
  /\ budget.max_sources >= p.next_source
  /\ budget.max_work_units >= p.work.units

Resumed(p, budget, flag) ==
  AtBoundary([p EXCEPT !.budget = budget, !.status = Active], flag)

-----------------------------------------------------------------------------
(* verify_portable: replay of every stored chunk, then the status.         *)

\* the sources covered by the first i chunks
Covered(sizes) ==
  LET sum[i \in 0 .. Len(sizes)] == IF i = 0 THEN 0 ELSE sum[i - 1] + sizes[i]
  IN sum

RebuiltWork(sizes) ==
  LET work[i \in 0 .. Len(sizes)] ==
        IF i = 0 THEN NoWork ELSE AddChunk(work[i - 1], sizes[i])
  IN work[Len(sizes)]

VerifyPrefix(p) ==
  /\ p.next_source <= catalog.total
  /\ Len(p.rows) = p.next_source
  /\ p.work.sources = p.next_source
  /\ Len(p.chunk_sizes) = p.work.chunks
  /\ \A i \in 1 .. Len(p.chunk_sizes) : p.chunk_sizes[i] \in 1 .. p.capacity
  /\ LET covered == Covered(p.chunk_sizes) IN
     /\ covered[Len(p.chunk_sizes)] = p.next_source
     /\ \A i \in 1 .. Len(p.chunk_sizes) :
          /\ ~ChunkFails(covered[i - 1], p.chunk_sizes[i])
          /\ SubSeq(p.rows, covered[i - 1] + 1, covered[i])
               = ChunkRows(covered[i - 1], p.chunk_sizes[i])
  /\ p.work = RebuiltWork(p.chunk_sizes)

VerifyActive(p) ==
  /\ p.status.kind = "active"
  /\ ~AtEnd(p)
  /\ p.next_source = 0 \/ (~AtSourceLimit(p) /\ ~AtWorkLimit(p))

VerifyComplete(p) == p.status.kind = "complete" /\ p.next_source = catalog.total

VerifyCancelled(p) == p.status.kind = "cancelled" /\ ~AtEnd(p)

VerifySourceLimit(p) ==
  /\ p.status = StreamStatus("source_limit", p.budget.max_sources)
  /\ p.next_source = p.budget.max_sources
  /\ ~AtEnd(p)

\* the budget is used up, or the chunk that would come next goes over it
VerifyWorkLimit(p) ==
  /\ p.status = StreamStatus("work_limit", p.budget.max_work_units)
  /\ ~AtEnd(p) /\ ~AtSourceLimit(p)
  /\ \/ p.work.units = p.budget.max_work_units
     \/ p.work.units < p.budget.max_work_units /\ ~Failing(p) /\ OverWork(p)

VerifyStatus(p) ==
  \/ VerifyActive(p) \/ VerifyComplete(p) \/ VerifyCancelled(p)
  \/ VerifySourceLimit(p) \/ VerifyWorkLimit(p)

VerifyPortable(p) == VerifyPrefix(p) /\ VerifyStatus(p)

=============================================================================
