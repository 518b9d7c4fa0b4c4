----------------------------- MODULE DurableRun -----------------------------
(***************************************************************************)
(* run_homological_stream and resume_homological_checkpoint (checkpoint.py) *)
(* over a homological stream: the checkpoint is written to its file before *)
(* the first chunk and after each one.  Writes can fail, the process can   *)
(* die, the machine can lose power, and a run is started again, in the     *)
(* same process or a new one, on the same path.                            *)
(*                                                                         *)
(* A file is a set of at most one entry; the empty set means there is none.*)
(***************************************************************************)
EXTENDS HomologicalStream

CONSTANT MaxStarts   \* bound of the model: runs started after the first
ASSUME StartsAssumption == MaxStarts \in Nat

VARIABLES
  pc,        \* where the process is in run_homological_stream
  temp,      \* the temporary file of _write_canonical_json
  file,      \* the entry under the path, as processes see it
  survivors, \* the files that a loss of power may leave
  starts     \* runs started after the first (bounded by MaxStarts)

disk == <<temp, file, survivors>>
vars == <<catalog, stream, pc, disk, starts>>

Running == pc \notin {"no_process", "stopped"}

Entry(p, data) == [checkpoint |-> p, data |-> data]

-----------------------------------------------------------------------------
(* _write_canonical_json: write, flush and fsync, replace, sync directory. *)

WriteTemp ==
  /\ pc = "write"
  /\ temp' = {Entry(portable, "buffered")}
  /\ pc' = "flush"
  /\ UNCHANGED <<catalog, stream, file, survivors, starts>>

\* mutant of FlushTemp: the data is not forced to the disk before the replace
FlushWithoutSync ==
  /\ pc = "flush"
  /\ pc' = "replace"
  /\ UNCHANGED <<catalog, stream, disk, starts>>

FlushTemp ==
  /\ pc = "flush"
  /\ temp' = {[t EXCEPT !.data = "flushed"] : t \in temp}
  /\ pc' = "replace"
  /\ UNCHANGED <<catalog, stream, file, survivors, starts>>

Replace ==
  /\ pc = "replace"
  /\ file' = temp
  /\ survivors' = survivors \cup {temp}
  /\ temp' = {}
  /\ pc' = "sync"
  /\ UNCHANGED <<catalog, stream, starts>>

\* an error of the directory's fsync is swallowed; the loop goes on while active
SyncDirectory ==
  /\ pc = "sync"
  /\ survivors' \in {{file}, survivors}
  /\ pc' = IF portable.status.kind = "active" THEN "boundary" ELSE "stopped"
  /\ UNCHANGED <<catalog, stream, temp, file, starts>>

\* mutant of WriteFails: an error of the write is swallowed and the loop goes on
WriteFailureSwallowed ==
  /\ pc \in {"write", "flush", "replace", "sync"}
  /\ temp' = {}
  /\ pc' = IF portable.status.kind = "active" THEN "boundary" ELSE "stopped"
  /\ UNCHANGED <<catalog, stream, file, survivors, starts>>

\* an OSError, or an interrupt at any step: the temporary file is removed, the error raised
WriteFails ==
  /\ pc \in {"write", "flush", "replace", "sync"}
  /\ temp' = {}
  /\ pc' = "stopped"
  /\ UNCHANGED <<catalog, stream, file, survivors, starts>>

-----------------------------------------------------------------------------
(* advance: next_chunk without the interpreter lock.                       *)

\* the flag is read here, before the chunk is computed
Boundary ==
  /\ pc = "boundary"
  /\ portable' = AtBoundary(portable, cancelled)
  /\ pc' = IF portable'.status.kind = "active" THEN "compute" ELSE "write"
  /\ UNCHANGED <<catalog, cancelled, late, disk, starts>>

ComputeChunk ==
  /\ pc = "compute"
  /\ CutOverWork \/ CommitNextChunk
  /\ pc' = "write"
  /\ UNCHANGED <<disk, starts>>

\* mutant of FailChunk: the loop tries the failed chunk again
RetryFailedChunk ==
  /\ pc = "compute"
  /\ ChunkFailed
  /\ pc' = "boundary"
  /\ UNCHANGED <<disk, starts>>

\* the error is raised; the stream stays active
FailChunk ==
  /\ pc = "compute"
  /\ ChunkFailed
  /\ pc' = "stopped"
  /\ UNCHANGED <<disk, starts>>

-----------------------------------------------------------------------------
(* The caller, the canceller and the machine.                              *)

Cancel ==
  /\ pc # "no_process" /\ ~cancelled
  /\ cancelled' = TRUE
  /\ UNCHANGED <<catalog, portable, late, pc, disk, starts>>

\* a run on a stream: the caller's control may be cancelled already
Begin(p, flag) ==
  /\ starts < MaxStarts
  /\ starts' = starts + 1
  /\ portable' = p
  /\ cancelled' = flag
  /\ late' = 0
  /\ pc' = "write"
  /\ UNCHANGED <<catalog, disk>>

\* a process finds no checkpoint and starts from the census
StartAgain ==
  /\ pc = "no_process"
  /\ file = {}
  /\ \E capacity \in Capacities, budget \in Budgets, flag \in BOOLEAN :
       Begin(NewCheckpoint(capacity, budget), flag)

\* the same process runs the stream it still has again, after an error or a return
RunAgain ==
  /\ pc = "stopped"
  /\ starts < MaxStarts
  /\ starts' = starts + 1
  /\ pc' = "write"
  /\ UNCHANGED <<catalog, stream, disk>>

(***************************************************************************)
(* resume_homological_checkpoint with source and output the same path.  A  *)
(* checkpoint that verification or the new budget refuses changes nothing  *)
(* and is no step of the model.                                            *)
(***************************************************************************)
Resume ==
  /\ ~Running
  /\ \E f \in file, budget \in Budgets, flag \in BOOLEAN :
       /\ f.data # "torn"
       /\ VerifyPortable(f.checkpoint)
       /\ ResumeAdmits(f.checkpoint, budget)
       /\ Begin(Resumed(f.checkpoint, budget, flag), flag)

\* memory is gone (portable is a placeholder) and nothing refers to a temporary file
LoseMemory ==
  /\ pc' = "no_process"
  /\ portable' = NewCheckpoint(portable.capacity, portable.budget)
  /\ cancelled' = FALSE
  /\ late' = 0
  /\ temp' = {}
  /\ UNCHANGED <<catalog, starts>>

Crash == pc # "no_process" /\ LoseMemory /\ UNCHANGED <<file, survivors>>

\* data that was never flushed may be torn
LosePower ==
  /\ LoseMemory
  /\ \E left \in survivors, data \in {"flushed", "torn"} :
       /\ data = "torn" => \E f \in left : f.data = "buffered"
       /\ file' = {[f EXCEPT !.data = IF @ = "torn" THEN "torn" ELSE data] : f \in left}
  /\ survivors' = {file'}

-----------------------------------------------------------------------------

Init ==
  /\ catalog \in Catalogs
  /\ \E capacity \in Capacities, budget \in Budgets :
       portable = NewCheckpoint(capacity, budget)
  /\ cancelled \in BOOLEAN
  /\ late = 0
  /\ pc = "write"
  /\ temp = {} /\ file = {} /\ survivors = {{}}
  /\ starts = 0

Driver ==
  \/ WriteTemp \/ FlushTemp \/ Replace \/ SyncDirectory \/ WriteFails
  \/ Boundary \/ ComputeChunk \/ FailChunk

Next ==
  \/ Driver
  \/ Cancel \/ StartAgain \/ RunAgain \/ Resume \/ Crash \/ LosePower

\* a run occupies its process until it returns or raises
Fairness == WF_vars(Driver)

Spec == Init /\ [][Next]_vars /\ Fairness

-----------------------------------------------------------------------------
(* Properties.                                                             *)

StatusKinds == {"active", "complete", "cancelled", "source_limit", "work_limit"}

Checkpoints ==
  [capacity : Capacities, budget : Budgets, next_source : Nat, rows : Seq(Nat),
   work : [chunks : Nat, sources : Nat, units : Nat, peak_live_sources : Nat],
   chunk_sizes : Seq(Nat), status : [kind : StatusKinds, limit : Nat]]

Entries == [checkpoint : Checkpoints, data : {"buffered", "flushed", "torn"}]

\* Every variable keeps its type.
TypeOK ==
  /\ catalog \in Catalogs
  /\ portable \in Checkpoints
  /\ cancelled \in BOOLEAN
  /\ late \in Nat
  /\ pc \in {"no_process", "stopped", "write", "flush", "replace", "sync", "boundary",
             "compute"}
  /\ temp \subseteq Entries /\ file \subseteq Entries
  /\ survivors \subseteq SUBSET Entries
  /\ starts \in Nat

Surviving == file \cup UNION survivors

\* No failure, whether of a write, the process or the power, leaves a torn file.
FileIsNeverTorn == \A f \in Surviving : f.data # "torn"

\* Whatever failed and whenever, the verifier accepts the checkpoint in the file: its
\* chunks replay, and its status is the one its budget and its prefix call for.
FileAlwaysVerifies == \A f \in Surviving : VerifyPortable(f.checkpoint)

HeldCheckpoints == {portable} \cup {f.checkpoint : f \in Surviving}

\* Chunk sizes, cuts, budgets and resumes leave no trace in the results: a checkpoint has
\* the rows of its first next_source sources in census order, at the same price each.
RowsAreTheCatalogPrefix ==
  \A p \in HeldCheckpoints :
    /\ p.next_source <= catalog.total
    /\ p.rows = ChunkRows(0, p.next_source)
    /\ p.work.units = UnitsPerSource * p.next_source
    /\ p.status.kind = "complete" <=> p.next_source = catalog.total

\* No checkpoint is over the budget it names, also after a resume with a smaller one.
WithinBudget ==
  \A p \in HeldCheckpoints :
    /\ p.next_source <= p.budget.max_sources
    /\ p.work.units <= p.budget.max_work_units

\* A cancellation lets at most the chunk under way be committed.
CancelIsPrompt == late <= 1

NextSource(files) == IF files = {} THEN 0 ELSE (CHOOSE f \in files : TRUE).checkpoint.next_source

DP == INSTANCE DurablePrefix
        WITH live <- IF pc = "no_process" THEN NextSource(file) ELSE portable.next_source,
             saved <- NextSource(file),
             safe <- {NextSource(left) : left \in survivors}

\* At most the chunk in memory is ever unsaved, and every restart goes on from the file.
RefinesDurablePrefix == DP!Spec

\* Every run returns or raises.
RunReturns == Running ~> ~Running

=============================================================================
