# Formal models of Auslander

Auslander is an exact workbench for finite-dimensional algebras over prime fields: a Rust
library, Python bindings with a workflow layer, a command line and a browser page that
replays artifacts. Most of its code is pure algebra. The part that a model checker can say
something about is the part that keeps state over time: bounded computations that can be
cut, cancelled, fail, be stored, verified by replay and resumed; the files and event loops
around them; and the walks over graphs of modules and complexes.

This directory holds TLA+ models of that part, the TLC configurations that check them on
small instances, and theorems about them that TLAPS proves for every value of the constants.
Eight components are modelled: the **census engine**, the **durable homological stream**
with its file protocol, the **browser verifier**, the **tilting mutation discovery** and the
**derived classification** built on it, the **support tau-tilting walk**, the **verification
memo** and the **noncommutative completion** with the verifier of its certificates. What is left is in sections 2 and 6.

To run everything, from this directory:

    tlc -config MCCensus.cfg MCCensus                 # and so on, one per .cfg
    tlapm CensusProofs.tla                            # and the other proof modules

## 1. Inventory

Paths are relative to the repository. "Engine" components keep state between steps; "pure"
ones compute a value from a value.

| Component | State | Operations | Models |
|---|---|---|---|
| Census engine (`crates/auslander/src/census/`) | `CensusState`: limits, cursor, five counters, representatives, assignments; the control's cancel flag and progress snapshot | enumerate, cancel, progress, `verify`, `resume` | `Census` |
| Portable census (`census/portable*.rs`) | none beyond the checkpoint | parse, verify by replay, resume | resume and replay in `Census` |
| Durable homological stream (`batch_stream/portable*.rs`, Python `checkpoint.py`) | portable checkpoint (next source, rows, chunk sizes, work, status); the file under a path | advance, cancel, write, load, verify, resume | `HomologicalStream`, `DurableRun` |
| In-memory homological stream (`batch_stream/stream.rs`) | cursor and work of an iterator | next | its chunk, in `HomologicalStream` |
| Browser verifier (`web/page.js`, `worker.js`, `verify.js`) | the run awaited, the result section, render generation; the worker's queue and module | choose, paste, cancel, message and file-read continuations | `BrowserVerifier` |
| Tilting mutation discovery (`equivalence_discovery.rs`) | vertices, edges, blockers, buckets, frontier, counters; the control's flag and progress | breadth-first walk, cancel, `verify` | `EquivalenceDiscovery` |
| Derived classification (`derived_classification.rs`, `stages.rs`) | invariants, union-find with its merges, finished walks | invariants, duplicates, walks and merges, cancel, verify | `DerivedClassification` |
| Support tau-tilting walk (`taugraph/walk/`) | vertices with slot records, mutations, queue, registry, work ledger | walk, four budgets, closure recheck | `TauGraphWalk` |
| Noncommutative completion (`completion/`) | basis with origins, ambiguity queue, work units | complete, interreduce, emit a certificate | `Completion` |
| Certificate verifier (`verify/`) | none | verify a certificate from nothing but itself | `CertificateVerifier` |
| Verification memo (`context.rs`) | once cells by key, hit and miss counters | get or compute, from several threads | `VerificationMemo` |
| Workflow and sessions (Python `workflow.py`, `session.py`) | stage files | run stages in order | stage I/O is that of `DurableRun`; staged resume planned |
| Portable artifacts, catalogs and atlases | immutable values | parse, replay, render | pure; not modelled |
| Algebras and modules, homological algebra, representation theory | none | exact linear algebra | pure; not modelled |
| Command line, Python bindings | none | conversion, one library call | not modelled |

**How they interact.** A census is run by its caller's thread; another thread shares only the
`ComputationControl` (a cancel flag and a progress snapshot). `verify` runs the same loop
again with a control of its own, so a replay is a second run beside what the caller holds. A
stream advances chunk by chunk without the interpreter lock, so a Python thread can cancel
it inside `advance()`; the Python driver writes the checkpoint to its path before the first chunk and
after each one, and a resume reads that path in the same process or a later one. The page
and its worker share no memory: requests and answers are messages, and a file is read with
an `await` on both sides of which other events run. A classification calls the discovery
walk, which calls the algebra; a workflow calls a census, a catalog and a stream in order.

**What is hard.**

* A cut may fall in the middle of a candidate that is already charged; a failure must give
  its charges back; a resume goes on under other ceilings than those the prefix was built with.
* The verifier does not check a stored prefix by looking at it but by replaying it, under
  limits it derives from the outcome. It must accept exactly what the engine produces.
* A process or the power can fail between any two of write, fsync, rename and directory
  fsync, a write can fail after the chunk it saves was computed, and the caller can try again.
* Answers of a terminated worker, reads that finish after the page has moved on, and cancels
  that race with them.
* Keys that are invariants and not identities, work ledgers with reserves, and verdicts that
  must not be derived from a truncated search (the walks).

**What makes each component correct** is listed in section 3, property by property.

The hazards behind these properties, each at its source line, are in `PROJECT.json` under
`hazards`, with the properties that would catch them.

## 2. Plan

Done, in this order, because checkpoints are what the other parts rely on:

1. `CensusDomain`, `Census`; abstract specification `FirstSeen`; proofs.
2. `HomologicalStream`, and `DurableRun` composing it with driver, file system and
   crashes; abstract specification `DurablePrefix`; proofs.
3. `BrowserVerifier`; proofs.

4. `EquivalenceDiscovery`, the walk over an abstract mutation graph; proofs.
5. `DerivedClassification` on walks seen from outside; abstract specification
   `DerivedPartition`; proofs.
6. `TauGraphWalk`, with the two findings on what its documentation promises; proofs.
7. `VerificationMemo`; proofs.
8. `PathAlgebra`, `NormalWords`, `Completion`, and the verifier of its certificates,
   `CertificateVerifier`; proofs.

Left:

9. The in-memory stream with its cut before a chunk, and the staged resume of a workflow,
   which composes a census, a catalog and a stream.

## 3. The models

### 3.1 Census (`CensusDomain`, `Census`, `FirstSeen`)

**Domain.** A candidate is its index. `CensusDomain` gives for each candidate what
construction returns (`build`: a module, `relation_acts_nonzero`, or an error) and its
isomorphism class, and for each pair what `is_isomorphic` answers (`compare`). The assumption
`CertifiedComparison` is what `iso.rs` certifies: "isomorphic" and "not isomorphic" are true;
"unknown" and "error" may be anything. An error of construction is any other `ModuleError`.

**State and actions.** The variables carry the names of `CensusState` and of the locals of
`enumerate_state` and `classify_candidate`. Each action is one branch of that loop, with the
guards in the order of the code: the cancel flag, `CutAtCandidateLimit`, `CutAtCandidateWork`,
`RejectCandidate`, `FailConstruction`, `BeginComparisons`; then, for each representative,
`CutAtIsomorphismLimit`, `CutAtIsomorphismWork`, `FailComparison`, `NextRepresentative`,
`CutAtUnknown`, `AssignDuplicate` / `DropDuplicate` / `CutAtAssignmentLimit`; and after the
last, `CutAtRepresentativeLimit` or `KeepRepresentative`. `saved` is `work_before` and `checks_before`,
to which an error rolls back. `purpose` tells a run from a replay: `Verify` starts the
loop again on an empty state with the limits of `ReplayLimits`, and the comparison of
`same_replay_data` is in the action that ends the replay (`ReplayAccepts`). `Resume` loads a
verified cut, with its limits replaced. `Cancel` is another thread, at any time.
`progress` is the snapshot that a polling thread reads. Three history variables (`resumes`, `redone`, `lowered`)
count resumes, candidates charged twice, and ceilings lowered below what was committed.

**Properties** (run `census`).

* `CountersDescribeRecords`: the counters are those `verify_state_data` recomputes.
* `PrefixIsClassified`: the committed prefix is classified as if classes were known: the
  representatives are the first modules of their class, in order, every assignment is right
  and none is missing.
* `WorkLedger`: each work unit is one candidate or one comparison; the surplus is exactly
  the candidate in progress and what a resume charged twice.
* `CeilingsHold`: five ceilings, unless a resume lowered one below the committed state.
* `VerdictIsExact`: `verify()` accepts an outcome exactly when no candidate was
  charged twice and the limits of the replay admit it. This is the round trip of the
  component: every outcome of a fresh run, cut, cancelled or failed, verifies.
* `ProgressIsAccounted`: while no cut has left a candidate unfinished, progress is exactly the
  work that the committed prefix needs (its candidates and `Comparisons`, counted without the
  loop), through comparisons, rollbacks and replays. A cut in the middle of a candidate publishes that
  candidate's charges as well (`engine.rs:82`), and a resume keeps them: every abandoned
  candidate adds its unit and at most one comparison with each representative.
  "complete" is only shown of a complete census.
* `ChecksAreNecessary`: the number of comparisons is the number the classification needs,
  computed in `CensusDomain` (`Modules`, `Firsts`, `Comparisons`) from the classes rather than
  from the loop.
* `RefinesFirstSeen`: the census implements `FirstSeen`, which classifies one candidate at a
  time in order and nothing else, under the mapping `done <- Committed.cursor`,
  `firsts <- Committed.representatives`. Cuts, failures, cancels, replays and resumes are
  stutters: the committed prefix never moves back.
* `EngineReturns`: every run and replay returns.

**Findings** (each a run that TLC ends with a counterexample).

* `census_resume_verify`: a census cut in the middle of a candidate keeps the candidate's
  charges (`census/engine.rs:81`), a resume charges it again, and the resumed outcome is
  rejected by its own `verify()`; `census/tests.rs:122` asserts the opposite of a resumed census, on
  a cut that falls on a candidate boundary. A resumed cut of this kind can not be resumed again.
* `census_resume_budget`: `docs/research-design.md:113` promises `ResumeBudget` for a
  ceiling below committed work; the census accepts it (`census/request.rs:62`).

**Bounds.** Five domains of one to five candidates: they contain a rejected candidate, both
duplicates and new classes after it, a second duplicate compared past the first
representative, an undecided comparison after a decided one, an error after a charged
comparison, an error of construction, and the one-candidate census. Eleven limit shapes under both
retentions put each ceiling at zero, inside a candidate, at a boundary, several at once, and out of
reach. Two resumes, so that a resumed cut is resumed. The loop treats every candidate alike, so
more candidates repeat these cases.

### 3.2 Durable homological stream (`HomologicalStream`, `DurableRun`, `DurablePrefix`)

**State and actions.** `HomologicalStream` is the checkpoint and its operators: the size of
the next chunk (`ChunkCount`), the ledger (`AddChunk`: five units per source), the status at a
boundary in the code's order (`BoundaryStatus`, `AtBoundary`), committing a chunk,
admission of a resume, and the verifier (`VerifyPortable`: the prefix rebuilt from the chunk
sizes, and the condition each of the five statuses must meet). A row is the index of its source; a
catalog is a number of sources and the set of those whose computation fails.

`DurableRun` is `checkpoint.py` around it. `pc` is the place of the driver: `WriteTemp`,
`FlushTemp` (fsync), `Replace`, `SyncDirectory`, then `Boundary` or `ComputeChunk` (or
`FailChunk`) and the next write. `WriteFails` is an exception at any of these steps: the temporary
file is removed and the error leaves the driver. `RunAgain` is a second
`run_homological_stream` on the same stream, `Resume` loads and verifies the file,
`StartAgain` starts a stream where there is no file. `Crash` ends the process; `LosePower`
also drops what no fsync made durable: `survivors` is the list of files that may be found
after it, every one since the last successful directory sync, and data not flushed is torn.
`Cancel` may come at any time, also during a chunk.

**Properties** (run `durable_run`).

* `FileIsNeverTorn`: no file that a process or a power loss may leave under the path is torn.
* `FileAlwaysVerifies`: and each of them passes the verifier, after every sequence of
  resumes under other budgets.
* `RowsAreTheCatalogPrefix`: rows are the sources `0, 1, 2, ...` with none lost, repeated or
  reordered, in memory and on disk.
* `WithinBudget`: a checkpoint never exceeds its own ceilings.
* `CancelIsPrompt`: at most the chunk under way is committed after a cancel.
* `RefinesDurablePrefix`: memory is at most one chunk ahead of the file, a restart goes on
  from the file, and a power loss returns to a checkpoint that was saved since the last
  directory sync. A run never computes on after a failed write.
* `RunReturns`: the driver ends.

**Simplifications.** The output path of a resume is its source path. A refused resume or verify is
not a step. The verifier's own size limits are taken as ample. Catalogs are not empty. An
orphaned temporary file has no effect on the path and is not tracked. The directory sync may
fail silently, as in `_sync_directory`. A stream is started afresh only where no file exists:
over an existing file it would overwrite it, as the code says. The file system is external:
rename is atomic for processes, and only fsync makes data or a rename survive a power loss.

**Bounds.** Three sources, and two of which the second fails; chunks of one or two; budgets of
zero sources, a source or work ceiling inside a chunk, both at once on a chunk boundary, and
ample; two further starts, so that a resume or retry of a resume happens. A crash, a failing
write or a power loss may strike at every step of each start.

### 3.3 Browser verifier (`BrowserVerifier`)

**State and actions.** Each action is one task of an event loop: an `await` ends an action.
On the page: `ChooseFile` and `VerifyPaste`, the continuation of a file read (`FileRead`,
`FileReadFails`), `Deliver` (the worker's message), `Cancel`, and the continuation of the read for
the class table (`AtlasRead`, `AtlasReadFails`). In the worker: `TakeRequest`,
`ModuleLoads`, `ModuleFails`, `Replay`. `Cancel` terminates the worker and starts a new one; what the old one
had posted may or may not still arrive. A file can be dropped during a run, since only the
file input is disabled then. `VerdictOf` is what the verifier says of each source. "At most
one" is written as a set with at most one element.

**Properties** (run `browser_verifier`).

* `VerdictIsOfItsSource`: a verdict that is shown is the verifier's answer for the source shown
  with it, never that of a source verified or cancelled before.
* `OneReplayAtATime`: no replay runs or waits except that of the run the page awaits.
* `TableIsOfTheResult`: a class table belongs to the atlas whose accepted verdict is shown.
* `ResultsFollowTheirRun`: the result section moves from a run to the next or from "running"
  to the outcome of the same run; an outcome is never overwritten by another of the same run.
* `EveryRunEnds`: the page does not wait for ever.

**Simplifications.** The scripts of the worker are taken to load (there is no `onerror`
handler; without the script the page waits until the user cancels, a hazard listed without a
property). A second read of a file gives the same bytes or fails, as the File API
says. A paste's own read is interleaved like any other, which allows more orders than the
microtask it is. A page reload is not modelled.

**Bounds.** Four runs and two reads of each file under way: enough for an answer of a
cancelled run to meet the next run and the one after it, for two reads to end during one
run, and for a class table to be late by two results. Sources: an accepted atlas, a cut atlas,
an accepted artifact of another kind, and a rejected text.

### 3.4 Tilting mutation discovery (`EquivalenceDiscovery`)

**State and actions.** A complex is the sequence of its indecomposable summands; two are
isomorphic when they have the same summands in any order, and a mutation path decides the
order. The algebra is given as data: complexes, which of them are tilting, their sizes, and
what every mutation answers under a tilting limit, a complex, "undetermined" or an error. The
variables are the fields of `DiscoveryContents` and the locals of the walk: `buckets`,
`frontier`, and `cursor`, the next attempt in the loops over vertices, directions and
summands. `StartWalk`, `RefuseRoot`, `BlockRoot`, `FailRoot` begin; `RefuseAttempt` is the check
before an attempt, `BeginAttempt` publishes the progress; an attempt ends as `Interrupt` (a
charge of the meter sees the flag: no trace is left), `FailAttempt`, `BlockAttempt`,
`MatchVertex` (an edge to a stored vertex), `RefuseVertex` (counted, and then stopped
by a storage ceiling) or `StoreVertex`. `Cancel` is another thread at any
time. `Verify` is `IncompleteEquivalenceGraph::verify`.

**Properties** (run `discovery`).

* `GraphIsExact`: stored vertices are pairwise not isomorphic although keys collide and the
  order of summands depends on the path, and an edge ends where its mutation leads.
* `ReturnedGraphVerifies`: whatever ended the walk, the graph passes its own verifier, also
  with an attempt that was counted and not kept.
* `ExhaustedIsReachable`: an exhausted frontier without an open blocker has found exactly the
  reachable complexes, defined independently of any walk as the least closed set.
* `EveryAttemptOnce`: wherever the walk is cut, exactly the attempts before its position are
  recorded, each in one edge or one blocker.

**Bounds.** A pentagon of complexes whose two sides meet in different summand orders, a twin with
the key of another complex, results that are silting and not tilting, and mutations that a tight
limit leaves open or that fail; each ceiling from zero past what the walk needs, both
classification goals.

### 3.5 Derived classification (`DerivedPartition`, `DerivedClassification`)

**State and actions.** A family is a number of members with their unknown derived class, the key
that indexes each, readings of their invariants (possibly stopped), Hochschild
dimensions up to the degree the bar limits allow, and the vertices that a walk from each
finds. Assumed is what mathematics gives: invariants of equivalent members agree where both
are finished, and the target of a tilting complex is equivalent to its source (Rickard).
Stages follow the code: `ComputeInvariants` per member, `MergeDuplicate` / `SkipOriginal`,
then for each member `SkipMember` (a duplicate, or no open partner) or `BeginWalk`; a walk
finds vertices one by one (`FindVertex`, `EndDiscovery`) and examines them (`ExamineAndMerge`,
`ExamineWithoutMerge`, `FailTarget`, `EndWalk`). A cancellation may fall between any two of these.
`root` is what the union-find answers for each member.

**Properties** (run `classification`).

* `VerdictsAreSound`: no run ends in the internal error of a contradiction, separated
  classes are not equivalent, and without unresolved pairs the classes are the derived classes.
* `ResultVerifies`: the partition, the spanning tree of merges of each class and the replay of
  each merge hold for every result.
* `OpenPairsWereWalked`: an unresolved pair was walked from every member that is not a
  duplicate, to the end unless cancelled, and no vertex of those walks settles it.
* `ClassesOnlyMerge`: the run implements `DerivedPartition`, which joins two classes of
  equivalent members at a time.

**Bounds.** Six members in three classes, one presented twice, three not gentle; four limits that
cut dimensions at different degrees, cut walks, and put a defect into a bar computation and
into a target recovery.

### 3.6 Support tau-tilting walk (`TauGraphWalk`)

**State and actions.** Modules are classes up to isomorphism; an algebra gives the support
tau-tilting pairs with the target of every slot, dimension vectors, fingerprints that may
collide, and the certifications that stay blocked. The charges are the formulas of
`accounting.rs`, so a budget cuts where it cuts in the code. `PushRoot`, then for each slot
of each vertex of the queue: `StopBeforeSlot` (the reservation, or the size of the Fac system),
`BlockSlot`, `RecordNoLeftMutation`, `StopAtMutations`, `RecordRepeatedEndpoint`,
`StopAtVertices`, `FailRebuild`, `BlockVertex`, `RecordNewVertex`; after a slot the ledger is tested
again. `Close` is the drained walk: the last test of the ledger, and the recheck of
`verify.rs`. The registry maps summand classes to indices through a search by dimension vector
and isomorphism.

**Properties** (run `taugraph`).

* `ClosedIsComplete`: a closed outcome lists every support tau-tilting pair once and
  stayed inside each budget.
* `NoDefect`: the recheck of a drained walk never fails.
* `DiagnosticsAreTrue`: the counters of a stopped walk are those of its partial graph, and open
  slots lie at the stop and in the frontier.
* `IndicesAreStable`: an index names one class of summands in all vertices and conversely.

**Assumptions.** `AlgebraAssumption` types an algebra: a pair has as many summands and killed
vertices together as the algebra has vertices, and each slot has a pair or nothing as its left
mutation. `OrderAssumption` is the order of the pairs, which the code never computes: the
regular pair is the greatest, a left mutation is strictly smaller, and what is smaller than a
pair is one of its left mutations or smaller than one of them. `taugraph.rs` cites this from
Adachi, Iyama and Reiten (Theorem 2.35(b)) as the reason why a closed walk is complete.
`RegularityAssumption` says that as many arrows end at a pair as it has slots without a left
mutation and killed vertices, which is what `n_regular` in `verify.rs` tests of a finished
graph. TLC evaluates all of them on the algebras of the run.

**Findings.**

* `taugraph_truncated`: the ledger is tested after the last slot and when the queue is
  empty, so a truncated set can be closed; `taugraph.rs:93` says it never is. The run asks it
  of walks that followed an edge, and finds the one-vertex algebra of `run.rs:24`: its
  only slot fits the budget, what is charged after it does not. The
  outcome is incomplete all the same: nothing false is claimed.
* `taugraph_blocked`: a certification that is blocked while the regular module or a
  rebuilt target is decomposed leaves as an error, and the partial graph is lost;
  `taugraph/walk/run.rs:98` and `contracts.rs:17` promise an incomplete outcome that keeps it.

**Simplifications.** A translate is charged as a miss of the cache exactly when the code computes
it first: for the replaced summand of a mutation and the summands of a pushed vertex.
On the graph of D_4 this rule gives the 200 misses that `taugraph.rs:113`
records. Fac-membership, approximations and rechecks of stored witnesses are constants.

**Bounds.** The algebra without vertices, the one-vertex algebra, linear A_2 and the
preprojective algebra of type A_2 (whose two projectives share a dimension vector), each budget
from zero to every point of the walk, and each place of a blocked certification. The algebra
without vertices is the one whose root is the zero pair; no budget of vertices cuts it, because
the root is pushed without a test of that budget.

### 3.7 Verification memo (`VerificationMemo`)

**State and actions.** `heap` gives the module at each address, `temp` the modules a thread
holds for a check; a key owns a clone of each module it names (`Kept`), so `Build` can only
take an address no key and no thread holds. A thread's calls of `get_or_compute` form a
stack: `FindCell` under the map lock, `CountRequest`, then `StartComputation` if the cell is
empty, or `ReadCell` once it is set; a computation may ask another memo first (`AskNested`)
and ends in `StoreResult`. Errors are results like others.

**Properties** (run `memo`).

* `EntriesAreCertified`: a stored result is the operation's answer for the modules its key
  names now, with addresses that are allocated again.
* `ComputedOnce`: a computation starts once, whichever threads ask for it and when.
* `EveryRequestReturns`: no computation waits for one that waits for it.

**Bounds.** Two threads, a stored module and an address for rebuilt ones, three contents over two
algebras with operations that fail, five memos of which two ask another, three requests.

### 3.8 Noncommutative completion (`PathAlgebra`, `NormalWords`, `CertificateVerifier`, `Completion`)

**State and actions.** This model computes: polynomials over a prime field are functions from
words to coefficients, origins the same over triples. `PathAlgebra` holds the order,
scaled sums, occurrences, ambiguities and their contexts; `NormalWords` the automaton of
`automaton.rs`, its pruning to live states, the cycle witness and the language. `Completion` is
`engine.rs`: `work` is the element under reduction and `phase` the loop it belongs to.
`Reduce` is one step of `reduce_full` (largest word, lowest element, leftmost occurrence);
`TakeRelation`, `KeepRelation`, `DropZero` build the initial basis; `StartRound` fills the queue,
`TakeAmbiguity` takes its least key, `KeepComposition` appends an element and queues its
pairs both ways; `Interreduce` drops redundant elements and sorts, `TakeTail` and `KeepTail`
reduce the rest by each other, and another round starts if one was dropped. Emission
reduces every relation and every ambiguity to zero, records the steps, and assembles the certificate
(`Emitted`) with the normal words in their order or a cycle. Each of the five budgets
truncates where the code tests it, with the diagnostics of `diag`.

`CertificateVerifier` is `verify/`, a function of the certificate (`Verdict`): the relation checks,
the reduced basis, the expansion of the origins, the replay of every trace, the ambiguities by its own
enumeration, its own automaton and cycle decision, the witness, and the normal words from a pruned
depth-first walk. It extends `PathAlgebra` and not `NormalWords`, as the code shares words,
paths and the field with the engine and writes the rest again.

**Properties** (run `completion`).

* `LeadsAreDistinct`: no two elements of the basis ever have the same leading word, which
  `interreduce` asserts: two that had would drop each other.
* `TracesEndInZero`: every relation and every ambiguity that is reduced for the certificate ends
  in zero, which `emit`'s helpers assert. That the queue has drained is the only reason why it should.
* `ReductionTouchesTails`: when tails are reduced, no leading word contains another one and the
  element keeps its leading word, as the comment on `interreduce` says, although the elements it is
  reduced by change one after the other.
* `CertificateHolds`: whatever certificate comes out satisfies the following.

What a certificate must satisfy: it

* is accepted by the verifier, as infinite dimensional exactly when it is
  (`tests/completion_verify.rs`);
* lists exactly the normal words, or has a prefix and a cycle whose repetitions are all normal. This is
  said of words and leading words, without an automaton;
* has an automaton of reachable states only. `longest_walks` needs the whole automaton to be
  acyclic and is called when its reachable part is;
* is rejected with any one part missing or wrong: a trace's last step or its coefficient, an ambiguity, an
  origin term, a transition, a normal word, the claim of finiteness. Without this a verifier that
  accepts everything would do.

**Simplifications.** The charges for normal words are taken in one step, with the count at which the
budget ends. Of the shortest words to the state of the cycle, the prefix is any one; the code
takes the first in its queue. Polynomials, states and transitions are stored as functions and sets, so
that the descending order of terms and the numbering of states are not compared; the
verifier's answer does not say which check failed. One thread works and shares nothing, so the model has no
interleavings: its breadth is in the presentations.

**Bounds.** Fourteen presentations, most from the repository's tests, each with thirty-two choices
of budgets from zero up; and over F_2 in two loops every pair of quadratic relations and
every monomial with every monomial or binomial of two or three letters. This family is wide enough to
contain the few presentations for which a composition queued one way only goes missing.

## 4. Fairness

* `Census`: `WF_vars(Engine)`. The enumeration runs on its caller's thread until it returns;
  nothing in it waits. Cancel, verify and resume are the caller's choice: no fairness.
* `DurableRun`: `WF_vars(Driver)`. A run occupies its process until it returns or raises. The
  starts, crashes and cancels are not fair.
* `VerificationMemo`: weak fairness of each thread's steps inside a call. A thread that waits for
  a cell has no step enabled; the waking of waiters by a once cell is what makes it
  fair afterwards. Making a request is not fair.
* `BrowserVerifier`: weak fairness of the worker's steps and of `Deliver`: an event loop runs
  the tasks queued for it. The user's events and file reads are not fair.
* The other modules state no fairness: they have no liveness property, and every walk is
  bounded by its limits.

## 5. What is proved

All for arbitrary constants that satisfy the assumptions named in the modules: every domain
whose comparison is certified, every set of limits, every catalog, capacity and budget, every
`VerdictOf`, every mutation graph, every family of algebras, any number of threads, every bound.

| Theorem | Module | Property |
|---|---|---|
| `TypeCorrect` | `CensusProofs` | |
| `CountersCorrect` | `CensusProofs` | `CountersDescribeRecords` |
| `ClassificationCorrect` | `CensusProofs` | `PrefixIsClassified` |
| `WorkIsAccounted` | `CensusProofs` | `WorkLedger` |
| `CeilingsAreKept` | `CensusProofs` | `CeilingsHold` |
| `ProgressIsHonest` | `CensusProofs` | `ProgressIsAccounted` |
| `VerdictsAreExact` | `CensusProofs` | `VerdictIsExact` |
| `OnlyNecessaryChecks` | `CensusProofs` | `ChecksAreNecessary` |
| `ImplementsFirstSeen` | `CensusProofs` | `RefinesFirstSeen` |
| `RunTypeCorrect` | `DurableRunProofs` | |
| `NeverTorn` | `DurableRunProofs` | `FileIsNeverTorn` |
| `FileVerifies` | `DurableRunProofs` | `FileAlwaysVerifies` |
| `RowsCorrect` | `DurableRunProofs` | `RowsAreTheCatalogPrefix` |
| `BudgetsAreKept` | `DurableRunProofs` | `WithinBudget` |
| `CancellationIsPrompt` | `DurableRunProofs` | `CancelIsPrompt` |
| `ImplementsDurablePrefix` | `DurableRunProofs` | `RefinesDurablePrefix` |
| `PageTypeCorrect` | `VerificationProofs` | |
| `VerdictsBelongToSources` | `VerificationProofs` | `VerdictIsOfItsSource` |
| `ReplaysAreSingle` | `VerificationProofs` | `OneReplayAtATime` |
| `TablesBelongToResults` | `VerificationProofs` | `TableIsOfTheResult` |
| `ResultsAreInOrder` | `VerificationProofs` | `ResultsFollowTheirRun` |
| `ExactGraph` | `EquivalenceDiscoveryProofs` | `GraphIsExact` |
| `AttemptsOnce` | `EquivalenceDiscoveryProofs` | `EveryAttemptOnce` |
| `ExhaustedFrontier` | `EquivalenceDiscoveryProofs` | `ExhaustedIsReachable` |
| `GraphIsVerified` | `EquivalenceDiscoveryProofs` | `ReturnedGraphVerifies` |
| `SoundVerdicts` | `DerivedClassificationProofs` | `VerdictsAreSound` |
| `ImplementsPartition` | `DerivedClassificationProofs` | `ClassesOnlyMerge` |
| `ResultIsVerified` | `DerivedClassificationProofs` | `ResultVerifies` |
| `OpenPairsWalked` | `DerivedClassificationProofs` | `OpenPairsWereWalked` |
| `RecheckHolds` | `TauGraphWalkProofs` | `NoDefect` |
| `ClosureIsComplete` | `TauGraphWalkProofs` | `ClosedIsComplete` |
| `StopsAreTold` | `TauGraphWalkProofs` | `DiagnosticsAreTrue` |
| `SummandsAreNamed` | `TauGraphWalkProofs` | `IndicesAreStable` |
| `FiniteLeftClosure` | `TauGraphWalkProofs` | |
| `CertifiedEntries` | `VerificationProofs` | `EntriesAreCertified` |
| `OneComputation` | `VerificationProofs` | `ComputedOnce` |
| `LeadsStayDistinct` | `CompletionProofs` | `LeadsAreDistinct` |
| `TracesAlwaysEndInZero` | `CompletionProofs` | `TracesEndInZero` |
| `TailsOnly` | `CompletionProofs` | `ReductionTouchesTails` |
| `CertificateIsAccepted` | `CompletionProofs` | |
| `CertificatesHold` | `CompletionProofs` | `CertificateHolds` |
| `NormalWordsAreRead` | `CompletionProofs` | |
| `FinitenessIsDecided` | `CompletionProofs` | |
| `DiamondLemma` | `ProofLibrary` | |

**Induction.** The induction theorems of the library take an operator as a parameter, which
the provers cannot instantiate. `ProofLibrary` states them over sets instead: a
set of numbers, or of finite sets, that has the base case and is closed under the step has
everything (`SetInduction`, `IntervalInduction`, `SubsetInduction`). From these it proves what the models
need of a sum over a finite set: it exists, does not depend on the order of summation, and
grows by the term that is added (`SumAdd`, `SumChange`). The theorems about totals
rest on it. What a finite graph leads to, and what is left of it without its dead ends, is settled after
as many steps as there are states (`IsGraph`, `IsCore`); the two cycle decisions of a completion rest
on that. The rest of `ProofLibrary` is the algebra and the automata of the completion, without its state.

**Census.** The classification alone is not inductive: while a candidate is compared, what is
true is that it differs from every representative compared so far. `ClassInv` says that the
state and the held outcome are sound (counters, classification) and, through `ComparePoint`,
what the inner loop has established. A failure does not disturb it because nothing is committed before the
comparison ends. Three more invariants rest on it and on `TypeOK`: `LedgerInv` (the charges
balance, with the saved totals those of the last boundary), `CeilingsInv` (the
counters of the state are below its ceilings at each guard that relies on it, and those of
the held outcome too), and `ProgressInv` (what is published is the total of the last boundary or of the last outcome). The
refinement is then one step per action: `KeepRepresentative`, `AssignDuplicate`,
`DropDuplicate` and `RejectCandidate` map to `FirstSeen`'s step, the rest to stutters, and a
replay leaves the mapped state alone because the mapping reads what the caller holds.

`VerdictsAreExact` says that two runs of the loop, perhaps long apart, agree. `TraceInv`
turns that into facts about one state. `Enumerated` fixes the records of a prefix by
counts: the representative with *i* firsts below it is at position *i* + 1, likewise the
assignments and the duplicates. So two states at one cursor have equal records
(`SameFirsts`, `SameAssignments`). While no candidate was charged twice, the comparison counter is
the number of `Comparisons` below the cursor and the position inside the candidate
(`CountsAreRequired`, which gives `OnlyNecessaryChecks`), and an outcome is `Halted`: some
position of the loop stops an enumeration with these records for this reason. Two lemmas
finish it. No state within the same ceilings goes on beyond a stop (`NoneGoesOn`), hence
replay and outcome end at one cursor; and there the stop is determined (`StopIsDetermined`). A
cancelled or failed prefix stops at the lowered `max_candidates` instead. In the other direction
an accepted replay has the outcome's totals and no surplus, so nothing was charged twice, and a replay
keeps its ceilings.

`ProgressIsHonest` needs the counters of a census that did abandon candidates, of which
`TraceInv` says nothing. `SurplusInv` bounds them: the comparison counter is never below
the required comparisons, and above them by at most one comparison with each representative for every
abandoned candidate. A commit adds exactly the comparisons its candidate requires
(`RejectCounts`, `DuplicateCounts`, `KeepCounts`), a cut in the middle of a candidate abandons it, and
a resume takes over what was abandoned. With `LedgerInv` and `ProgressInv` this is the theorem.

**Durable stream.** `RunInv` joins the types; `Sane`, what holds of any checkpoint that was
made or stored (rows are the prefix, work within budget, status justified);
`FilesAreSane`, the same for all files that may survive a power loss, which are also not torn; and,
for each place of the driver, what it may rely on (`WritePoint`: the temporary file holds
the current checkpoint, flushed before the replace; `ComputePoint`: the status is active and
the file equals memory; `CancelPoint`: how many chunks were committed since the cancel). That the
file equals memory before a chunk is what makes the refinement of `DurablePrefix` hold. For
`FileVerifies` a sane checkpoint is one whose prefix and status `verify` accepts: its chunks are replayed
one after another up to its cursor, by induction over the chunks.

**Browser.** `PageInv` adds to the properties: the result section shows the awaited run while
one is awaited (`RunIsShown`); every request, task and answer in flight carries the
identifier and the outcome of one submitted run (`AnswersAreHonest`), so that an answer whose identifier
matches is about the source of the awaited run; and reads for a class table carry the render
generation of the result that started them (`ReadsAreNumbered`).

**Discovery.** `EveryAttemptOnce` is inductive only with the position of the walk:
`WalkInv` says where the cursor stands relative to the frontier, `StopInv` that an exhausted
frontier is empty with no attempt left. `GraphInv` says that buckets index every vertex
under its key (`BucketInv`), that every edge and blocker is true of its mutation
(`RecordInv`), that vertices differ (`Distinct`), and that each vertex is in every closed set
(`ReachInv`). Distinctness rests on keys being the same for isomorphic complexes, so a
search of one bucket is a search of all. When the frontier is exhausted every attempt of every
vertex is recorded, hence the vertices found are themselves a closed set; the two inclusions give
`ExhaustedIsReachable`. Used of the algebra is that isomorphic complexes have
isomorphic mutations (`MutationAssumption`). `GraphIsVerified` needs `LedgerInv`: the stored
totals are sums over the stored vertices, every vertex was admitted under the ceilings, and the
completed attempts are those of the records and, where the storage refused one, one more.

**Classification.** `IInv` says that each reading is one its member can give
(`ReadingsAreTrue`) and that members with one root are equivalent (`RootsAreDerived`). A
match is equivalent to the walked member by `RickardAssumption`, two equivalent members are
never separated by `InvariantAssumption`, so no contradiction arises and every join is one of
`DerivedPartition`. `ForestInv` says that each recorded merge joins two members that no merge before it joins, and that
the merges inside a class are one fewer than its members, so they span it; with it a result satisfies
the verifier. `WalkedInv` says that a member the run has passed is a duplicate, has a recorded walk or has
no open partner, and that the vertices of a recorded walk left nothing to merge.

**Tau-tilting walk.** `WalkInv` has five parts: the types; `FrontierInv`, breadth first: the vertices before the current one
are decided, those after it untouched; `CountInv`, the counters of slots
as sums over the vertices; `GraphInv`, that every edge leads where the algebra says (`EdgesInv`), every
decided slot is one edge or has no left mutation (`RecordsInv`), and a pair is one vertex, found by an
edge from an earlier one (`PairsInv`); and `RegistryInv`, one index per class of summands. The
diagnostics and the indices follow from it. A drained walk is closed under left mutation. That it is then
complete is `FiniteLeftClosure`, the claim in the documentation: were a pair outside a finite
set that has the regular pair and is closed under left mutation, a minimal one of the pairs of the set above it
would have, by `OrderAssumption`, a left mutation in the set that is still above it. In a complete graph the
edges into a vertex correspond one to one to the arrows into its pair, so by
`RegularityAssumption` the recheck cannot fail. The root is not counted against
`limits.vertices`; an algebra with vertices has a second pair, so its closed walk has kept that budget too.

**Memo.** `CellInv` is `EntriesAreCertified` with the modules of every key held; `FrameInv` says
of every call in progress that its modules are held, its answers so far are certified and
nested calls go strictly to memos declared earlier; `RunInv` and `WaitInv` tie the state
of a cell to the one call that computes it; `CountInv` relates the misses to the cells, except for
calls between `FindCell` and `CountRequest`.

**Completion.** For every prime modulus and every list of validated relations
(`JobsAssumption`: what `PrimeField::new`, `Relation::new` and `Presentation::new` guarantee),
whatever the budgets and however long the run. The proof has four parts, of which the first, and what is said below of
automata and lists of words, is in `ProofLibrary`.

The first is algebra. Words form a monoid with an order that concatenation keeps, length first, and no infinite
descent (`PutOrder`, `WordInduction`). Polynomials modulo *q* are functions on finite sets of words; a `Span` is the least set
closed under adding multiples, an `Ideal` the span of all `Products`, `Below` the span of the products
whose top is smaller than a word. `DiamondLemma` says: if in a monic set of polynomials with distinct leading
words the composition of every overlap and every inclusion is in `Below` of its top (`IsConfluent`), then the leading
word of every element of its ideal has a leading word of the set as a factor. Its proof goes by induction over a
bound on the tops, `UpTo`: all products with one top are the same up to what is below it (`TopsAreSame`,
where two occurrences are apart, overlap, or lie one inside the other).

The second relates the operators of the engine to these notions: `Occurrences` are the ways to
write a word around a factor, `PairAmbiguities` are exactly the proper overlaps and inclusions,
`CompositionPoly` is the difference of the two multiples, a reduction step stays in the ideal and below the word,
`Sorted` lists its set in order.

The third is the invariant, by phase. Always, the basis is monic, has distinct leading words and lies in the ideal of the
relations, and so does the work (`InIdeal`). While relations are read, those before the index are
generated by the basis (`RelationsPhase`). While the queue drains, all relations are, and each ambiguity
of the basis is in the queue, is the one under reduction, or meets (`DrainPhase`); a composition that leaves something
meets once it is appended, and the pairs of the new element are queued both ways. When the queue is empty the basis is confluent,
so by the diamond lemma its leading words divide those of the ideal (`Divides`). Interreduction keeps that, because each dropped
leading word contains a kept one, and leaves no leading word inside another (`TailPhase`). In the emission every reduced
element of the ideal is therefore zero. A round that starts after a drop has a basis with these properties again.

The fourth is about the certificate. Its first theorem is `CertificateIsAccepted`: a certificate that comes out passes the verifier's checks of the relations,
the reduced basis, the origins, the membership traces, the ambiguities and the automaton. Its invariant `AInv` adds five parts to `IInv`.
`ArePaths`: the words of an element, and of the work, are paths of two or more arrows with the same ends, since
a factor can be exchanged for a parallel path (`PutPath`, `CompositionUniform`). `AreTidy`: while tails are reduced, no word of an
element before the index contains a leading word but its own. `AreRecorded`: each recorded trace, and the one under way, leads
from its start to what is left by steps that the verifier accepts (`Traced`); the traces are those of the relations in
their order, then those of the keys that have left the queue, in ascending order. `OriginsKept`: each element, and the work while
it has an origin, is what its origin expands to, and all terms of the origin are paths with the same ends; the expansion is a
fold over a set of terms, taken in any order (`RunsInAnyOrder`), so that it adds up with multiples by words (`ExpansionShifts`).
`Accepted`: a complete run has a certificate that passes. The two sides compute differently, and these lemmas reconcile them: the verifier enumerates overlaps by offset and
the engine by the length that is shared (`PairsAgree`), and for an arrow that completes a leading word the engine looks
at the longest tracked ending, the verifier at every leading word (`LongestEnding`: they agree because no leading word is a factor of another).

`CertificatesHold` is the whole of `CertificateHolds`. Three more parts of the invariant say what the certificate was made
of: `IsEmitted`, it is the record that `Emitted` writes for the final basis and traces; `Retained`, those are still the traces of
all relations and all ambiguities of the basis; `AreRecords`, each trace has exactly the fields of one.

* *The automata agree.* `IsFor` ties a certificate to a presentation and a set of forbidden words, none inside another. The state
  after a word is its longest ending that begins a forbidden word (`TrackStep`); following a word one reaches a state exactly
  when it is normal (`FollowsPath`, `NormalIsRead`), so the automaton reads the normal words, and
  `NormalWordsAreRead` follows for the verifier's own replay.
* *Finiteness.* Every state is reached along its own word (`AllStatesMet`), here because no forbidden word is inside another; that is what
  `longest_walks`, which visits the whole automaton, relies on. The engine and the verifier each remove dead ends from the
  states they reach until nothing changes, so both end with the core of the same graph (`LiveIsCore`, `LeftIsCore`), and there is a cycle exactly when the core is not empty. The engine's walk
  inside the core repeats a state; its prefix and cycle are followed from a start for every number of repetitions
  (`WitnessIs`, `FinitenessIsDecided`), so the check of the verifier passes and every repetition is normal.
* *The list.* A finite language has no word longer than the number of states (`NoLongWord`), and the longest walk from a state is one more than that of its
  best successor (`LongestWalksAre`). The verifier's walk lists each word once, by length, then source, then letters
  (`WalksAre`, `NormalWordOrderIs`); the engine sorts the set. Both lists are increasing and have the same words, so they are equal (`ListIsOrder`).
* *Defects.* Each way to spoil the certificate makes one check fail (`DefectiveRejected`). A replay is decided by what the steps leave,
  whether or not they hold (`ReplayIs`), so a trace without its last step leaves a nonzero multiple of an element, and one with another
  coefficient takes away what is not there (`ShortenedFails`, `MiscountedFails`); without an ambiguity one key of the verifier is
  not listed; without an origin term the sum lacks a nonzero multiple of a relation (`TermMissing`); a transition, a word or the claim is compared with what
  the verifier computes.

The attempt to prove the lists equal found a mistake in the model: the longest length was a maximum over the vertices, undefined for
a quiver without vertices, where the code has `max().unwrap_or(0)`. The model follows the code now, and the run
`completion` has that presentation.

**Only model-checked.** The liveness properties `EngineReturns`, `RunReturns`, `EveryRunEnds`,
`EveryRequestReturns`: liveness under fairness is not in reach of the prover. Every safety invariant and every
action property that a passing run checks is a theorem, or follows from one that is stronger.

## 6. What is not modelled

Pure algebra (matrices, modules, homological and representation-theoretic computations) has no
state between calls; its results are constants of the models, with the certificates the
code produces as assumptions. Parsers, canonical JSON, fingerprints, rendering and the
command line are conversions; where a stored value decides something, the model keeps the
decision and not the text. Integer widths are not modelled: the counters of the census, the
stream and the walks are 64- and 128-bit, and additions to them are checked or far
beyond any ceiling the models use. The in-memory stream's own iterator and the staged resume of a workflow
keep state and could be modelled; they are left in section 2. Together this leaves most of the library unmapped: by lines it
is matrix computation, data types, bindings and rendering.
