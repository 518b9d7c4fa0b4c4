--------------------------- MODULE BrowserVerifier ---------------------------
(***************************************************************************)
(* The browser page that replays one artifact: page.js and its Web Worker  *)
(* (worker.js, verify.js).  Every action is one task of the page's or the  *)
(* worker's event loop, so an await ends an action and what follows it is  *)
(* another.  "At most one" is a set of at most one element; the empty set  *)
(* is the source's null.                                                   *)
(***************************************************************************)
EXTENDS Naturals, FiniteSets

CONSTANTS
  Files,     \* files a user can choose
  Texts,     \* texts a user can paste
  VerdictOf, \* the verifier's answer for the bytes of each source
  MaxRuns,   \* bound of the model: verifications submitted
  MaxReads   \* bound of the model: file reads under way

Sources == Files \cup Texts

\* what verify_json says; a trap of the module is worker.js's "failed"
Verdicts == {"verified", "verified-cut", "stopped", "rejected", "failed"}
Kinds == {"derived-atlas-v1", "other", "none"}
Result(status, kind) == [status |-> status, kind |-> kind]

ASSUME VerdictAssumption == VerdictOf \in [Sources -> [status : Verdicts, kind : Kinds]]
ASSUME BoundsAssumption == MaxRuns \in Nat /\ MaxReads \in Nat

VARIABLES
  running,      \* page: the run whose result is awaited, at most one
  next_id,      \* page: nextId
  reads,        \* page: number of arrayBuffer reads of each file under way
  shown,        \* page: the result section, at most one; its id is the run's
  atlas_render, \* page: atlasRender
  atlas_reads,  \* page: reads of the source for a class table under way
  table,        \* page: source of the visible class table, at most one
  inbox,        \* worker: requests posted to it
  tasks,        \* worker: requests it has taken and not answered
  compiled,     \* worker: its compiled module
  posted        \* answers on their way to the page, of terminated workers too

page == <<running, next_id, reads, shown, atlas_render, atlas_reads, table>>
worker == <<inbox, tasks, compiled>>
page_vars == <<page, worker, posted>>

Run(id, source) == [id |-> id, source |-> source]
Shown(run, result) == [id |-> run.id, source |-> run.source, status |-> result.status,
                       kind |-> result.kind]

Accepted(result) ==
  result.kind = "derived-atlas-v1" /\ result.status \in {"verified", "verified-cut"}

-----------------------------------------------------------------------------
(* page.js                                                                 *)

HideAtlas ==
  /\ atlas_render' = atlas_render + 1
  /\ table' = {}

\* an accepted atlas also starts a read of its source
Render(run, result) ==
  /\ shown' = {Shown(run, result)}
  /\ HideAtlas
  /\ atlas_reads' =
       atlas_reads \cup {[render |-> atlas_render', source |-> run.source] :
                           a \in {r \in {result} : Accepted(r)}}

\* mutant of Submit: a submission does not wait for the run under way
SubmitAnyway(source) ==
  /\ next_id < MaxRuns
  /\ running' = {Run(next_id, source)}
  /\ next_id' = next_id + 1
  /\ shown' = {Shown(Run(next_id, source), Result("running", "none"))}
  /\ HideAtlas
  /\ inbox' = inbox \cup {Run(next_id, source)}
  /\ UNCHANGED <<atlas_reads, tasks, compiled, posted>>

\* a source that arrives while a run is under way is dropped
Submit(source) ==
  IF running # {}
  THEN UNCHANGED <<running, next_id, shown, atlas_render, atlas_reads, table, worker, posted>>
  ELSE /\ next_id < MaxRuns
       /\ running' = {Run(next_id, source)}
       /\ next_id' = next_id + 1
       /\ shown' = {Shown(Run(next_id, source), Result("running", "none"))}
       /\ HideAtlas
       /\ inbox' = inbox \cup {Run(next_id, source)}
       /\ UNCHANGED <<atlas_reads, tasks, compiled, posted>>

\* by drop, also during a run: only the file input is disabled then
ChooseFile(f) ==
  /\ \A g \in Files : reads[g] < MaxReads
  /\ reads' = [reads EXCEPT ![f] = @ + 1]
  /\ UNCHANGED <<running, next_id, shown, atlas_render, atlas_reads, table, worker, posted>>

FileRead(f) ==
  /\ reads[f] > 0
  /\ reads' = [reads EXCEPT ![f] = @ - 1]
  /\ Submit(f)

\* a rejected arrayBuffer() ends submitFile
FileReadFails(f) ==
  /\ reads[f] > 0
  /\ reads' = [reads EXCEPT ![f] = @ - 1]
  /\ UNCHANGED <<running, next_id, shown, atlas_render, atlas_reads, table, worker, posted>>

\* the button is disabled during a run
VerifyPaste(text) ==
  /\ running = {}
  /\ Submit(text)
  /\ UNCHANGED reads

\* mutant of Deliver: an answer is taken for that of whatever run is under way
DeliverToAnyRun ==
  \E message \in posted, run \in running :
    /\ posted' = posted \ {message}
    /\ running' = {}
    /\ Render(run, message.result)
    /\ UNCHANGED <<next_id, reads, worker>>

Deliver ==
  \E message \in posted :
    /\ posted' = posted \ {message}
    /\ \/ \E run \in running :
            /\ message.id = run.id
            /\ running' = {}
            /\ Render(run, message.result)
            /\ UNCHANGED <<next_id, reads, worker>>
       \/ /\ \A run \in running : message.id # run.id
          /\ UNCHANGED <<page, worker>>

Terminate ==
  /\ inbox' = {} /\ tasks' = {} /\ compiled' = "none"
  /\ posted' \in {{}, posted}

\* mutant of Cancel: the page forgets the run and leaves the worker to it
CancelKeepsWorker ==
  \E run \in running :
    /\ running' = {}
    /\ Render(run, Result("cancelled", "none"))
    /\ UNCHANGED <<next_id, reads, worker, posted>>

\* the worker is replaced by a new one
Cancel ==
  \E run \in running :
    /\ Terminate
    /\ running' = {}
    /\ Render(run, Result("cancelled", "none"))
    /\ UNCHANGED <<next_id, reads>>

\* mutant of AtlasRead: the rows of a slow read are shown whenever they arrive
AtlasReadUnchecked ==
  \E read \in atlas_reads :
    /\ atlas_reads' = atlas_reads \ {read}
    /\ table' = {read.source}
    /\ UNCHANGED <<running, next_id, reads, shown, atlas_render, worker, posted>>

AtlasRead ==
  \E read \in atlas_reads :
    /\ atlas_reads' = atlas_reads \ {read}
    /\ table' = IF read.render = atlas_render THEN {read.source} ELSE table
    /\ UNCHANGED <<running, next_id, reads, shown, atlas_render, worker, posted>>

\* a file that was changed or removed since it was chosen cannot be read
AtlasReadFails ==
  \E read \in atlas_reads :
    /\ read.source \in Files
    /\ atlas_reads' = atlas_reads \ {read}
    /\ UNCHANGED <<running, next_id, reads, shown, atlas_render, table, worker, posted>>

-----------------------------------------------------------------------------
(* worker.js                                                               *)

Answer(task, result) == [id |-> task.id, result |-> result]

\* the first request starts to fetch the module, later ones share it
TakeRequest ==
  \E request \in inbox :
    /\ inbox' = inbox \ {request}
    /\ tasks' = tasks \cup {request}
    /\ compiled' = IF compiled = "none" THEN "loading" ELSE compiled
    /\ UNCHANGED <<page, posted>>

ModuleLoads ==
  /\ compiled = "loading"
  /\ compiled' = "ready"
  /\ UNCHANGED <<page, inbox, tasks, posted>>

Unavailable == Result("unavailable", "none")

\* mutant of ModuleFails: the rejected promise is not caught, and nothing is answered
ModuleFailsSilently ==
  /\ compiled = "loading"
  /\ compiled' = "none"
  /\ tasks' = {}
  /\ UNCHANGED <<page, inbox, posted>>

\* whoever awaits the module is told; the next request fetches it again
ModuleFails ==
  /\ compiled = "loading"
  /\ compiled' = "none"
  /\ tasks' = {}
  /\ posted' = posted \cup {Answer(task, Unavailable) : task \in tasks}
  /\ UNCHANGED <<page, inbox>>

\* verifyBytes in a fresh instance; creating one can fail as well
Replay ==
  \E task \in tasks : \E result \in {VerdictOf[task.source], Result("failed", "none")} :
    /\ compiled = "ready"
    /\ tasks' = tasks \ {task}
    /\ posted' = posted \cup {Answer(task, result)}
    /\ UNCHANGED <<page, inbox, compiled>>

-----------------------------------------------------------------------------

PageInit ==
  /\ running = {} /\ next_id = 0 /\ reads = [f \in Files |-> 0]
  /\ shown = {} /\ atlas_render = 0 /\ atlas_reads = {} /\ table = {}
  /\ inbox = {} /\ tasks = {} /\ compiled = "none"
  /\ posted = {}

WorkerStep == TakeRequest \/ ModuleLoads \/ ModuleFails \/ Replay

PageNext ==
  \/ \E f \in Files : ChooseFile(f) \/ FileRead(f) \/ FileReadFails(f)
  \/ \E t \in Texts : VerifyPaste(t)
  \/ Deliver \/ Cancel \/ AtlasRead \/ AtlasReadFails
  \/ WorkerStep

\* event loops run their tasks: the worker's and, with its messages, the page's
PageFairness == WF_page_vars(WorkerStep) /\ WF_page_vars(Deliver)

PageSpec == PageInit /\ [][PageNext]_page_vars /\ PageFairness

-----------------------------------------------------------------------------
(* Properties.                                                             *)

Statuses == Verdicts \cup {"running", "unavailable", "cancelled"}
Runs == [id : Nat, source : Sources]
Results == [status : Verdicts \cup {"unavailable"}, kind : Kinds]

\* Every variable keeps its type; the page has a text for every status it is given.
TypeOK ==
  /\ running \subseteq Runs /\ next_id \in Nat
  /\ reads \in [Files -> Nat]
  /\ shown \subseteq [id : Nat, source : Sources, status : Statuses, kind : Kinds]
  /\ atlas_render \in Nat
  /\ atlas_reads \subseteq [render : Nat, source : Sources]
  /\ table \subseteq Sources
  /\ inbox \subseteq Runs /\ tasks \subseteq Runs
  /\ compiled \in {"none", "loading", "ready"}
  /\ posted \subseteq [id : Nat, result : Results]

\* A verdict on the page is the verifier's for the source it is shown with, whatever was
\* cancelled and whichever answers of terminated workers still arrive.
VerdictIsOfItsSource ==
  \A s \in shown :
    s.status \in Verdicts \ {"failed"} => Result(s.status, s.kind) = VerdictOf[s.source]

\* The worker has no request but the one the page waits for: none goes on after a
\* cancellation, and none is replayed behind another.
OneReplayAtATime ==
  /\ \A a, b \in running : a = b
  /\ inbox \cup tasks \subseteq running
  /\ inbox \cap tasks = {}

\* A class table is visible only below the accepted result of the atlas it was read from.
TableIsOfTheResult ==
  \A source \in table : \E s \in shown : s.source = source /\ Accepted(s)

\* The page shows a result only in place of "Verifying" of the same run, and "Verifying"
\* only in place of an older run that has ended.
TakesItsPlace(s, old) ==
  IF s.status = "running"
  THEN \A o \in old : o.id < s.id /\ o.status # "running"
  ELSE \E o \in old : o.id = s.id /\ o.source = s.source /\ o.status = "running"

ResultsFollowTheirRun == [][shown' # shown => \A s \in shown' : TakesItsPlace(s, shown)]_shown

\* Every run is answered, also when the module does not load or the page cancels.
EveryRunEnds == running # {} ~> running = {}

=============================================================================
