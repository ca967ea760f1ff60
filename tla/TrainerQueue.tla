---------------------------- MODULE TrainerQueue ----------------------------
(***************************************************************************)
(* The remote trainer service: its job rows (JobStore), the HTTP handlers  *)
(* that submit a job, upload its dataset, cancel and delete it, the        *)
(* dispatch loop of QueueManager with its device reservations, the         *)
(* training of a job in a thread or process of its own, the files of a job *)
(* on the trainer's disk, and shutdown, crash and restart of the service.  *)
(*                                                                         *)
(* Handlers and dispatch loop share one event loop, so a step here is the  *)
(* code between two awaits; the request's job row is read before, by a     *)
(* dependency that runs in a thread pool.  A dataset ZIP is a sequence of  *)
(* Chunks[j] chunks, sent in order as the Studio does: one byte range from *)
(* the staged offset to the end.                                           *)
(***************************************************************************)
EXTENDS Naturals, Sequences, FiniteSets

CONSTANTS
  NumJobs,       \* jobs are 1..NumJobs
  Device,        \* device of each job, or AnyDevice
  AnyDevice,     \* no explicit device: the job may use any GPU
  MaxConcurrent, \* settings.max_concurrent_jobs
  NumUploads,    \* PUT requests that may be in flight for each job
  Chunks,        \* length of each job's dataset ZIP
  MaxRestarts    \* bound on restarts of the service

Jobs == 1..NumJobs
Uploads == UNION {{j} \X (1..NumUploads[j]) : j \in Jobs}

ASSUME ConstantsAssumption ==
  /\ NumJobs \in Nat /\ NumUploads \in [Jobs -> Nat] /\ MaxRestarts \in Nat
  /\ MaxConcurrent \in Nat \ {0} /\ Chunks \in [Jobs -> Nat \ {0}]
  /\ DOMAIN Device = Jobs

VARIABLES
  status,    \* the job rows ("NONE": not submitted, "DELETED")
  secret,    \* token of each job: cached in memory, taken by the run, or none
  api,       \* the cancel or delete request in flight for each job
  upload,    \* the PUT requests
  part,      \* the staged <job>.zip.part, a sequence of chunks
  dataset,   \* jobs whose extracted dataset is on disk
  output,    \* jobs with a model or cache directory
  archive,   \* jobs with a model archive
  active,    \* QueueManager._active (and _active_devices)
  cancel,    \* QueueManager._cancel_requested
  run,       \* where the run of each active job is
  phase,     \* life of the service
  restarts,
  doomed,    \* history: jobs whose deletion was accepted
  overlapped \* history: jobs with a PUT admitted while another was in flight

rows  == <<status, secret>>
disk  == <<part, dataset, output, archive>>
queue == <<active, cancel, run>>
life  == <<phase, restarts>>
vars == <<rows, api, upload, disk, queue, life, doomed, overlapped>>

Terminal == {"COMPLETED", "FAILED", "CANCELED"}
Statuses == Terminal \cup {"NONE", "AWAITING", "QUEUED", "RUNNING", "DELETED"}

NoUpload == [pc |-> "idle", next |-> 1, append |-> FALSE, linked |-> TRUE]

Init ==
  /\ status = [j \in Jobs |-> "NONE"]
  /\ secret = [j \in Jobs |-> "none"]
  /\ api = [j \in Jobs |-> "idle"]
  /\ upload = [u \in Uploads |-> NoUpload]
  /\ part = [j \in Jobs |-> <<>>]
  /\ dataset = {} /\ output = {} /\ archive = {}
  /\ active = {} /\ cancel = {}
  /\ run = [j \in Jobs |-> "none"]
  /\ phase = "up" /\ restarts = 0
  /\ doomed = {} /\ overlapped = {}

-----------------------------------------------------------------------------
(* Submitting a job and uploading its dataset. *)

(* submit_job: create, then stash_secret (every job here has a token).      *)
SubmitJob(j) ==
  /\ phase = "up"
  /\ status[j] = "NONE"
  /\ \A i \in 1..(j - 1) : status[i] # "NONE"
  /\ status' = [status EXCEPT ![j] = "AWAITING"]
  /\ secret' = [secret EXCEPT ![j] = "cached"]
  /\ UNCHANGED <<api, upload, disk, queue, life, doomed, overlapped>>

(* The dependency of upload_dataset: the job must be awaiting its dataset.  *)
UploadCheck(u) ==
  /\ phase = "up"
  /\ upload[u].pc = "idle"
  /\ status[u[1]] = "AWAITING"
  /\ upload' = [upload EXCEPT ![u].pc = "checked"]
  /\ overlapped' = IF \E v \in Uploads : v[1] = u[1] /\ upload[v].pc # "idle"
                   THEN overlapped \cup {u[1]} ELSE overlapped
  /\ UNCHANGED <<rows, api, disk, queue, life, doomed>>

(* The streaming requests of job j lose their staged file.                  *)
Unlinked(up, j) == [u \in Uploads |->
     IF u[1] = j /\ up[u].pc = "stream" THEN [up[u] EXCEPT !.linked = FALSE] ELSE up[u]]

(* _parse_upload_range and open: the range starts at the staged offset;     *)
(* offset 0 truncates.  Too little disk space discards the staged upload.   *)
UploadOpen(u) ==
  LET j == u[1] IN
  /\ upload[u].pc = "checked"
  /\ \/ /\ Len(part[j]) < Chunks[j]
        /\ upload' = [upload EXCEPT ![u] = [pc |-> "stream", next |-> Len(part[j]) + 1,
                                           append |-> part[j] # <<>>, linked |-> TRUE]]
        /\ UNCHANGED <<part, dataset>>
     \/ /\ upload' = Unlinked([upload EXCEPT ![u] = NoUpload], j)
        /\ part' = [part EXCEPT ![j] = <<>>]
        /\ dataset' = dataset \ {j}
  /\ UNCHANGED <<rows, api, output, archive, queue, life, doomed, overlapped>>

(* A chunk goes to the end of the file or to this request's position in it; *)
(* a hole that is left reads as zeros.                                      *)
Written(file, at, chunk) ==
  [i \in 1..(IF at > Len(file) THEN at ELSE Len(file)) |->
     IF i = at THEN chunk ELSE IF i <= Len(file) THEN file[i] ELSE 0]

UploadChunk(u) ==
  LET j == u[1]
      chunk == upload[u].next IN
  /\ upload[u].pc = "stream"
  /\ chunk <= Chunks[j]
  /\ upload' = [upload EXCEPT ![u].next = @ + 1]
  /\ part' = IF upload[u].linked
             THEN [part EXCEPT ![j] =
                     Written(@, IF upload[u].append THEN Len(@) + 1 ELSE chunk, chunk)]
             ELSE part
  /\ UNCHANGED <<rows, api, dataset, output, archive, queue, life, doomed, overlapped>>

(* The client is gone: the handler unwinds, the staged file stays.          *)
UploadDrops(u) ==
  /\ upload[u].pc \in {"checked", "stream"}
  /\ upload' = [upload EXCEPT ![u] = NoUpload]
  /\ UNCHANGED <<rows, api, disk, queue, life, doomed, overlapped>>

(* validate_and_extract, in a thread, once the whole range was received.    *)
UploadExtract(u) ==
  LET j == u[1] IN
  /\ upload[u].pc = "stream"
  /\ upload[u].next > Chunks[j]
  /\ \/ /\ part[j] = [i \in 1..Chunks[j] |-> i]
        /\ dataset' = dataset \cup {j}
        /\ upload' = [upload EXCEPT ![u] = [NoUpload EXCEPT !.pc = "ready"]]
        /\ UNCHANGED part
     \/ /\ part[j] # <<>>              \* no ZIP, or not enough disk space
        /\ part' = [part EXCEPT ![j] = <<>>]
        /\ dataset' = dataset \ {j}
        /\ upload' = Unlinked([upload EXCEPT ![u] = NoUpload], j)
     \/ /\ upload' = [upload EXCEPT ![u] = NoUpload]   \* another error: a 500
        /\ UNCHANGED <<part, dataset>>
  /\ UNCHANGED <<rows, api, output, archive, queue, life, doomed, overlapped>>

(* mutant: the row is queued whatever its status *)
UploadReadyAlways(u) ==
  LET j == u[1] IN
  /\ upload[u].pc = "ready"
  /\ status' = [status EXCEPT ![j] = "QUEUED"]
  /\ part' = [part EXCEPT ![j] = <<>>]
  /\ upload' = Unlinked([upload EXCEPT ![u] = NoUpload], j)
  /\ UNCHANGED <<secret, api, dataset, output, archive, queue, life, doomed, overlapped>>

(* mutant: the upload is dropped when the job is still awaiting it *)
UploadReadyCleansUp(u) ==
  LET j == u[1] IN
  /\ upload[u].pc = "ready"
  /\ status' = [status EXCEPT ![j] = IF @ = "AWAITING" THEN "QUEUED" ELSE @]
  /\ part' = [part EXCEPT ![j] = <<>>]
  /\ dataset' = dataset \ {j}
  /\ upload' = Unlinked([upload EXCEPT ![u] = NoUpload], j)
  /\ UNCHANGED <<secret, api, output, archive, queue, life, doomed, overlapped>>

(* Back on the loop: the staged file goes, the row is queued if it still    *)
(* awaits its dataset; the dataset goes if the row is not queued now (and   *)
(* stays if the row was deleted).                                           *)
UploadReady(u) ==
  LET j == u[1] IN
  /\ upload[u].pc = "ready"
  /\ status' = [status EXCEPT ![j] = IF @ = "AWAITING" THEN "QUEUED" ELSE @]
  /\ part' = [part EXCEPT ![j] = <<>>]
  /\ dataset' = IF status'[j] \in {"QUEUED", "DELETED"} THEN dataset ELSE dataset \ {j}
  /\ upload' = Unlinked([upload EXCEPT ![u] = NoUpload], j)
  /\ UNCHANGED <<secret, api, output, archive, queue, life, doomed, overlapped>>

-----------------------------------------------------------------------------
(* Cancelling and deleting. *)

CancelCheck(j) ==
  /\ phase = "up"
  /\ api[j] = "idle"
  /\ status[j] \in {"AWAITING", "QUEUED", "RUNNING"}
  /\ api' = [api EXCEPT ![j] = "cancel"]
  /\ UNCHANGED <<rows, upload, disk, queue, life, doomed, overlapped>>

(* request_cancel: flag it; a job no run was started for is cancelled here. *)
RequestCancel(j) ==
  /\ api[j] = "cancel"
  /\ api' = [api EXCEPT ![j] = "idle"]
  /\ cancel' = cancel \cup {j}
  /\ IF status[j] \in {"QUEUED", "AWAITING"}
     THEN /\ status' = [status EXCEPT ![j] = "CANCELED"]
          /\ secret' = [secret EXCEPT ![j] = "none"]
     ELSE UNCHANGED rows
  /\ UNCHANGED <<upload, disk, active, run, life, doomed, overlapped>>

DeleteCheck(j) ==
  /\ phase = "up"
  /\ api[j] = "idle"
  /\ status[j] \in Terminal
  /\ api' = [api EXCEPT ![j] = "remove"]
  /\ doomed' = doomed \cup {j}
  /\ UNCHANGED <<rows, upload, disk, queue, life, overlapped>>

(* delete_job removes the files in threads...                               *)
DeleteFiles(j) ==
  /\ api[j] = "remove"
  /\ api' = [api EXCEPT ![j] = "delete"]
  /\ dataset' = dataset \ {j} /\ output' = output \ {j} /\ archive' = archive \ {j}
  /\ UNCHANGED <<rows, upload, part, queue, life, doomed, overlapped>>

(* ... and then the row.                                                    *)
DeleteRow(j) ==
  /\ api[j] = "delete"
  /\ api' = [api EXCEPT ![j] = "idle"]
  /\ status' = [status EXCEPT ![j] = "DELETED"]
  /\ secret' = [secret EXCEPT ![j] = "none"]
  /\ UNCHANGED <<upload, disk, queue, life, doomed, overlapped>>

-----------------------------------------------------------------------------
(* Dispatching and running. *)

(* mutant: only the same device is reserved *)
ReservedSameOnly(j) == \E i \in active : Device[i] = Device[j]

(* mutant: an automatic device also waits for the queue, itself included *)
ReservedByQueue(j) ==
  \/ Device[j] = AnyDevice /\ \E i \in Jobs : status[i] \in {"QUEUED", "RUNNING"}
  \/ \E i \in active : Device[i] \in {AnyDevice, Device[j]}

(* _next_runnable: an automatic device needs, and takes, the whole trainer. *)
Reserved(j) ==
  \/ Device[j] = AnyDevice /\ active # {}
  \/ \E i \in active : Device[i] \in {AnyDevice, Device[j]}

(* _dispatch_loop.  An earlier queued job may be passed over because its    *)
(* device is reserved or looks busy to the telemetry (left open here).      *)
Dispatch(j) ==
  /\ phase = "up"
  /\ Cardinality(active) < MaxConcurrent
  /\ status[j] = "QUEUED"
  /\ ~Reserved(j)
  /\ status' = [status EXCEPT ![j] = "RUNNING"]
  /\ active' = active \cup {j}
  /\ run' = [run EXCEPT ![j] = "start"]
  /\ UNCHANGED <<secret, api, upload, disk, cancel, life, doomed, overlapped>>

ShouldStop(j) == j \in cancel \/ phase = "stopping"

(* _run_job takes the token and starts TrainerRunner.run.                   *)
RunJob(j) ==
  /\ run[j] = "start"
  /\ run' = [run EXCEPT ![j] = "train"]
  /\ secret' = [secret EXCEPT ![j] = IF @ = "cached" THEN "taken" ELSE @]
  /\ output' = output \cup {j}
  /\ UNCHANGED <<status, api, upload, part, dataset, archive, active, cancel, life, doomed, overlapped>>

(* _train ends: cancelled, done (the dataset was there), or with an error.  *)
(* The dataset is removed in any case.                                      *)
TrainEnds(j) ==
  /\ run[j] = "train"
  /\ \E end \in {"canceled", "archive", "failed"} :
       /\ end = "canceled" => ShouldStop(j)
       /\ end = "archive" => ~ShouldStop(j) /\ j \in dataset
       /\ run' = [run EXCEPT ![j] = end]
  /\ dataset' = dataset \ {j}
  /\ UNCHANGED <<rows, api, upload, part, output, archive, active, cancel, life, doomed, overlapped>>

(* archive_model, which may fail halfway.                                   *)
ArchiveModel(j) ==
  /\ run[j] = "archive"
  /\ \E end \in {"returned", "failed"} : run' = [run EXCEPT ![j] = end]
  /\ archive' = archive \cup {j}
  /\ UNCHANGED <<rows, api, upload, part, dataset, output, active, cancel, life, doomed, overlapped>>

(* mutant: an error wins over a cancellation that was accepted before *)
OutcomeErrorWins(j) ==
  CASE run[j] = "returned" -> IF j \in cancel THEN "CANCELED" ELSE "COMPLETED"
    [] run[j] = "canceled" -> "CANCELED"
    [] run[j] = "failed" -> "FAILED"

(* mutant: a status the table does not know *)
OutcomeUnknown(j) == "STOPPED"

(* mutant: a run that was cancelled still counts as finished *)
OutcomeCompletes(j) ==
  CASE run[j] = "returned" \/ run[j] = "canceled" -> IF j \in cancel THEN "CANCELED" ELSE "COMPLETED"
    [] run[j] = "failed" -> IF j \in cancel THEN "CANCELED" ELSE "FAILED"

Outcome(j) ==
  CASE run[j] = "returned" -> IF j \in cancel THEN "CANCELED" ELSE "COMPLETED"
    [] run[j] = "canceled" -> "CANCELED"
    [] run[j] = "failed" -> IF j \in cancel THEN "CANCELED" ELSE "FAILED"

(* mutant: the reservation of the run is not released *)
FinishKeepsActive(j) ==
  /\ run[j] \in {"returned", "canceled", "failed"}
  /\ status' = [status EXCEPT ![j] = Outcome(j)]
  /\ run' = [run EXCEPT ![j] = "none"]
  /\ cancel' = cancel \ {j}
  /\ output' = IF Outcome(j) = "COMPLETED" THEN output ELSE output \ {j}
  /\ secret' = [secret EXCEPT ![j] = "none"]
  /\ UNCHANGED <<api, upload, part, dataset, archive, active, life, doomed, overlapped>>

(* The end of _run_job: status, bookkeeping, and cleanup_job_outputs unless *)
(* the job completed.  The token the run took goes with it.                 *)
Finish(j) ==
  /\ run[j] \in {"returned", "canceled", "failed"}
  /\ status' = [status EXCEPT ![j] = Outcome(j)]
  /\ run' = [run EXCEPT ![j] = "none"]
  /\ active' = active \ {j} /\ cancel' = cancel \ {j}
  /\ output' = IF Outcome(j) = "COMPLETED" THEN output ELSE output \ {j}
  /\ secret' = [secret EXCEPT ![j] = "none"]
  /\ UNCHANGED <<api, upload, part, dataset, archive, life, doomed, overlapped>>

-----------------------------------------------------------------------------
(* Life of the service. *)

(* QueueManager.shutdown, once the server has drained its requests.         *)
Shutdown ==
  /\ phase = "up"
  /\ restarts < MaxRestarts
  /\ \A j \in Jobs : api[j] = "idle"
  /\ \A u \in Uploads : upload[u].pc = "idle"
  /\ phase' = "stopping"
  /\ UNCHANGED <<rows, api, upload, disk, queue, restarts, doomed, overlapped>>

(* The loop task has ended: flag the active jobs.                           *)
FlagActive ==
  /\ phase = "stopping"
  /\ ~ (active \subseteq cancel)
  /\ cancel' = cancel \cup active
  /\ UNCHANGED <<rows, api, upload, disk, active, run, life, doomed, overlapped>>

(* The process ends: orderly, once every run unwound, or by a crash.        *)
Down ==
  /\ \/ phase = "stopping" /\ active = {}
     \/ phase # "down" /\ restarts < MaxRestarts
  /\ phase' = "down"
  /\ secret' = [j \in Jobs |-> "none"]
  /\ api' = [j \in Jobs |-> "idle"]
  /\ upload' = [u \in Uploads |-> NoUpload]
  /\ active' = {} /\ cancel' = {}
  /\ run' = [j \in Jobs |-> "none"]
  /\ UNCHANGED <<status, disk, restarts, doomed, overlapped>>

(* start: reset_orphans fails running and awaiting jobs.                    *)
Start ==
  /\ phase = "down"
  /\ restarts < MaxRestarts
  /\ phase' = "up" /\ restarts' = restarts + 1
  /\ status' = [j \in Jobs |->
       IF status[j] \in {"RUNNING", "AWAITING"} THEN "FAILED" ELSE status[j]]
  /\ UNCHANGED <<secret, api, upload, disk, queue, doomed, overlapped>>

UploadStep(u) ==
  UploadOpen(u) \/ UploadChunk(u) \/ UploadExtract(u) \/ UploadReady(u)

RunStep(j) == RunJob(j) \/ TrainEnds(j) \/ ArchiveModel(j) \/ Finish(j)

Next ==
  \/ \E u \in Uploads : UploadCheck(u) \/ UploadDrops(u) \/ UploadStep(u)
  \/ \E j \in Jobs : SubmitJob(j) \/ CancelCheck(j) \/ RequestCancel(j)
                     \/ DeleteCheck(j) \/ DeleteFiles(j) \/ DeleteRow(j)
                     \/ Dispatch(j) \/ RunStep(j)
  \/ Shutdown \/ FlagActive \/ Down \/ Start

Spec == Init /\ [][Next]_vars

(* The loop polls every half second, runs end (an assumption on training),  *)
(* and a stopped service is started again.  That a free device is dispatched*)
(* to assumes its telemetry does not report foreign work for ever.          *)
FairSpec ==
  /\ Spec
  /\ WF_vars(\E j \in Jobs : Dispatch(j))
  /\ \A j \in Jobs : WF_vars(RunStep(j))
  /\ WF_vars(FlagActive) /\ WF_vars(phase = "stopping" /\ Down) /\ WF_vars(Start)

-----------------------------------------------------------------------------
TypeOK ==
  /\ status \in [Jobs -> Statuses]
  /\ secret \in [Jobs -> {"none", "cached", "taken"}]
  /\ api \in [Jobs -> {"idle", "cancel", "remove", "delete"}]
  /\ upload \in [Uploads -> [pc : {"idle", "checked", "stream", "ready"},
                             next : Nat \ {0}, append : BOOLEAN, linked : BOOLEAN]]
  /\ part \in [Jobs -> Seq(Nat)]
  /\ dataset \in SUBSET Jobs /\ output \in SUBSET Jobs /\ archive \in SUBSET Jobs
  /\ active \in SUBSET Jobs /\ cancel \in SUBSET Jobs /\ doomed \in SUBSET Jobs
  /\ overlapped \in SUBSET Jobs
  /\ run \in [Jobs -> {"none", "start", "train", "archive", "returned", "canceled", "failed"}]
  /\ phase \in {"up", "stopping", "down"}
  /\ restarts \in 0..MaxRestarts

(* Rows and tasks agree: while the service is up a job is RUNNING exactly   *)
(* when a task runs it, through uploads, cancellations, deletions, crashes  *)
(* and restarts; no RUNNING row is ever without someone to end it.          *)
RowsMatchTasks ==
  phase # "down" =>
    active = {j \in Jobs : status[j] = "RUNNING"}
    /\ active = {j \in Jobs : run[j] # "none"}

(* Concurrent runs never share a device, a run on an automatic device has   *)
(* the trainer to itself, and the slots are never exceeded.                 *)
DevicesExclusive ==
  /\ Cardinality(active) <= MaxConcurrent
  /\ \A i, j \in active : i # j => Device[i] # Device[j] /\ AnyDevice \notin {Device[i], Device[j]}

(* A COMPLETED job's archive stays on disk until its deletion is asked for, *)
(* whatever uploads, cancellations and restarts come after.                 *)
ArtifactKept ==
  \A j \in Jobs : status[j] = "COMPLETED" /\ j \notin doomed => j \in archive

(* A queued or training job has its dataset, whatever PUTs are dropped,     *)
(* refused, retried or fail and however they interleave with cancellations  *)
(* and the dispatch loop, unless a PUT of it was once admitted while another*)
(* was still being handled (a client that retries after its own timeout).   *)
DatasetKept ==
  \A j \in Jobs \ overlapped :
    status[j] = "QUEUED" \/ run[j] \in {"start", "train"} => j \in dataset

(* The same of every job: the handler removes a dataset only of a job that  *)
(* "was canceled/failed while the upload was in-flight".                    *)
DatasetAlwaysKept ==
  \A j \in Jobs : status[j] = "QUEUED" \/ run[j] \in {"start", "train"} => j \in dataset

(* A job that ended is not taken up again: an upload that lands late, a     *)
(* late cancellation or a restart changes no terminal row but by deletion.  *)
TerminalIsFinal ==
  [][\A j \in Jobs :
       status[j] \in Terminal \cup {"DELETED"} => status'[j] \in {status[j], "DELETED"}]_vars

(* Cancellation wins: a job whose cancellation was accepted while it ran    *)
(* never ends COMPLETED, not even when the request came during archiving.   *)
CancelWins ==
  [][\A j \in Jobs :
       j \in cancel /\ status[j] = "RUNNING" => status'[j] # "COMPLETED"]_vars

(* No job waits or runs for ever, whatever else is queued for its device    *)
(* and whatever restarts happen (what it becomes is ImplementsContract).    *)
QueuedJobsEnd ==
  \A j \in Jobs : []<>(status[j] \notin {"QUEUED", "RUNNING"})

(* What the Studio sees of this service (trainer/api.py answers with the    *)
(* row; an accepted deletion withdraws the model).                          *)
RemoteState == [NONE |-> "absent", AWAITING |-> "awaiting_dataset", QUEUED |-> "queued",
                RUNNING |-> "running", COMPLETED |-> "completed", FAILED |-> "failed",
                CANCELED |-> "canceled", DELETED |-> "gone"]

Contract == INSTANCE TrainerContract WITH
  remote   <- [j \in Jobs |-> RemoteState[status[j]]],
  artifact <- {j \in archive : status[j] = "COMPLETED" /\ j \notin doomed},
  flagged  <- {j \in cancel : status[j] = "RUNNING"},
  service  <- phase

(* The service implements TrainerContract: whatever handlers, uploads, the  *)
(* dispatch loop, runs, crashes and restarts do, a Studio sees each job     *)
(* follow the life it relies on, and a completed job has its model.         *)
ImplementsContract == Contract!Spec

(* ... and keeps it moving: what is queued is begun, what runs ends, and a  *)
(* service that went down comes back, in the contract's own terms.          *)
KeepsMoving == Contract!Fairness

(* "There's nothing to recover across restarts": the token a job was        *)
(* submitted with reaches its training.                                     *)
TokenReachesTraining == \A j \in Jobs : run[j] = "train" => secret[j] = "taken"
=============================================================================
