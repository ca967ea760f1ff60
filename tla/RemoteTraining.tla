--------------------------- MODULE RemoteTraining ---------------------------
(***************************************************************************)
(* One training job of the Studio that runs on a remote trainer: the       *)
(* client of services/training_backends/remote.py (submit, resumable       *)
(* upload, wait, download, delete), the worker around it                   *)
(* (workers/training_worker.py), the little of the scheduler it needs      *)
(* (start, recovery, cancellation, shutdown), and the trainer as           *)
(* TrainerContract describes it, with the upload endpoint beside it.       *)
(*                                                                         *)
(* Every HTTP call may be lost before or after it took effect, the worker  *)
(* may be killed between any two calls, the trainer may stop or crash.     *)
(* A worker that outlives its backend is left to StudioJobs.               *)
(* The event stream and its polling fallback are one "look at the state".  *)
(***************************************************************************)
EXTENDS Naturals, FiniteSets

CONSTANTS
  Jobs,       \* ids the trainer may hand out, in order: a subset of Nat
  Chunks,     \* length of the snapshot archive
  RetryLimit, \* _TRANSFER_RETRY_LIMIT
  MaxFaults,  \* bound: lost calls, refused uploads, stops of the trainer
  MaxKills    \* bound: deaths of the worker and restarts of the Studio

None == 0

ASSUME ConstantsAssumption ==
  /\ Jobs \subseteq Nat \ {None}
  /\ Chunks \in Nat \ {0} /\ RetryLimit \in Nat
  /\ MaxFaults \in Nat /\ MaxKills \in Nat

VARIABLES
  remote, artifact, flagged, service,  \* the trainer (TrainerContract)
  staged,   \* bytes of the dataset the trainer reports to HEAD
  put,      \* the PUT of each job that was received in full, and its answer
  status,   \* the Studio's row
  saved,    \* payload.remote_job_id of the row
  cancel,   \* the job's cancel event
  studio,   \* "up", or "stopping" once the stop event is set
  pc,       \* where the worker is ("idle": there is none)
  rjob,     \* remote_job_id, as the worker knows it
  attempt,  \* attempts of upload_snapshot_http
  model,    \* "none", extracted "files" ("stray" once their worker died), or a "row" as well
  late,     \* the dispatcher of an ended run has outlived its join
  asked,    \* history: the user has asked to cancel
  halted,   \* history: the trainer has been shut down
  faults, kills

trainer == <<remote, artifact, flagged, service>>
upload  == <<staged, put>>
row     == <<status, saved>>
worker  == <<pc, rjob, attempt>>
control == <<cancel, studio>>
history == <<asked, halted>>
bounds  == <<faults, kills>>
vars == <<trainer, upload, row, worker, control, model, late, history, bounds>>

Trainer == INSTANCE TrainerContract

Terminal == {"COMPLETED", "FAILED", "CANCELED"}

Init ==
  /\ Trainer!Init
  /\ staged = [j \in Jobs |-> 0] /\ put = [j \in Jobs |-> "none"]
  /\ status = "PENDING" /\ saved = None
  /\ cancel = FALSE /\ studio = "up"
  /\ pc = "idle" /\ rjob = None /\ attempt = 0
  /\ model = "none" /\ late = FALSE
  /\ asked = FALSE /\ halted = FALSE
  /\ faults = 0 /\ kills = 0

Goto(label) == pc' = label /\ UNCHANGED <<rjob, attempt>>
Fault == faults < MaxFaults /\ faults' = faults + 1 /\ UNCHANGED kills
NoFault == UNCHANGED bounds
\* A call that goes unanswered: the service is not there, or the network is not.
Unanswered == (service # "up" /\ NoFault) \/ Fault
Studio == <<row, control, model, late, history>>

-----------------------------------------------------------------------------
(* Delivering the job. *)

(* _train_model up to backend.train: a cancellation that came before there  *)
(* is a remote job ends the job here.                                      *)
Prepare ==
  /\ pc = "prepare"
  /\ IF saved = None
     THEN Goto(IF cancel THEN "canceled" ELSE "submit")
     ELSE pc' = "reattach" /\ rjob' = saved /\ UNCHANGED attempt
  /\ UNCHANGED <<trainer, upload, Studio, bounds>>

(* submit_job, whose answer may be lost.                                   *)
SubmitJob(j) ==
  /\ pc = "submit"
  /\ \A i \in Jobs : i < j => remote[i] # "absent"
  /\ Trainer!Submit(j)
  /\ \/ pc' = "persist" /\ rjob' = j /\ UNCHANGED attempt /\ NoFault
     \/ Goto("failed") /\ Fault
  /\ UNCHANGED <<upload, Studio>>

SubmitUnanswered ==
  /\ pc = "submit"
  /\ Unanswered
  /\ Goto("failed")
  /\ UNCHANGED <<trainer, upload, Studio>>

(* on_remote_job_id: "Persist before the upload begins".                   *)
PersistRemoteJobId ==
  /\ pc = "persist"
  /\ saved' = rjob
  /\ Goto("offset")
  /\ UNCHANGED <<trainer, upload, status, control, model, late, history, bounds>>

(* _get_upload_offset: an answer other than 200, or none, fails the upload. *)
GetUploadOffset ==
  /\ pc = "offset"
  /\ \/ /\ service = "up"
        /\ Goto(IF remote[rjob] # "awaiting_dataset" THEN "failed"
                ELSE IF staged[rjob] = Chunks THEN "wait" ELSE "put")
        /\ NoFault
     \/ Unanswered /\ Goto("failed")
  /\ UNCHANGED <<trainer, upload, Studio>>

(* The except clause of upload_snapshot_http.                              *)
Retry ==
  IF attempt = RetryLimit THEN Goto("failed")
  ELSE pc' = "offset" /\ attempt' = attempt + 1 /\ UNCHANGED rjob

ShouldStop == cancel \/ studio = "stopping"

PutDataset ==
  /\ pc = "put" /\ ~ShouldStop
  /\ \/ /\ service = "up" /\ remote[rjob] = "awaiting_dataset"
        /\ staged' = [staged EXCEPT ![rjob] = Chunks]
        /\ put' = [put EXCEPT ![rjob] = "extract"]
        /\ Goto("reply") /\ NoFault
     \/ /\ service = "up" /\ remote[rjob] = "awaiting_dataset"   \* cut off, or no disk space
        /\ \E n \in {0} \cup (staged[rjob]..(Chunks - 1)) : staged' = [staged EXCEPT ![rjob] = n]
        /\ Retry /\ Fault
        /\ UNCHANGED put
     \/ /\ service = "up" /\ remote[rjob] # "awaiting_dataset"   \* 409 or 404
        /\ Retry /\ NoFault
        /\ UNCHANGED upload
     \/ Unanswered /\ Retry /\ UNCHANGED upload
  /\ UNCHANGED <<trainer, Studio>>

(* The answer to the PUT; a read timeout does not wait for the extraction.  *)
PutReply ==
  /\ pc = "reply"
  /\ \/ /\ put[rjob] = "ok" /\ Goto("wait") /\ NoFault
     \/ /\ put[rjob] = "error" /\ Retry /\ NoFault
     \/ /\ put[rjob] = "none" /\ Retry /\ NoFault     \* the trainer went down
     \/ /\ put[rjob] = "extract" /\ Retry /\ Fault
  /\ put' = [put EXCEPT ![rjob] = IF @ = "extract" THEN @ ELSE "none"]
  /\ UNCHANGED <<trainer, staged, Studio>>

-----------------------------------------------------------------------------
(* Waiting, ingesting, stopping. *)

(* train() with a remote_job_id.  _resume_pending_http_upload returns at    *)
(* once, for a reattaching worker has no snapshot.                         *)
Reattach ==
  /\ pc = "reattach" /\ ~cancel
  /\ Goto("wait")
  /\ UNCHANGED <<trainer, upload, Studio, bounds>>

(* _consume_event_stream or _poll_state, and _apply_state.  An outage keeps *)
(* the worker here.                                                        *)
Look ==
  /\ pc = "wait" /\ service = "up"
  /\ remote[rjob] \in Trainer!Ended \cup {"gone"}
  /\ Goto(CASE remote[rjob] = "completed" -> "download"
            [] remote[rjob] = "canceled" -> "canceled"
            [] OTHER -> "failed")
  /\ UNCHANGED <<trainer, upload, Studio, bounds>>

(* mutant: a truncated download is taken for the whole *)
DownloadTruncated ==
  /\ pc = "download" /\ ~ShouldStop
  /\ \/ service = "up" /\ rjob \in artifact /\ model' = "files" /\ NoFault
     \/ Fault /\ UNCHANGED model
  /\ Goto("delete")
  /\ UNCHANGED <<trainer, upload, row, control, late, history>>

(* _download_and_extract: transport errors lead back to the wait.          *)
Download ==
  /\ pc = "download" /\ ~ShouldStop
  /\ \/ /\ service = "up" /\ rjob \in artifact
        /\ model' = "files"
        /\ Goto("delete") /\ NoFault
     \/ /\ service = "up" /\ rjob \notin artifact
        /\ Goto("failed") /\ NoFault
        /\ UNCHANGED model
     \/ Unanswered /\ Goto("wait") /\ UNCHANGED model
     \/ Fault /\ Goto("failed") /\ UNCHANGED model     \* truncated, or no disk space
  /\ UNCHANGED <<trainer, upload, row, control, late, history>>

(* _delete_remote_job, best effort.                                        *)
DeleteRemoteJob ==
  /\ pc = "delete"
  /\ \/ Trainer!Withdraw(rjob) /\ NoFault
     \/ Unanswered /\ UNCHANGED trainer
  /\ Goto("trained")
  /\ UNCHANGED <<upload, Studio>>

(* mutant: a shutdown cancels the remote job like a user does *)
HandleStopCancels ==
  /\ pc \in {"put", "wait", "download"} /\ ShouldStop
  /\ Goto("canceled")
  /\ \/ Trainer!RequestCancel(rjob) /\ NoFault
     \/ Unanswered /\ UNCHANGED trainer
  /\ UNCHANGED <<upload, Studio>>

(* mutant: the wait does not look at the stop events *)
HandleStopNotWaiting ==
  /\ (pc \in {"put", "download"} /\ ShouldStop) \/ (pc = "reattach" /\ cancel)
  /\ IF cancel
     THEN /\ Goto("canceled")
          /\ \/ Trainer!RequestCancel(rjob) /\ NoFault
             \/ Unanswered /\ UNCHANGED trainer
     ELSE Goto("suspended") /\ UNCHANGED trainer /\ NoFault
  /\ UNCHANGED <<upload, Studio>>

(* The user's cancellation reaches the trainer if it can; a shutdown leaves *)
(* the remote job alone.                                                   *)
HandleStopRequest ==
  /\ \/ pc \in {"put", "wait", "download"} /\ ShouldStop
     \/ pc = "reattach" /\ cancel
  /\ IF cancel
     THEN /\ Goto("canceled")
          /\ \/ Trainer!RequestCancel(rjob) /\ NoFault
             \/ Unanswered /\ UNCHANGED trainer
             \/ /\ service = "up" /\ remote[rjob] \in Trainer!Ended \cup {"gone"}
                /\ UNCHANGED trainer /\ NoFault
     ELSE Goto("suspended") /\ UNCHANGED trainer /\ NoFault
  /\ \/ UNCHANGED staged
     \/ /\ pc = "put" /\ remote[rjob] = "awaiting_dataset"       \* stopped while streaming
        /\ \E n \in staged[rjob]..(Chunks - 1) : staged' = [staged EXCEPT ![rjob] = n]
  /\ UNCHANGED <<put, Studio>>

(* backend.train has returned: an interrupted run counts as cancelled.      *)
Trained ==
  /\ pc = "trained"
  /\ Goto(IF ShouldStop THEN "canceled" ELSE "completed")
  /\ UNCHANGED <<trainer, upload, Studio, bounds>>

(* The end of _train_model: join(timeout=10) on the dispatcher, which may   *)
(* expire, then the verdict.  The model row follows COMPLETED.             *)
WriteVerdict ==
  /\ pc \in {"completed", "failed", "canceled", "suspended"}
  /\ status' = CASE pc = "completed" -> "COMPLETED" [] pc = "failed" -> "FAILED"
                 [] pc = "canceled" -> "CANCELED" [] pc = "suspended" -> "PENDING"
  /\ \/ UNCHANGED late /\ NoFault
     \/ late' = TRUE /\ Fault
  /\ IF pc = "completed" THEN Goto("register")
     ELSE pc' = "idle" /\ rjob' = None /\ attempt' = 0
  /\ UNCHANGED <<trainer, upload, saved, control, model, history>>

(* _update_training_progress of a dispatcher that is still draining its     *)
(* queue: it writes RUNNING, whatever the row says.  The thread is not a    *)
(* daemon, so the process of the worker lives until then.                   *)
LateProgress ==
  /\ late
  /\ status' = "RUNNING" /\ late' = FALSE
  /\ UNCHANGED <<trainer, upload, saved, worker, control, model, history, bounds>>

CreateModel ==
  /\ pc = "register"
  /\ model' = "row"
  /\ pc' = "idle" /\ rjob' = None /\ attempt' = 0
  /\ UNCHANGED <<trainer, upload, row, control, late, history, bounds>>

-----------------------------------------------------------------------------
(* The scheduler and the user. *)

StartWorker ==
  /\ pc = "idle" /\ ~late /\ studio = "up" /\ status = "PENDING"
  /\ status' = "RUNNING"
  /\ pc' = "prepare" /\ UNCHANGED <<rjob, attempt>>
  /\ UNCHANGED <<trainer, upload, saved, control, model, late, history, bounds>>

(* mutant: every abandoned job is queued again *)
RecoverRequeues ==
  /\ pc = "idle" /\ ~late /\ status = "RUNNING"
  /\ status' = "PENDING"
  /\ UNCHANGED <<trainer, upload, saved, worker, control, model, late, history, bounds>>

(* mutant: a job with a remote id is left to a worker that is gone *)
RecoverLocalOnly ==
  /\ pc = "idle" /\ ~late /\ status = "RUNNING" /\ saved = None
  /\ status' = "FAILED"
  /\ UNCHANGED <<trainer, upload, saved, worker, control, model, late, history, bounds>>

(* abort_orphan_jobs: a job with a remote id is queued for reattachment.    *)
Recover ==
  /\ pc = "idle" /\ ~late /\ status = "RUNNING"
  /\ status' = IF saved # None THEN "PENDING" ELSE "FAILED"
  /\ UNCHANGED <<trainer, upload, saved, worker, control, model, late, history, bounds>>

(* interrupt_job                                                            *)
UserCancels ==
  /\ ~asked /\ status \in {"PENDING", "RUNNING"} /\ studio = "up"
  /\ asked' = TRUE
  /\ IF status = "PENDING" /\ saved = None
     THEN status' = "CANCELED" /\ UNCHANGED cancel
     ELSE cancel' = TRUE /\ UNCHANGED status
  /\ UNCHANGED <<trainer, upload, saved, worker, studio, model, late, halted, bounds>>

(* The worker is killed or dies.  The next one has an output directory of   *)
(* its own (a fresh uuid4) and never finds what this one extracted.         *)
Killed ==
  /\ pc # "idle" \/ late
  /\ kills < MaxKills /\ kills' = kills + 1
  /\ pc' = "idle" /\ rjob' = None /\ attempt' = 0
  /\ model' = IF model = "files" THEN "stray" ELSE model
  /\ late' = FALSE
  /\ UNCHANGED <<trainer, upload, row, control, history, faults>>

ShutdownStudio ==
  /\ studio = "up" /\ kills < MaxKills
  /\ kills' = kills + 1
  /\ studio' = "stopping"
  /\ UNCHANGED <<trainer, upload, row, worker, cancel, model, late, history, faults>>

RestartStudio ==
  /\ studio = "stopping" /\ pc = "idle" /\ ~late
  /\ studio' = "up" /\ cancel' = FALSE
  /\ UNCHANGED <<trainer, upload, row, worker, model, late, history, bounds>>

-----------------------------------------------------------------------------
(* The trainer. *)

(* validate_and_extract and the rest of upload_dataset; nobody reads the    *)
(* answer to a PUT that was given up.  An error the handler does not expect *)
(* leaves the staged file as it is.                                         *)
Extract(j) ==
  /\ put[j] = "extract"
  /\ \E answer \in {"ok", "error"} :
       /\ \/ staged' = [staged EXCEPT ![j] = 0]
          \/ answer = "error" /\ UNCHANGED staged
       /\ put' = [put EXCEPT ![j] = IF pc = "reply" THEN answer ELSE "none"]
       /\ IF answer = "ok" /\ remote[j] = "awaiting_dataset"
          THEN Trainer!Receive(j) ELSE UNCHANGED trainer
       /\ IF answer = "ok" THEN NoFault ELSE Fault
  /\ UNCHANGED <<worker, Studio>>

(* What the trainer does on its own account.  Its only client deletes a job *)
(* once it has the model.                                                   *)
TrainerMoves(j) ==
  /\ \/ Trainer!Begin(j) \/ Trainer!Complete(j) \/ Trainer!Fail(j) \/ Trainer!Cancel(j)
     \/ remote[j] = "completed" /\ Trainer!Remove(j)
  /\ UNCHANGED <<upload, worker, Studio, bounds>>

TrainerStops ==
  /\ Trainer!Stop /\ Fault
  /\ \A j \in Jobs : put[j] = "none"
  /\ halted' = TRUE
  /\ UNCHANGED <<upload, worker, row, control, model, late, asked>>

TrainerFlags == flagged # {j \in Jobs : remote[j] = "running"} /\ Trainer!FlagRunning
                /\ UNCHANGED <<upload, worker, Studio, bounds>>

TrainerDown ==
  /\ Trainer!Down
  /\ IF service = "stopping" THEN NoFault ELSE Fault
  /\ put' = [j \in Jobs |-> "none"]
  /\ UNCHANGED <<staged, worker, Studio>>

TrainerStarts == Trainer!Start /\ UNCHANGED <<upload, worker, Studio, bounds>>

-----------------------------------------------------------------------------
WorkerStep ==
  \/ Prepare \/ (\E j \in Jobs : SubmitJob(j)) \/ SubmitUnanswered \/ PersistRemoteJobId
  \/ GetUploadOffset \/ PutDataset \/ PutReply \/ Reattach \/ Look \/ Download
  \/ DeleteRemoteJob \/ HandleStopRequest \/ Trained \/ WriteVerdict \/ LateProgress
  \/ CreateModel

SchedulerStep == StartWorker \/ Recover \/ RestartStudio

Next ==
  \/ WorkerStep \/ SchedulerStep
  \/ UserCancels \/ Killed \/ ShutdownStudio
  \/ \E j \in Jobs : Extract(j) \/ TrainerMoves(j)
  \/ TrainerStops \/ TrainerFlags \/ TrainerDown \/ TrainerStarts

Spec == Init /\ [][Next]_vars

(* Worker and scheduler run; the trainer moves as its contract says (which *)
(* TrainerQueue keeps) and ends an extraction.  Faults and kills are       *)
(* bounded, so a call that is made again and again is answered in the end. *)
Fairness ==
  /\ WF_vars(WorkerStep) /\ WF_vars(SchedulerStep)
  /\ WF_vars(TrainerStarts) /\ WF_vars(service = "stopping" /\ TrainerDown)
  /\ \A j \in Jobs : WF_vars(Extract(j)) /\ WF_vars(TrainerMoves(j))

FairSpec == Spec /\ Fairness

-----------------------------------------------------------------------------
(* Every variable keeps the range the code gives it.                        *)
TypeOK ==
  /\ remote \in [Jobs -> Trainer!Ended \cup {"absent", "awaiting_dataset", "queued", "running", "gone"}]
  /\ artifact \subseteq Jobs /\ flagged \subseteq Jobs
  /\ service \in {"up", "stopping", "down"}
  /\ staged \in [Jobs -> 0..Chunks]
  /\ put \in [Jobs -> {"none", "extract", "ok", "error"}]
  /\ status \in Terminal \cup {"PENDING", "RUNNING"}
  /\ saved \in Jobs \cup {None} /\ rjob \in Jobs \cup {None}
  /\ attempt \in 0..RetryLimit
  /\ pc \in {"idle", "prepare", "submit", "persist", "offset", "put", "reply", "reattach", "wait",
             "download", "delete", "trained", "completed", "failed", "canceled", "suspended", "register"}
  /\ cancel \in BOOLEAN /\ late \in BOOLEAN /\ asked \in BOOLEAN /\ halted \in BOOLEAN
  /\ studio \in {"up", "stopping"} /\ model \in {"none", "files", "stray", "row"}

(* The Studio trains a job once: no lost answer, death, restart or recovery *)
(* leads to a second job on the trainer.                                    *)
OneRemoteJob == Cardinality({j \in Jobs : remote[j] # "absent"}) <= 1

(* The trainer's copy of a model is given up only while the worker has its  *)
(* own extracted copy: no lost answer, retry or reattachment deletes the    *)
(* remote job before that, and files of a worker that died do not count.    *)
ModelHandedOver ==
  [][\A j \in Jobs : j \in artifact /\ j \notin artifact' => model = "files"]_vars

(* ... and from then on the Studio keeps it: the worker registers it.       *)
ModelSurvives ==
  \A j \in Jobs : remote[j] \in {"completed", "gone"} /\ j \notin artifact =>
                   model = "row" \/ (model = "files" /\ pc # "idle")

(* A shutdown suspends: a remote job is cancelled only if the user asked    *)
(* for it or the trainer itself was shut down.                              *)
ShutdownKeepsRemote ==
  (\E j \in Jobs : remote[j] = "canceled" \/ j \in flagged) => asked \/ halted

(* Once the trainer has the dataset the Studio's job ends, through outages, *)
(* deaths of the worker, shutdowns and restarts of both sides.              *)
AcceptedJobEnds ==
  (\E j \in Jobs : j = saved /\ remote[j] \notin {"absent", "awaiting_dataset"})
    ~> status \in Terminal

(* A cancellation the Studio still knows of ends the job, whatever the      *)
(* trainer is doing and whether or not it can be reached.                   *)
CancelEnds == cancel ~> (status \in Terminal \/ ~cancel)

(* "Persist before the upload begins so a restart can resume it."  A job    *)
(* whose remote id was persisted ends.                                      *)
PersistedJobEnds == saved # None ~> status \in Terminal
=============================================================================
