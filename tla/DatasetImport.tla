---------------------------- MODULE DatasetImport ----------------------------
(***************************************************************************)
(* Dataset import: the requests that move a job through its steps           *)
(* (api/dataset_import.py, services/dataset_import/service.py, the interrupt *)
(* of api/job.py), the scheduler's single import slot (core/scheduler.py)    *)
(* and the worker process that runs one queued step                          *)
(* (workers/dataset_import_worker.py).                                       *)
(*                                                                           *)
(* A row is [status, step].  A request reads the row, awaits, and writes the *)
(* whole row it read with its changes merged in (repositories/base.py), so a *)
(* write can land on a row that has changed meanwhile.  The process of a     *)
(* backend that was killed goes on beside the next backend.                  *)
(***************************************************************************)
EXTENDS Naturals

CONSTANTS
    Jobs,           \* import jobs, numbered in the order of created_at
    Requests,       \* requests that may be in flight at a time
    MaxRequests,    \* bound: requests ever made after prepare
    MaxCrashes      \* bound: deaths of a worker, stops and kills of the backend

VARIABLES
    row,        \* [Jobs -> [status, step]]
    archive,    \* jobs whose staged archive is on disk
    dataset,    \* [Jobs -> datasets created for the job]
    req,        \* [Requests -> [job, kind, row]]: read, not yet written
    claim,      \* the job selected by the claim query, or None
    gen,        \* the backend that runs, numbered by the kills before it
    proc,       \* [Backends -> [job, pc, step]]: the process in the slot of each
                \* backend, and the step of the payload it holds
    sched,      \* "recover", "fail": in _recover_jobs; "poll" otherwise
    abandoned,  \* imports _recover_jobs has found RUNNING without a process
    confirmed,  \* history, [Jobs -> finalize requests that were accepted]
    shared,     \* history: jobs claimed while the process of a killed backend was on them
    lost,       \* history: jobs whose such process died since recovery last looked
    requests, crashes

history == <<confirmed, shared, lost>>
vars == <<row, archive, dataset, req, claim, gen, proc, sched, abandoned, history, requests, crashes>>

None == 0

ASSUME ConstantsAssumption ==
    /\ Jobs \subseteq Nat \ {None}
    /\ MaxRequests \in Nat /\ MaxCrashes \in Nat

Queued == {"queued_for_detection", "queued_for_import"}
Row(status, step) == [status |-> status, step |-> step]
Backends == 0..MaxCrashes
Idle == [job |-> None, pc |-> "none", step |-> "none"]
NoRequest == [job |-> None, kind |-> "none", row |-> Row("NONE", "none")]

Init ==
    /\ row = [j \in Jobs |-> Row("NONE", "none")]
    /\ archive = {}
    /\ dataset = [j \in Jobs |-> 0]
    /\ req = [r \in Requests |-> NoRequest]
    /\ claim = None
    /\ gen = 0 /\ proc = [g \in Backends |-> Idle]
    /\ sched = "recover" /\ abandoned = {}
    /\ confirmed = [j \in Jobs |-> 0] /\ shared = {} /\ lost = {}
    /\ requests = 0 /\ crashes = 0

(***************************************************************************)
(* The API.                                                                 *)
(***************************************************************************)
Prepare(j) ==
    /\ row[j].status = "NONE"
    /\ \A k \in Jobs : k < j => row[k].status # "NONE"
    /\ row' = [row EXCEPT ![j] = Row("PENDING", "awaiting_archive_upload")]
    /\ UNCHANGED <<archive, dataset, req, claim, gen, proc, sched, abandoned, history, requests, crashes>>

\* A request loads the job and validates its step (get_awaiting_upload_job,
\* _load_validated_dataset_import_job); interrupt looks at the status.
Accepts(kind, rw) ==
    CASE kind = "upload" -> rw.step = "awaiting_archive_upload"
      [] kind \in {"finalize", "cancel"} -> rw.step = "awaiting_user_review"
      [] kind = "interrupt" -> rw.status \in {"PENDING", "RUNNING"}

Read(r, j, kind) ==
    /\ req[r] = NoRequest
    /\ requests < MaxRequests
    /\ row[j].status # "NONE" /\ Accepts(kind, row[j])
    /\ requests' = requests + 1
    /\ req' = [req EXCEPT ![r] = [job |-> j, kind |-> kind, row |-> row[j]]]
    /\ UNCHANGED <<row, archive, dataset, claim, gen, proc, sched, abandoned, history, crashes>>

Answered(r) == req' = [req EXCEPT ![r] = NoRequest]

\* upload_dataset_import_archive: the archive is written under the staging id;
\* one that does not validate is removed again.
Upload(r, valid) ==
    /\ req[r].kind = "upload"
    /\ IF valid
         THEN /\ archive' = archive \union {req[r].job}
              /\ req' = [req EXCEPT ![r].kind = "attach"]
         ELSE /\ archive' = archive \ {req[r].job}
              /\ Answered(r)
    /\ UNCHANGED <<row, dataset, claim, gen, proc, sched, abandoned, history, requests, crashes>>

\* attach_dataset_import_archive loads the row again and re-checks its step.
CheckAttach(r) ==
    /\ req[r].kind = "attach"
    /\ IF Accepts("upload", row[req[r].job])
         THEN req' = [req EXCEPT ![r].kind = "attaching"]
         ELSE Answered(r)
    /\ UNCHANGED <<row, archive, dataset, claim, gen, proc, sched, abandoned, history, requests, crashes>>

Attach(r) ==
    /\ req[r].kind = "attaching"
    /\ row' = [row EXCEPT ![req[r].job] = Row("PENDING", "queued_for_detection")]
    /\ Answered(r)
    /\ UNCHANGED <<archive, dataset, claim, gen, proc, sched, abandoned, history, requests, crashes>>

\* finalize_dataset_import_job writes the row it read.
Finalize(r) ==
    /\ req[r].kind = "finalize"
    /\ row' = [row EXCEPT ![req[r].job] = Row("PENDING", "queued_for_import")]
    /\ confirmed' = [confirmed EXCEPT ![req[r].job] = @ + 1]
    /\ Answered(r)
    /\ UNCHANGED <<archive, dataset, claim, gen, proc, sched, abandoned, shared, lost, requests, crashes>>

\* cancel_dataset_import_job writes the row it read, then removes the archive.
Cancel(r) ==
    /\ req[r].kind = "cancel"
    /\ row' = [row EXCEPT ![req[r].job] = Row("CANCELED", req[r].row.step)]
    /\ archive' = archive \ {req[r].job}
    /\ Answered(r)
    /\ UNCHANGED <<dataset, claim, gen, proc, sched, abandoned, history, requests, crashes>>

\* interrupt_job of a job that is not a training job sets the status alone.
Interrupt(r) ==
    /\ req[r].kind = "interrupt"
    /\ row' = [row EXCEPT ![req[r].job].status = "CANCELED"]
    /\ Answered(r)
    /\ UNCHANGED <<archive, dataset, claim, gen, proc, sched, abandoned, history, requests, crashes>>

Respond(r) == \/ \E valid \in BOOLEAN : Upload(r, valid)
              \/ CheckAttach(r) \/ Attach(r) \/ Finalize(r) \/ Cancel(r) \/ Interrupt(r)

(***************************************************************************)
(* The scheduler's import slot.                                             *)
(***************************************************************************)
worker == proc[gen]
Alive(g) == proc[g].pc \notin {"none", "exited"}
LeftOn(j) == \E g \in Backends \ {gen} : Alive(g) /\ proc[g].job = j

Claimable(j) == row[j].status = "PENDING" /\ row[j].step \in Queued

ClaimSelect(j) ==
    /\ sched = "poll" /\ claim = None /\ worker = Idle
    /\ Claimable(j) /\ \A k \in Jobs : Claimable(k) => j <= k
    /\ claim' = j
    /\ UNCHANGED <<row, archive, dataset, req, gen, proc, sched, abandoned, history, requests, crashes>>

\* The UPDATE repeats the conditions; the row is returned, and a process
\* started for it, whether or not it matched.
ClaimUpdate ==
    /\ claim # None
    /\ row' = IF Claimable(claim) THEN [row EXCEPT ![claim].status = "RUNNING"] ELSE row
    /\ proc' = [proc EXCEPT ![gen] = [job |-> claim, pc |-> "load", step |-> "none"]]
    /\ shared' = IF LeftOn(claim) THEN shared \union {claim} ELSE shared
    /\ claim' = None
    /\ UNCHANGED <<archive, dataset, req, gen, sched, abandoned, confirmed, lost, requests, crashes>>

\* Mutant: the slot keeps the process that has exited.
ReapKeepsSlot ==
    /\ sched = "poll" /\ worker.pc = "exited"
    /\ sched' = "recover"
    /\ UNCHANGED <<row, archive, dataset, req, claim, gen, proc, abandoned, history, requests, crashes>>

\* _reap_processes: the slot is freed and the abandoned jobs are recovered.
Reap ==
    /\ sched = "poll" /\ worker.pc = "exited"
    /\ proc' = [proc EXCEPT ![gen] = Idle]
    /\ sched' = "recover"
    /\ UNCHANGED <<row, archive, dataset, req, claim, gen, abandoned, history, requests, crashes>>

\* Mutant: only the imports that had begun their step are looked for.
RecoverBegun ==
    /\ sched = "recover"
    /\ abandoned' = {j \in Jobs : row[j].status = "RUNNING" /\ row[j].step \notin Queued /\ worker.job # j}
    /\ sched' = "fail" /\ lost' = {}
    /\ UNCHANGED <<row, archive, dataset, req, claim, gen, proc, confirmed, shared, requests, crashes>>

\* _recover_jobs lists the imports that are RUNNING without a process, then
\* writes FAILED over the status each has by then.
Recover ==
    /\ sched = "recover"
    /\ abandoned' = {j \in Jobs : row[j].status = "RUNNING" /\ worker.job # j}
    /\ sched' = "fail" /\ lost' = {}
    /\ UNCHANGED <<row, archive, dataset, req, claim, gen, proc, confirmed, shared, requests, crashes>>

\* Mutant: an abandoned import is queued again, as a remote training job is.
FailAbandonedRequeues(j) ==
    /\ sched = "fail" /\ j \in abandoned
    /\ row' = [row EXCEPT ![j] = Row("PENDING", IF @.step = "importing_dataset" THEN "queued_for_import"
                                               ELSE "queued_for_detection")]
    /\ abandoned' = abandoned \ {j}
    /\ UNCHANGED <<archive, dataset, req, claim, gen, proc, sched, history, requests, crashes>>

FailAbandoned(j) ==
    /\ sched = "fail" /\ j \in abandoned
    /\ row' = [row EXCEPT ![j].status = "FAILED"]
    /\ abandoned' = abandoned \ {j}
    /\ UNCHANGED <<archive, dataset, req, claim, gen, proc, sched, history, requests, crashes>>

Recovered ==
    /\ sched = "fail" /\ abandoned = {}
    /\ sched' = "poll"
    /\ UNCHANGED <<row, archive, dataset, req, claim, gen, proc, abandoned, history, requests, crashes>>

\* What ends with a backend, and how the next one begins.
NewBackend ==
    /\ crashes < MaxCrashes
    /\ crashes' = crashes + 1
    /\ req' = [r \in Requests |-> NoRequest]
    /\ claim' = None
    /\ sched' = "recover" /\ abandoned' = {}
    /\ UNCHANGED <<row, archive, dataset, history, requests>>

\* An orderly stop takes the worker along: _shutdown_processes joins it, then
\* terminates it.
Restart ==
    /\ NewBackend
    /\ proc' = [proc EXCEPT ![gen] = Idle]
    /\ UNCHANGED gen

\* The backend is killed: its import process is no daemon and goes on.
Kill ==
    /\ NewBackend
    /\ gen' = gen + 1
    /\ UNCHANGED proc

(***************************************************************************)
(* The worker process of backend g, the current one or one that is gone.    *)
(***************************************************************************)
W(g) == proc[g].job
Goto(g, pc) == proc' = [proc EXCEPT ![g].pc = pc]
\* payload.step is assigned and the whole payload written with the status.
Write(g, status, step, pc) ==
    /\ row' = [row EXCEPT ![W(g)] = Row(status, step)]
    /\ proc' = [proc EXCEPT ![g].pc = pc, ![g].step = step]
WorkerOnly == UNCHANGED <<req, claim, gen, sched, abandoned, history, requests, crashes>>

\* run_loop: only a row that is RUNNING is processed.
Load(g) ==
    /\ proc[g].pc = "load"
    /\ proc' = [proc EXCEPT
                    ![g].pc = IF row[W(g)].status # "RUNNING" THEN "exited"
                           ELSE IF row[W(g)].step = "queued_for_detection" THEN "detect"
                           ELSE IF row[W(g)].step = "queued_for_import" THEN "commit"
                           ELSE "exited",
                    ![g].step = row[W(g)].step]
    /\ UNCHANGED <<row, archive, dataset>>
    /\ WorkerOnly

Detect(g) ==
    /\ proc[g].pc = "detect"
    /\ Write(g, "RUNNING", "detecting_format", "select")
    /\ UNCHANGED <<archive, dataset>>
    /\ WorkerOnly

\* The archive is opened and an adapter chosen, or the job fails.
Select(g) ==
    /\ proc[g].pc = "select"
    /\ \/ /\ W(g) \in archive
          /\ Write(g, "RUNNING", "building_manifest_draft", "draft")
       \/ /\ Goto(g, "fail")
          /\ UNCHANGED row
    /\ UNCHANGED <<archive, dataset>>
    /\ WorkerOnly

Draft(g) ==
    /\ proc[g].pc = "draft"
    /\ \/ /\ W(g) \in archive
          /\ Write(g, "PENDING", "awaiting_user_review", "exited")
       \/ /\ Goto(g, "fail")
          /\ UNCHANGED row
    /\ UNCHANGED <<archive, dataset>>
    /\ WorkerOnly

\* _fail_job_with_validation_report: FAILED is persisted, then the archive goes.
FailJob(g) ==
    /\ proc[g].pc = "fail"
    /\ Write(g, "FAILED", proc[g].step, "exited")
    /\ archive' = archive \ {W(g)}
    /\ UNCHANGED dataset
    /\ WorkerOnly

\* _run_commit: the pre-commit validation, then the step is announced.
CommitBegin(g) ==
    /\ proc[g].pc = "commit"
    /\ \/ /\ Write(g, "RUNNING", "importing_dataset", "import")
       \/ /\ Goto(g, "fail")
          /\ UNCHANGED row
    /\ UNCHANGED <<archive, dataset>>
    /\ WorkerOnly

\* Mutant: the failure of adapter.commit is swallowed.
ImportSwallows(g) ==
    /\ proc[g].pc = "import"
    /\ IF W(g) \in archive THEN dataset' = [dataset EXCEPT ![W(g)] = @ + 1] ELSE UNCHANGED dataset
    /\ Goto(g, "complete")
    /\ UNCHANGED <<row, archive>>
    /\ WorkerOnly

\* adapter.commit extracts the archive and persists the dataset row; when it
\* fails the finally removes the archive before the job is failed.
Import(g) ==
    /\ proc[g].pc = "import"
    /\ \/ /\ W(g) \in archive
          /\ dataset' = [dataset EXCEPT ![W(g)] = @ + 1]
          /\ Goto(g, "complete")
          /\ UNCHANGED archive
       \/ /\ archive' = archive \ {W(g)}
          /\ Goto(g, "fail")
          /\ UNCHANGED dataset
    /\ UNCHANGED row
    /\ WorkerOnly

\* COMPLETED is written; the finally of _run_commit removes the archive.
Complete(g) ==
    /\ proc[g].pc = "complete"
    /\ Write(g, "COMPLETED", "completed", "cleanup")
    /\ UNCHANGED <<archive, dataset>>
    /\ WorkerOnly

Cleanup(g) ==
    /\ proc[g].pc = "cleanup"
    /\ archive' = archive \ {W(g)}
    /\ Goto(g, "exited")
    /\ UNCHANGED <<row, dataset>>
    /\ WorkerOnly

WorkerStep(g) == Load(g) \/ Detect(g) \/ Select(g) \/ Draft(g) \/ FailJob(g) \/ CommitBegin(g)
                 \/ Import(g) \/ Complete(g) \/ Cleanup(g)

\* A process dies: the one in the slot is reaped, one left by a killed backend
\* is nobody's child.
WorkerDies(g) ==
    /\ Alive(g)
    /\ crashes < MaxCrashes
    /\ crashes' = crashes + 1
    /\ Goto(g, "exited")
    /\ lost' = IF g = gen THEN lost ELSE lost \union {W(g)}
    /\ UNCHANGED <<row, archive, dataset, req, claim, gen, sched, abandoned, confirmed, shared, requests>>

SchedulerStep == (\E j \in Jobs : ClaimSelect(j)) \/ ClaimUpdate \/ Reap \/ Recover
                 \/ (\E j \in Jobs : FailAbandoned(j)) \/ Recovered

Next ==
    \/ \E j \in Jobs : Prepare(j)
    \/ \E r \in Requests, j \in Jobs, kind \in {"upload", "finalize", "cancel", "interrupt"} : Read(r, j, kind)
    \/ \E r \in Requests : Respond(r)
    \/ SchedulerStep
    \/ \E g \in Backends : WorkerStep(g) \/ WorkerDies(g)
    \/ Restart \/ Kill

\* The scheduler thread polls, every worker process runs, and a request that was
\* read is answered; users and crashes need not come.
Fairness ==
    /\ WF_vars(SchedulerStep)
    /\ \A g \in Backends : WF_vars(WorkerStep(g))
    /\ \A r \in Requests : WF_vars(Respond(r))

Spec == Init /\ [][Next]_vars
FairSpec == Spec /\ Fairness

(***************************************************************************)
(* Properties.                                                              *)
(***************************************************************************)
Statuses == {"NONE", "PENDING", "RUNNING", "COMPLETED", "FAILED", "CANCELED"}
Steps == {"none", "awaiting_archive_upload", "queued_for_detection", "detecting_format",
          "building_manifest_draft", "awaiting_user_review", "queued_for_import",
          "importing_dataset", "completed"}
Rows == [status : Statuses, step : Steps]

\* Every part of the state keeps the shape of the data it stands for.
TypeOK ==
    /\ row \in [Jobs -> Rows]
    /\ archive \subseteq Jobs
    /\ dataset \in [Jobs -> Nat] /\ confirmed \in [Jobs -> Nat]
    /\ req \in [Requests -> [job : Jobs \union {None}, row : Rows,
                  kind : {"none", "upload", "attach", "attaching", "finalize", "cancel", "interrupt"}]]
    /\ claim \in Jobs \union {None}
    /\ gen \in Backends /\ crashes \in Backends
    /\ proc \in [Backends -> [job : Jobs \union {None}, step : Steps,
                   pc : {"none", "load", "detect", "select", "draft", "fail", "commit",
                         "import", "complete", "cleanup", "exited"}]]
    /\ sched \in {"recover", "fail", "poll"} /\ abandoned \subseteq Jobs
    /\ shared \subseteq Jobs /\ lost \subseteq Jobs

\* COMPLETED is never a promise: the dataset row is there, whatever requests
\* rewrote the job and whichever process died on the way.
CompletedHasDataset ==
    \A j \in Jobs : row[j].status = "COMPLETED" => dataset[j] > 0

\* Every commit spends one confirmation of the user: no death, recovery, late
\* write or second upload makes a worker import what was finalized once twice,
\* unless the job was claimed while the process of a killed backend was on it.
CommitIsConfirmed ==
    \A j \in Jobs \ shared : dataset[j] <= confirmed[j]

\* The same without the exception, as the one import slot of scheduler.py:109
\* suggests.  TLC refutes it: a late second upload queues the job again under a
\* worker, the backend is killed, and both processes commit one confirmation.
ConfirmedCommitsOnce ==
    \A j \in Jobs : dataset[j] <= confirmed[j]

\* No import stays RUNNING: it finishes, waits for its user or is failed by
\* the recovery, also when its worker or the backend died.  Only a process left
\* by a killed backend that dies itself leaves its row until recovery next looks.
RunningEnds ==
    \A j \in Jobs : row[j].status = "RUNNING" ~> row[j].status # "RUNNING" \/ j \in lost

\* A queued job is taken up: the slot does not stay blocked by a job that was
\* canceled between the claim's query and its update, or by a dead process.
QueuedIsTaken ==
    \A j \in Jobs : Claimable(j) ~> ~Claimable(j)

\* A job that was canceled does not come back (api/job.py, interrupt_job).  TLC
\* refutes it: cancel leaves the step at awaiting_user_review, which is all that
\* finalize looks at, and the worker writes its next step over an interrupt.
CanceledStays ==
    [][\A j \in Jobs : row[j].status = "CANCELED" => row'[j].status = "CANCELED"]_vars
=============================================================================
