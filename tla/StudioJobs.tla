----------------------------- MODULE StudioJobs -----------------------------
(***************************************************************************)
(* Training jobs of one Physical AI Studio backend: the job rows in the    *)
(* database, the JobScheduler thread that reserves a training target and   *)
(* starts one worker process per job, the worker with its progress         *)
(* dispatcher thread, the HTTP handlers that submit, interrupt and delete  *)
(* a job, and the shutdown, crash and restart of the backend.              *)
(*                                                                         *)
(* A worker is named by <<generation of the backend that started it, job>> *)
(* because a worker outlives a crash of its parent until it notices that   *)
(* the parent died.  What a training backend does between its start and    *)
(* its end is left open here: it succeeds, fails, is cancelled, or (remote *)
(* targets only) is suspended.                                             *)
(***************************************************************************)
EXTENDS Naturals

CONSTANTS
  NumJobs,        \* jobs are 1..NumJobs, in the order of their created_at
  Trainers, Units, \* remote trainers; their devices and (batch) policies
  Target,         \* the target key of each job
  MaxRestarts,    \* bound on restarts of the backend
  MaxFaults,      \* bound on worker deaths, failed starts, scheduler errors
  MaxCrashes,     \* bound on abrupt deaths of the backend process
  JoinCanTimeOut, \* whether the dispatcher may outlive join(timeout=10)
  NoDevice        \* "no device selected": the whole remote trainer

Jobs == 1..NumJobs
Gens == 0..MaxRestarts
Workers == Gens \X Jobs

(***************************************************************************)
(* target_key: "local", "remote:<trainer>[:<device>]" or                   *)
(* "batch:<trainer>:<policy>"; unit is the device or the policy.           *)
(***************************************************************************)
TargetKeys ==
  [kind : {"local", "remote", "batch"}, trainer : Trainers, unit : Units \cup {NoDevice}]

ASSUME ConstantsAssumption ==
  /\ NumJobs \in Nat
  /\ MaxRestarts \in Nat
  /\ MaxFaults \in Nat
  /\ MaxCrashes \in Nat
  /\ JoinCanTimeOut \in BOOLEAN
  /\ Target \in [Jobs -> TargetKeys]

VARIABLES
  status,       \* jobs.status of each row ("NONE": not submitted, "DELETED")
  remoteId,     \* jobs whose stored payload carries a remote_job_id
  model,        \* jobs whose trained model has a row
  studio,       \* life of the backend process
  gen,          \* its generation
  pc,           \* where the scheduler thread is
  cont,         \* where _recover_jobs returns to
  recovered,    \* local flag of _run_loop
  processes,    \* jobs holding a reservation (values of Scheduler.processes)
  todo,         \* reservations _reap_processes has still to look at
  seen,         \* the row it read for a dead process, before it acts on it
  scan,         \* jobs _recover_jobs has still to update
  listed,       \* pending jobs _schedule_jobs has still to look at
  cancelEvents, \* jobs whose entry of _cancel_events is set
  api,          \* the interrupt request in flight for each job
  worker,       \* the worker processes
  faults, crashes,
  asked         \* history: the <<generation, job>> whose cancellation was signalled

dbVars    == <<status, remoteId, model>>
loopVars  == <<pc, cont, recovered, processes, todo, seen, scan, listed>>
boundVars == <<faults, crashes>>
vars == <<dbVars, studio, gen, loopVars, cancelEvents, api, worker, boundVars, asked>>

-----------------------------------------------------------------------------
Live     == {"PENDING", "RUNNING"}
Terminal == {"COMPLETED", "FAILED", "CANCELED"}
Statuses == Live \cup Terminal \cup {"NONE", "DELETED"}

IsRemote(j) == Target[j].kind # "local"

(* _target_is_busy: an exact match, or a remote device against its whole    *)
(* trainer (one key is a prefix of the other).                              *)
Overlaps(t, key) ==
  \/ t = key
  \/ /\ t.kind = "remote" /\ key.kind = "remote"
     /\ t.trainer = key.trainer
     /\ NoDevice \in {t.unit, key.unit}

(* mutant: only equal keys conflict *)
BusyExactOnly(j) == \E i \in processes : Target[j] = Target[i]

Busy(j) == \E i \in processes : Overlaps(Target[j], Target[i])

(* A payload with a remote id can be reattached to by a later worker.       *)
Reattachable(j) == IsRemote(j) /\ j \in remoteId

WorkerPcs == {"none", "claim", "prepare", "check", "train", "join", "write", "model", "linger"}
Outcomes  == {"none", "suspended", "error", "interrupted", "ok"}

(* remote: the payload read when claiming had a remote_job_id; queue: a     *)
(* progress report waits in the dispatcher; out: how training ended;        *)
(* cancel: what an orphan can still see of its cancel event.                *)
WorkerState ==
  [pc : WorkerPcs, remote : BOOLEAN, queue : BOOLEAN, out : Outcomes, cancel : BOOLEAN]

NoWorker ==
  [pc |-> "none", remote |-> FALSE, queue |-> FALSE, out |-> "none", cancel |-> FALSE]

Alive(w) == worker[w].pc # "none"

Mine(j) == <<gen, j>>

(* StoppableMixin.should_stop: the stop event is set or the parent died.    *)
ShouldStop(w) == w[1] # gen \/ studio # "up"

CancelSet(w) == IF w[1] = gen THEN w[2] \in cancelEvents ELSE worker[w].cancel

ShouldInterrupt(w) == ShouldStop(w) \/ CancelSet(w)

(* update_job_status: an unconditional UPDATE of an existing row.           *)
Write(j, s) ==
  status' = [status EXCEPT ![j] = IF @ = "DELETED" THEN @ ELSE s]

(* What _reap_processes read of the job of a dead process.                  *)
Reads == [job : Jobs, status : Statuses, reattaching : BOOLEAN]
Nothing == [job |-> 0, status |-> "NONE", reattaching |-> FALSE]

Init ==
  /\ status = [j \in Jobs |-> "NONE"]
  /\ remoteId = {}
  /\ model = {}
  /\ studio = "up"
  /\ gen = 0
  /\ pc = "poll"
  /\ cont = "begin"
  /\ recovered = FALSE
  /\ processes = {}
  /\ todo = {}
  /\ seen = Nothing
  /\ scan = {}
  /\ listed = {}
  /\ cancelEvents = {}
  /\ api = [j \in Jobs |-> "idle"]
  /\ worker = [w \in Workers |-> NoWorker]
  /\ faults = 0
  /\ crashes = 0
  /\ asked = {}

-----------------------------------------------------------------------------
(* HTTP handlers (the API event loop). *)

(* submit_train_job: the row is saved as PENDING, in created_at order.      *)
SubmitTrainJob(j) ==
  /\ studio = "up"
  /\ status[j] = "NONE"
  /\ \A i \in 1..(j - 1) : status[i] # "NONE"
  /\ status' = [status EXCEPT ![j] = "PENDING"]
  /\ UNCHANGED <<remoteId, model, studio, gen, loopVars, cancelEvents, api, worker, boundVars, asked>>

(* interrupt_job, first read: finished jobs are refused or ignored.         *)
InterruptRead(j) ==
  /\ studio = "up"
  /\ api[j] = "idle"
  /\ status[j] \in Live
  /\ api' = [api EXCEPT ![j] = "cancelling"]
  /\ UNCHANGED <<dbVars, studio, gen, loopVars, cancelEvents, worker, boundVars, asked>>

(* transition_pending_train_job(CANCELED): one conditional UPDATE.          *)
CancelPending(j) ==
  /\ api[j] = "cancelling"
  /\ IF status[j] = "PENDING" /\ ~Reattachable(j)
     THEN /\ status' = [status EXCEPT ![j] = "CANCELED"]
          /\ api' = [api EXCEPT ![j] = "idle"]
     ELSE /\ api' = [api EXCEPT ![j] = "signalling"]
          /\ UNCHANGED status
  /\ UNCHANGED <<remoteId, model, studio, gen, loopVars, cancelEvents, worker, boundVars, asked>>

(* Scheduler.cancel_job, called when the conditional update changed nothing *)
CancelJob(j) ==
  /\ api[j] = "signalling"
  /\ api' = [api EXCEPT ![j] = "idle"]
  /\ cancelEvents' = cancelEvents \cup {j}
  /\ asked' = asked \cup {Mine(j)}
  /\ UNCHANGED <<dbVars, studio, gen, loopVars, worker, boundVars>>

DeleteJob(j) ==
  /\ studio = "up"
  /\ status[j] \in {"FAILED", "CANCELED"}
  /\ status' = [status EXCEPT ![j] = "DELETED"]
  /\ UNCHANGED <<remoteId, model, studio, gen, loopVars, cancelEvents, api, worker, boundVars, asked>>

-----------------------------------------------------------------------------
(* The JobScheduler thread. *)

schedOnly == <<remoteId, model, studio, gen, api, crashes, asked>>

(* mutant: the loop starts without reconciling *)
PollWithoutRecovery ==
  /\ pc = "poll"
  /\ studio \in {"up", "stopping"}
  /\ IF studio = "up" THEN pc' = "reap" /\ todo' = processes ELSE pc' = "shutdown" /\ UNCHANGED todo
  /\ UNCHANGED <<schedOnly, status, cont, recovered, processes, seen, scan, listed, cancelEvents, worker, faults>>

(* Head of the loop: stop, reconcile first, or start reaping.               *)
Poll ==
  /\ pc = "poll"
  /\ studio \in {"up", "stopping"}
  /\ \/ /\ studio = "stopping"
        /\ pc' = "shutdown"
        /\ UNCHANGED <<cont, todo>>
     \/ /\ studio = "up" /\ ~recovered
        /\ pc' = "recover" /\ cont' = "begin"
        /\ UNCHANGED todo
     \/ /\ studio = "up" /\ recovered
        /\ pc' = "reap" /\ todo' = processes
        /\ UNCHANGED cont
  /\ UNCHANGED <<schedOnly, status, recovered, processes, seen, scan, listed, cancelEvents, worker, faults>>

(* mutant: reserved jobs are not excluded *)
RecoverReadAll ==
  /\ pc = "recover"
  /\ scan' = {j \in Jobs : status[j] = "RUNNING"}
  /\ pc' = "recovering"
  /\ UNCHANGED <<schedOnly, status, cont, recovered, processes, todo, seen, listed, cancelEvents, worker, faults>>

(* _recover_jobs: read the RUNNING rows that no reservation covers.         *)
RecoverRead ==
  /\ pc = "recover"
  /\ scan' = {j \in Jobs : status[j] = "RUNNING"} \ processes
  /\ pc' = "recovering"
  /\ UNCHANGED <<schedOnly, status, cont, recovered, processes, todo, seen, listed, cancelEvents, worker, faults>>

(* abort_orphan_jobs, one row: requeue what can be reattached, else fail it *)
RecoverOne(j) ==
  /\ pc = "recovering"
  /\ j \in scan
  /\ status[j] # "DELETED"
  /\ scan' = scan \ {j}
  /\ Write(j, IF Reattachable(j) THEN "PENDING" ELSE "FAILED")
  /\ UNCHANGED <<schedOnly, pc, cont, recovered, processes, todo, seen, listed, cancelEvents, worker, faults>>

RecoverDone ==
  /\ pc = "recovering"
  /\ scan = {}
  /\ \/ /\ cont = "begin"
        /\ recovered' = TRUE /\ pc' = "reap" /\ todo' = processes
        /\ UNCHANGED studio
     \/ /\ cont = "reap"
        /\ pc' = "reap"
        /\ UNCHANGED <<recovered, todo, studio>>
     \/ /\ cont = "down"
        /\ studio' = "down" /\ pc' = "poll"
        /\ UNCHANGED <<recovered, todo>>
  /\ UNCHANGED <<dbVars, gen, cont, processes, seen, scan, listed, cancelEvents, api, worker, boundVars, asked>>

(* _reap_processes, a live process.                                         *)
ReapSkip(j) ==
  /\ pc = "reap"
  /\ j \in todo
  /\ Alive(Mine(j))
  /\ todo' = todo \ {j}
  /\ UNCHANGED <<schedOnly, status, pc, cont, recovered, processes, seen, scan, listed, cancelEvents, worker, faults>>

(* _reap_processes, a dead one: its row is read...                          *)
ReapRead(j) ==
  /\ pc = "reap"
  /\ j \in todo
  /\ ~Alive(Mine(j))
  /\ seen' = [job |-> j, status |-> status[j],
              reattaching |-> status[j] \in Live /\ Reattachable(j)]
  /\ pc' = "reaped"
  /\ UNCHANGED <<schedOnly, status, cont, recovered, processes, todo, scan, listed, cancelEvents, worker, faults>>

(* A job its worker never claimed is failed, unless the backend stops.      *)
FailsUnclaimed == seen.status = "PENDING" /\ ~seen.reattaching /\ studio = "up"

(* update_job_status raises for a row that was deleted meanwhile.           *)
RowIsGone ==
  \/ pc = "recovering" /\ \E j \in scan : status[j] = "DELETED"
  \/ pc = "reaped" /\ FailsUnclaimed /\ status[seen.job] = "DELETED"

(* mutant: the event is dropped although a worker will reattach *)
ReapDeadDropsEvent ==
  LET j == seen.job IN
  /\ pc = "reaped"
  /\ ~RowIsGone
  /\ IF FailsUnclaimed THEN Write(j, "FAILED") ELSE UNCHANGED status
  /\ cancelEvents' = cancelEvents \ {j}
  /\ processes' = processes \ {j}
  /\ todo' = todo \ {j}
  /\ seen' = Nothing
  /\ pc' = "recover" /\ cont' = "reap"
  /\ UNCHANGED <<schedOnly, recovered, scan, listed, worker, faults>>

(* mutant: no reconciliation after a worker's exit *)
ReapDeadWithoutRecovery ==
  LET j == seen.job IN
  /\ pc = "reaped"
  /\ ~RowIsGone
  /\ IF FailsUnclaimed THEN Write(j, "FAILED") ELSE UNCHANGED status
  /\ cancelEvents' = IF seen.reattaching THEN cancelEvents ELSE cancelEvents \ {j}
  /\ processes' = processes \ {j}
  /\ todo' = todo \ {j}
  /\ seen' = Nothing
  /\ pc' = "reap"
  /\ UNCHANGED <<schedOnly, cont, recovered, scan, listed, worker, faults>>

(* ... then a job its worker never claimed is failed, the cancel event is   *)
(* dropped unless a worker will reattach, the reservation is released, and  *)
(* _recover_jobs reconciles.                                                *)
ReapDead ==
  LET j == seen.job IN
  /\ pc = "reaped"
  /\ ~RowIsGone
  /\ IF FailsUnclaimed THEN Write(j, "FAILED") ELSE UNCHANGED status
  /\ cancelEvents' = IF seen.reattaching THEN cancelEvents ELSE cancelEvents \ {j}
  /\ processes' = processes \ {j}
  /\ todo' = todo \ {j}
  /\ seen' = Nothing
  /\ pc' = "recover" /\ cont' = "reap"
  /\ UNCHANGED <<schedOnly, recovered, scan, listed, worker, faults>>

(* End of _reap_processes: forget events of jobs that are over; then read   *)
(* the pending jobs (_schedule_jobs).                                       *)
SweepAndList ==
  /\ pc = "reap"
  /\ todo = {}
  /\ cancelEvents' = {j \in cancelEvents : j \in processes \/ status[j] \in Live}
  /\ listed' = {j \in Jobs : status[j] = "PENDING"}
  /\ pc' = "start"
  /\ UNCHANGED <<schedOnly, status, cont, recovered, processes, todo, seen, scan, worker, faults>>

(* mutant: the pending jobs are not ordered *)
FirstUnordered(j) == j \in listed

(* _schedule_jobs looks at the jobs in submission order.                    *)
First(j) == j \in listed /\ \A i \in listed : j <= i

StartSkip(j) ==
  /\ pc = "start"
  /\ First(j)
  /\ Busy(j) \/ studio # "up"
  /\ listed' = listed \ {j}
  /\ UNCHANGED <<schedOnly, status, pc, cont, recovered, processes, todo, seen, scan, cancelEvents, worker, faults>>

(* _start_job: reserve the target, then start the process.                  *)
StartJob(j) ==
  /\ pc = "start"
  /\ First(j)
  /\ ~Busy(j)
  /\ studio = "up"
  /\ processes' = processes \cup {j}
  /\ worker' = [worker EXCEPT ![Mine(j)] = [NoWorker EXCEPT !.pc = "claim"]]
  /\ listed' = listed \ {j}
  /\ UNCHANGED <<schedOnly, status, pc, cont, recovered, todo, seen, scan, cancelEvents, faults>>

(* process.start() raises: the reservation stays, the loop retries.         *)
StartFails(j) ==
  /\ pc = "start"
  /\ First(j)
  /\ ~Busy(j)
  /\ studio = "up"
  /\ faults < MaxFaults
  /\ faults' = faults + 1
  /\ processes' = processes \cup {j}
  /\ listed' = {} /\ recovered' = FALSE /\ pc' = "poll"
  /\ UNCHANGED <<schedOnly, status, cont, todo, seen, scan, cancelEvents, worker>>

StartDone ==
  /\ pc = "start"
  /\ listed = {}
  /\ pc' = "poll"
  /\ UNCHANGED <<schedOnly, status, cont, recovered, processes, todo, seen, scan, listed, cancelEvents, worker, faults>>

(* An exception leaves the loop body: reconcile again on the next poll.  In *)
(* the recovery at shutdown it is logged and the thread ends.               *)
Unwind ==
  /\ pc' = "poll"
  /\ todo' = {} /\ seen' = Nothing /\ scan' = {} /\ listed' = {}
  /\ IF cont = "down"
     THEN studio' = "down" /\ UNCHANGED recovered
     ELSE recovered' = FALSE /\ UNCHANGED studio
  /\ UNCHANGED <<dbVars, gen, cont, processes, cancelEvents, api, worker, crashes, asked>>

(* Any statement of the loop may raise (the database is locked, say).       *)
SchedulerError ==
  /\ pc \in {"recover", "recovering", "reap", "reaped", "start"}
  /\ faults < MaxFaults
  /\ faults' = faults + 1
  /\ Unwind

RowGone == RowIsGone /\ Unwind /\ UNCHANGED faults

(* Scheduler.shutdown sets the stop event.  The HTTP server has drained its *)
(* requests by then.                                                        *)
Shutdown ==
  /\ studio = "up"
  /\ gen < MaxRestarts
  /\ \A j \in Jobs : api[j] = "idle"
  /\ studio' = "stopping"
  /\ UNCHANGED <<dbVars, gen, loopVars, cancelEvents, api, worker, boundVars, asked>>

(* _shutdown_processes: a worker that outstays its join is killed.          *)
KillWorker(j) ==
  /\ pc = "shutdown"
  /\ j \in processes
  /\ Alive(Mine(j))
  /\ worker' = [worker EXCEPT ![Mine(j)] = NoWorker]
  /\ UNCHANGED <<schedOnly, status, loopVars, cancelEvents, faults>>

ShutdownProcesses ==
  /\ pc = "shutdown"
  /\ \A j \in processes : ~Alive(Mine(j))
  /\ processes' = {} /\ cancelEvents' = {}
  /\ pc' = "recover" /\ cont' = "down"
  /\ UNCHANGED <<schedOnly, status, recovered, todo, seen, scan, listed, worker, faults>>

-----------------------------------------------------------------------------
(* The worker process of one job. *)

workerOnly == <<model, studio, gen, loopVars, cancelEvents, api, crashes, asked>>

To(w, next) == worker' = [worker EXCEPT ![w].pc = next]

(* mutant: the claim is not conditional on PENDING *)
ClaimAlways(w) ==
  LET j == w[2] IN
  /\ worker[w].pc = "claim"
  /\ IF ~ShouldStop(w)
     THEN /\ status' = [status EXCEPT ![j] = "RUNNING"]
          /\ worker' = [worker EXCEPT ![w].pc = "prepare", ![w].remote = Reattachable(j)]
     ELSE /\ worker' = [worker EXCEPT ![w] = NoWorker]
          /\ UNCHANGED status
  /\ UNCHANGED <<workerOnly, remoteId, faults>>

(* run_loop: give up when stopping; claim PENDING -> RUNNING or exit.       *)
Claim(w) ==
  LET j == w[2] IN
  /\ worker[w].pc = "claim"
  /\ IF ~ShouldStop(w) /\ status[j] = "PENDING"
     THEN /\ status' = [status EXCEPT ![j] = "RUNNING"]
          /\ worker' = [worker EXCEPT ![w].pc = "prepare", ![w].remote = Reattachable(j)]
     ELSE /\ worker' = [worker EXCEPT ![w] = NoWorker]
          /\ UNCHANGED status
  /\ UNCHANGED <<workerOnly, remoteId, faults>>

(* The end of preparation: "Training started" is written, the dispatcher    *)
(* thread starts.  repo.update merges the whole row.                        *)
StartTraining(w) ==
  /\ worker[w].pc = "prepare"
  /\ status' = [status EXCEPT ![w[2]] = "RUNNING"]
  /\ To(w, "check")
  /\ UNCHANGED <<workerOnly, remoteId, faults>>

(* A cancellation during preparation ends the job unless a remote run has   *)
(* to be cancelled by its backend.                                          *)
CheckCancel(w) ==
  /\ worker[w].pc = "check"
  /\ IF CancelSet(w) /\ ~worker[w].remote
     THEN worker' = [worker EXCEPT ![w].pc = "join", ![w].out = "interrupted"]
     ELSE To(w, "train")
  /\ UNCHANGED <<workerOnly, status, remoteId, faults>>

(* The backend reports progress to the dispatcher's queue.                  *)
Report(w) ==
  /\ worker[w].pc = "train"
  /\ ~worker[w].queue
  /\ worker' = [worker EXCEPT ![w].queue = TRUE]
  /\ UNCHANGED <<workerOnly, status, remoteId, faults>>

(* TrainingTrackingDispatcher._drain_one: RUNNING is written whatever the   *)
(* row says.                                                                *)
DrainOne(w) ==
  /\ Alive(w) /\ worker[w].queue
  /\ Write(w[2], "RUNNING")
  /\ worker' = [worker EXCEPT ![w] =
       IF @.pc = "linger" THEN NoWorker ELSE [@ EXCEPT !.queue = FALSE]]
  /\ UNCHANGED <<workerOnly, remoteId, faults>>

(* _persist_remote_job_id, once the trainer accepted the job.               *)
PersistRemoteId(w) ==
  LET j == w[2] IN
  /\ worker[w].pc = "train"
  /\ IsRemote(j) /\ ~worker[w].remote
  /\ status[j] # "DELETED"
  /\ remoteId' = remoteId \cup {j}
  /\ worker' = [worker EXCEPT ![w].remote = TRUE]
  /\ UNCHANGED <<workerOnly, status, faults>>

(* backend.train returns; a stop request seen now counts as interruption.   *)
TrainReturns(w) ==
  /\ worker[w].pc = "train"
  /\ IsRemote(w[2]) => worker[w].remote
  /\ worker' = [worker EXCEPT ![w].pc = "join",
                  ![w].out = IF ShouldInterrupt(w) THEN "interrupted" ELSE "ok"]
  /\ UNCHANGED <<workerOnly, status, remoteId, faults>>

(* backend.train raises: an error, or - remote targets only - the run was   *)
(* cancelled, or suspended at shutdown (a user's cancellation wins).        *)
TrainRaises(w) ==
  /\ worker[w].pc = "train"
  /\ \E out \in {"error", "interrupted", "suspended"} :
       /\ out = "interrupted" => IsRemote(w[2])
       /\ out = "suspended" => worker[w].remote /\ ShouldStop(w) /\ ~CancelSet(w)
       /\ worker' = [worker EXCEPT ![w].pc = "join", ![w].out = out]
  /\ UNCHANGED <<workerOnly, status, remoteId, faults>>

(* dispatcher.join(timeout=10) *)
JoinDispatcher(w) ==
  /\ worker[w].pc = "join"
  /\ \/ ~worker[w].queue /\ To(w, "write")
     \/ worker[w].queue /\ JoinCanTimeOut /\ To(w, "write")
  /\ UNCHANGED <<workerOnly, status, remoteId, faults>>

(* mutant: a status the jobs table does not know *)
FinalStatusSuspended(out) ==
  CASE out = "suspended" -> "SUSPENDED"
    [] out = "error" -> "FAILED"
    [] out = "interrupted" -> "CANCELED"
    [] OTHER -> "COMPLETED"

FinalStatus(out) ==
  CASE out = "suspended" -> "PENDING"
    [] out = "error" -> "FAILED"
    [] out = "interrupted" -> "CANCELED"
    [] OTHER -> "COMPLETED"

(* A worker whose dispatcher still has an update to write stays alive: the  *)
(* interpreter joins the thread before the process exits.                   *)
Exit(w) == IF worker[w].queue THEN [worker[w] EXCEPT !.pc = "linger"] ELSE NoWorker

(* The terminal write (PENDING when suspended).                             *)
WriteOutcome(w) ==
  LET j == w[2]
      out == worker[w].out IN
  /\ worker[w].pc = "write"
  /\ Write(j, FinalStatus(out))
  /\ worker' = [worker EXCEPT ![w] =
       IF out = "ok" /\ status[j] # "DELETED" THEN [@ EXCEPT !.pc = "model"] ELSE Exit(w)]
  /\ UNCHANGED <<workerOnly, remoteId, faults>>

(* ModelService.create_model commits after the COMPLETED status did.        *)
CreateModel(w) ==
  /\ worker[w].pc = "model"
  /\ model' = model \cup {w[2]}
  /\ worker' = [worker EXCEPT ![w] = Exit(w)]
  /\ UNCHANGED <<status, remoteId, studio, gen, loopVars, cancelEvents, api, boundVars, asked>>

(* The process dies: an exception outside the try block of _train_model     *)
(* (preparation), a kill, an out-of-memory death.                           *)
WorkerDies(w) ==
  /\ Alive(w)
  /\ faults < MaxFaults
  /\ faults' = faults + 1
  /\ worker' = [worker EXCEPT ![w] = NoWorker]
  /\ UNCHANGED <<workerOnly, status, remoteId>>

-----------------------------------------------------------------------------
(* Life of the backend process. *)

(* Abrupt death: memory is lost, the workers of this generation go on.      *)
Crash ==
  /\ studio \in {"up", "stopping"}
  /\ crashes < MaxCrashes
  /\ gen < MaxRestarts
  /\ crashes' = crashes + 1
  /\ studio' = "down"
  /\ worker' = [w \in Workers |->
       IF w[1] = gen /\ Alive(w)
       THEN [worker[w] EXCEPT !.cancel = w[2] \in cancelEvents] ELSE worker[w]]
  /\ processes' = {} /\ cancelEvents' = {}
  /\ todo' = {} /\ seen' = Nothing /\ scan' = {} /\ listed' = {}
  /\ api' = [j \in Jobs |-> "idle"]
  /\ pc' = "poll"
  /\ UNCHANGED <<dbVars, gen, cont, recovered, faults, asked>>

Restart ==
  /\ studio = "down"
  /\ gen < MaxRestarts
  /\ gen' = gen + 1
  /\ studio' = "up"
  /\ pc' = "poll" /\ cont' = "begin" /\ recovered' = FALSE
  /\ UNCHANGED <<dbVars, processes, todo, seen, scan, listed, cancelEvents, api, worker, boundVars, asked>>

SchedulerStep ==
  \/ Poll \/ RecoverRead \/ RecoverDone \/ SweepAndList \/ StartDone
  \/ ReapDead \/ RowGone \/ ShutdownProcesses
  \/ \E j \in Jobs : RecoverOne(j) \/ ReapSkip(j) \/ ReapRead(j) \/ StartSkip(j)
                     \/ StartJob(j) \/ KillWorker(j)

WorkerStep(w) ==
  \/ Claim(w) \/ StartTraining(w) \/ CheckCancel(w) \/ TrainReturns(w)
  \/ TrainRaises(w) \/ JoinDispatcher(w) \/ WriteOutcome(w) \/ CreateModel(w)

Next ==
  \/ \E j \in Jobs : SubmitTrainJob(j) \/ InterruptRead(j) \/ CancelPending(j)
                     \/ CancelJob(j) \/ DeleteJob(j) \/ StartFails(j)
  \/ SchedulerStep
  \/ SchedulerError
  \/ Shutdown
  \/ \E w \in Workers : WorkerStep(w) \/ Report(w) \/ DrainOne(w)
                        \/ PersistRemoteId(w) \/ WorkerDies(w)
  \/ Crash
  \/ Restart

Spec == Init /\ [][Next]_vars

(***************************************************************************)
(* Fairness: the scheduler thread polls forever, a worker process and its  *)
(* dispatcher thread are scheduled by the operating system, a handler that *)
(* was entered finishes, and a stopped backend is started again.  That a   *)
(* training run ends is an assumption on the backends.  Users owe nothing. *)
(***************************************************************************)
Fairness ==
  /\ WF_vars(SchedulerStep)
  /\ \A w \in Workers : WF_vars(WorkerStep(w)) /\ WF_vars(DrainOne(w))
  /\ \A j \in Jobs : WF_vars(CancelPending(j) \/ CancelJob(j))
  /\ WF_vars(Restart)

FairSpec == Spec /\ Fairness

-----------------------------------------------------------------------------
(* Every variable holds values of its kind.                                 *)
TypeOK ==
  /\ status \in [Jobs -> Statuses]
  /\ remoteId \in SUBSET Jobs
  /\ model \in SUBSET Jobs
  /\ studio \in {"up", "stopping", "down"}
  /\ gen \in Gens
  /\ pc \in {"poll", "recover", "recovering", "reap", "reaped", "start", "shutdown"}
  /\ cont \in {"begin", "reap", "down"}
  /\ recovered \in BOOLEAN
  /\ processes \in SUBSET Jobs
  /\ todo \in SUBSET Jobs
  /\ seen \in Reads \cup {Nothing}
  /\ pc = "reaped" => seen \in Reads
  /\ scan \in SUBSET Jobs
  /\ listed \in SUBSET Jobs
  /\ cancelEvents \in SUBSET Jobs
  /\ api \in [Jobs -> {"idle", "cancelling", "signalling"}]
  /\ worker \in [Workers -> WorkerState]
  /\ faults \in 0..MaxFaults
  /\ crashes \in 0..MaxCrashes
  /\ asked \in SUBSET Workers

(* "Keeps two jobs on the same target from running concurrently" (training  *)
(* targets): two worker processes of one backend never share a target, a    *)
(* remote device overlapping with its whole trainer, although jobs are      *)
(* started from a list read earlier, starts fail and workers die.           *)
TargetsExclusive ==
  \A i, j \in Jobs :
    i # j /\ Alive(Mine(i)) /\ Alive(Mine(j)) /\ studio # "down"
      => ~Overlaps(Target[i], Target[j])

(* Why TargetsExclusive holds: a live worker holds a reservation, no two    *)
(* reservations overlap, a reservation about to be released has a dead      *)
(* process, and no worker belongs to a generation still to come.            *)
WorkersReserved ==
  \A j \in Jobs : studio # "down" /\ Alive(Mine(j)) => j \in processes

ReservationsDisjoint ==
  \A i, j \in processes : i # j => ~Overlaps(Target[i], Target[j])

ReapedIsDead == pc = "reaped" => ~Alive(Mine(seen.job))

NoFutureWorkers == \A w \in Workers : w[1] > gen => ~Alive(w)

ReservationInv ==
  TypeOK /\ WorkersReserved /\ ReservationsDisjoint /\ ReapedIsDead /\ NoFutureWorkers

(* cancel_job keeps a request "until a remote worker can reattach": once an *)
(* interrupt was signalled to this backend, a worker of that job that runs  *)
(* under it sees the event, even if it was started after an earlier worker  *)
(* of the job died and was reaped.                                          *)
CancelRetained ==
  \A j \in Jobs :
    Mine(j) \in asked /\ Alive(Mine(j)) /\ studio # "down" => j \in cancelEvents

(* A finished job never becomes PENDING or RUNNING again: no late progress  *)
(* write, claim, requeue or recovery revives it.                            *)
FinishedStaysFinished ==
  [][\A j \in Jobs : status[j] \in Terminal => status'[j] \notin Live]_vars

(* "Reconcile abandoned jobs without touching any live worker's job": a     *)
(* step of _recover_jobs never rewrites the row of a job whose worker       *)
(* process is still running.                                                *)
RecoveryTouchesAbandonedOnly ==
  [][\A j \in Jobs :
       RecoverOne(j) => \A g \in Gens : ~Alive(<<g, j>>)]_vars

(* Jobs of one target are started in submission order: no process is        *)
(* started for a job while an older job of the same target is PENDING.      *)
StartedInOrder ==
  [][\A j \in Jobs :
       ~Alive(Mine(j)) /\ Alive(Mine(j))' /\ gen' = gen =>
         \A i \in 1..(j - 1) : Target[i] = Target[j] => status[i] # "PENDING"]_vars

(* Every submitted job comes to an end: no queued or running job is         *)
(* forgotten by the scheduler, whatever dies, fails or restarts.            *)
JobsSettle ==
  \A j \in Jobs : status[j] \in Live ~> status[j] \in Terminal \cup {"DELETED"}

(* A user's cancellation of a remote run is not forgotten when the backend  *)
(* restarts: the worker that later reattaches to it sees the request.       *)
CancelSurvivesRestart ==
  \A w \in Workers :
    worker[w].pc = "train" /\ (\E g \in Gens : <<g, w[2]>> \in asked) => CancelSet(w)
=============================================================================
