# A verification project for Physical AI Studio

TLA+ models of the concurrent core of Physical AI Studio's backend
(`src/application/backend/src`), TLC configurations that check them on small
instances, and TLAPS proofs for every value of the constants. `PROJECT.json`
maps every definition to the source lines it models and lists components, runs,
mutants, hazards, findings and theorems.

## 1. The system and its parts

Physical AI Studio is a FastAPI backend with a web UI for teleoperating robots,
recording datasets, training policies and running them. The library beside it
holds the machine-learning code. What is hard about the backend is not a single
algorithm but that many processes, threads and remote services share rows,
files and devices.

| Part | State it keeps | Operations | Interacts with |
|---|---|---|---|
| Job scheduler (`core/scheduler.py`) | `processes` (target -> worker), `_cancel_events`, the stop event | recover, reap, schedule, cancel, shutdown | job rows; worker processes; HTTP handlers on another thread |
| Training worker (`workers/training_worker.py`, `services/training_service.py`) | claimed job, progress queue of the dispatcher thread | claim, prepare, train, join dispatcher, write the outcome, create the model | job rows; a training backend |
| Job API and repository (`api/job.py`, `services/job_service.py`, `repositories/job_repo.py`) | job rows | submit, interrupt, delete | scheduler |
| Remote training backend (`services/training_backends/remote.py`) | remote job id, upload offset | submit, upload/resume, follow, download, cancel | trainer service over HTTP |
| Trainer service (`trainer/`) | job rows, in-memory tokens, active tasks, cancel flags, files of each job | submit, upload, dispatch, run, cancel, delete, restart | the remote backend; GPUs |
| Recording and command worker (`runtime/callbacks/recording.py`, `runtime/command_thread.py`, `runtime/session.py`) | recording flags, attached mutation, command queue | start, tick, load, save, discard, finalize, teardown | control loop, client watcher, dataset on disk |
| Policy loading and arming (`runtime/policy_loader.py`, `runtime/action_source.py`) | load generation, armed policy, follower source | request, hand over, arm, hold | control loop, loader thread |
| Session ownership (`runtime/owner.py`, `runtime/hosts`, `services/runtime_session_service.py`) | session lock, diagnostics file, idle deadline | spawn, attach, detach, expire | session processes, cameras |
| Camera claims (`services/camera_claims.py`) | holders and generation of each camera | claim, release, force | sessions, publishers |
| Dataset import (`services/dataset_import`, its worker) | import job row with its step, staged files | upload, detect, review, import, cancel | scheduler, job rows |
| SSH tunnels, trainer registry, AWS Batch | tunnels, credentials, batch jobs | open, reuse, recover | remote backend |
| Setup and calibration workers, event processor, plugins, internal datasets, database, CLI, settings, UI, library | - | device I/O, formatting, queries, numerical code | - |

Hard behaviours: a scheduler thread, API handlers, worker processes and their
dispatcher threads all write one row; workers outlive a crashed parent; the
trainer service restarts under a running client; an upload handler awaits while
the job it serves is cancelled; the control thread writes frames while a worker
thread encodes them; joins and waits have timeouts after which the program goes
on. The correctness of each part, in a sentence:

- jobs: one worker per target, no job revived or forgotten, cancellations kept;
- trainer: rows agree with tasks, devices exclusive, a job's files exist as long
  as it needs them and no longer;
- recording: every saved episode stays on disk, is counted once, and holds one
  recording;
- remote runs: one remote job per Studio job, no model given up before it was
  fetched, a shutdown suspends and a cancellation ends;
- policies: a warmup or a load that was overtaken never drives the arm, and no
  policy stays open;
- sessions: one process has an arm, the guards see it, and every connect and
  every abandoned session comes to an end;
- cameras: what a finished session pinned is released;
- imports: a confirmation is spent once, COMPLETED has its dataset, and the slot
  comes free again.

## 2. Modules

`StudioJobs` - job rows, the `JobScheduler` thread, worker processes, the
interrupt, submit and delete handlers, shutdown, crash and restart.
A step is the code between two places where another actor can run: a database
commit, an `await`, a process boundary. `pc` is the scheduler's position in
`_run_loop` (`recover`/`recovering` is `_recover_jobs`, called from three places
remembered in `cont`; `reap`/`reaped` is `_reap_processes` before and after it
read the row of a dead process; `start` is `_schedule_jobs`). A worker is named
by the generation of the backend that started it, because a worker outlives a
crash until it sees that its parent died. `processes` is the reservation table;
a reservation's key is a record `[kind, trainer, unit]` instead of the string
`remote:<trainer>:<device>`, and the prefix test is `Overlaps`. What happens
inside a training backend is left open: it returns, raises, is interrupted or -
for remote targets - suspended at shutdown. Cancel events are a set, lost in a
crash; an orphan keeps what it could see of its own event. `update_job_status`
raises for a deleted row, which unwinds the scheduler loop (`RowGone`).

`TrainerQueue` - the trainer service. Handlers and the dispatch loop share one
event loop, so handlers are atomic between awaits; the row a handler is admitted
by is read earlier, by a dependency in a thread pool (`UploadCheck`,
`CancelCheck`, `DeleteCheck`). A ZIP is a sequence of chunks; the staged file is
the sequence actually on disk, with append or positioned writes and unlinking
under open handles. Several PUTs of one job may be in flight; `overlapped`
remembers the jobs of which a PUT was admitted while another was being handled. GPU telemetry is left open: a queued job whose device is not
reserved may or may not be dispatched. Progress reports update other columns
than `status` and are left out, as are the streams that only read. Not reachable
and therefore not an action: the "Missing job request" path of `_run_job` (rows
are only deleted when terminal).

`RecordingSession` - `RecordingState` with its lock, the command worker's queue,
the jobs it runs step by step (the encoder and the copy run outside the lock),
and the teardown. `RecordingMutation.teardown` is four steps: close the cache
(`CloseCache`), remove the dataset directory (`ClearDataset`), copy the cache into
its place (`CopyCache`), delete the cache (`DeleteCache`); each may fail, and the
process may be killed before any of them (`Kill`: by `stop_runtime_session` after
five seconds, or because it exits with its daemon worker still busy after the
join expired). A cache starts as a copy of the dataset (`base`), or empty when an
overwrite left the dataset unreadable (`broken`); `caches` and `dataset` are what
is on disk, `lost` the mutations whose cache could not be closed. The frames of an episode buffer are abstracted to the set of
start commands they were recorded for, which is what tells a pure episode from a
mixed one. Frames that arrive while the encoder runs may or may not be in the
episode. A start command while recording only changes the task and is no step.

`SessionOwnership` - one runtime session name with everything that competes for
it: websocket handlers (`cl`, one record per client with its position in
`runtime_ws` and `RuntimeSessionOwner.connect`), the detached worker processes
(`phase`), the name lock of `transport/lock.py` with the diagnostics file beside
the flock, the stop signal, the watcher thread and its idle countdown, the
command channel (`inbox`), the camera pins by session name and generation, and
the holder look-up the robot's deletion uses. Workers are numbered in the order
they were spawned. A teardown either disconnects the arm (`closed`) or does not,
because it raised before or the follower's own disconnect failed (`stuck`); the
lock is released either way, and a process that released it with the arm still
connected is `loose` until it exits. Queries and waits that time out are choices.

`PolicyArming` - `StudioActionSource` and `PolicyLoader`: one `update()` is four
steps (drain a command, read the leader, ask the policy, send), loader threads
go through build, check of the generation, attach under the policy lock and
closing the previous policy, arm threads end in `_finish_arm`. Joint values are
abstracted to whether the hold target was latched since the arm last moved
(`fresh`); `want` is a history variable, the mode the last command, load, attach
or drop to hold asks for. A handover may raise after the attach: the loader's
handler then disconnects the policy it has just attached and leaves the previous
one open (`failed`).

`DatasetImport` - prepare, upload, attach, finalize, cancel and interrupt as
requests that read a row, await, and write back the row they read with their
changes merged in (`BaseRepository.update`); the scheduler's single import slot
with its claim in two statements, reaping and recovery; the worker process for
detection and import, its failures and deaths. The process is one per generation
of the backend: an orderly `Restart` takes it along, a `Kill` leaves it running,
since it is no daemon, beside the next backend and its process. `confirmed`
counts the finalize requests that were accepted; `shared` the jobs that were
claimed while a process of a killed backend was on them, `lost` those whose
process was such a one and died.

`TrainerContract` - the abstract specification of the trainer service: the life
of a job as `GET /jobs/{id}` shows it, when its model can be downloaded, what a
cancellation excludes and what a restart may do. It has two users:
`TrainerQueue` is shown to implement it (`Contract == INSTANCE TrainerContract
WITH ...`, the rows renamed to the API's states, a deletion withdrawing the model
when it is accepted), and `RemoteTraining` runs against it.

`RemoteTraining` - the composition of the Studio's client
(`services/training_backends/remote.py`), the worker around it and the part of
the scheduler it needs with `TrainerContract` and the upload endpoint. A call may
be lost before or after it took effect, the worker may die between two calls,
both sides may stop and restart. The event stream and its polling fallback are
one look at the remote state. `put` is an upload request on the trainer, which
goes on extracting when its client is gone; an extraction error the endpoint does
not expect leaves the whole staged part, so that HEAD reports the full length and
the client waits (the shape of the `remote_resume` finding). The files a worker
extracted are in a directory of its own run: when it dies they are `stray`, no
later worker finds them. After an expired join of the progress dispatcher a
RUNNING update may follow the verdict (`late`); workers that outlive a killed
backend are left to `StudioJobs`.

The composition is sound because of the refinement: every behaviour of
`TrainerQueue` is one of the contract's (proved), and the fairness
`RemoteTraining` assumes of the trainer is the contract's `Fairness`, which
`TrainerQueue` keeps (`KeepsMoving`, checked).

`MC...` modules give the constants values; `XProofs` holds the theorems about
module `X` and their proofs (`TrainerContractProofs` the refinement of the
contract by `TrainerQueue`).
Definitions marked *mutant* are plausible wrong versions of the definition that
follows them; nothing uses them. Each property of a passing run has one that
breaks it.

## 3. Runs

Bounds are constants, named in the modules.

| Run | Instance | Checks |
|---|---|---|
| `jobs_remote` | a job on a device and a job on the whole of the same trainer, one orderly restart | TypeOK, TargetsExclusive, CancelRetained, FinishedStaysFinished, RecoveryTouchesAbandonedOnly |
| `jobs_local` | two local jobs, worker deaths and scheduler errors, a restart, joins that expire | StartedInOrder, JobsSettle |
| `jobs_orphans` | one remote job, a crash and a restart | JobsSettle |
| `trainer` | a job on a device and an automatic one, two slots; one job with two PUTs of one chunk, the other with one PUT of two; one restart or crash | TypeOK, RowsMatchTasks, DevicesExclusive, ArtifactKept, DatasetKept, TerminalIsFinal, QueuedJobsEnd, ImplementsContract, KeepsMoving |
| `recording` | two loads, three recordings, a queued command beside the running one, an expiring join, a kill | CountIsUncopied, SavedIsKept, AcceptedCommandsRun, TeardownEnds |
| `sessions` | two clients, any rig, cameras and settings, four worker processes, one crash | GuardSeesArm, ArmUnderLock, PinsReleased |
| `sessions_liveness` | a preview and a recorder of one arm, four worker processes | ConnectEnds, SessionEnds |
| `policy` | one model, two loads, four commands, two faults | PolicyIsWanted, AttachedIsConnected, NewestAttached, ArmingEnds, NoPolicyLeaks |
| `imports` | one job, two requests in flight, four in all, two deaths, stops or kills | CompletedHasDataset, CommitIsConfirmed, RunningEnds, QueuedIsTaken |
| `remote` | two remote ids, two chunks, two retries, three faults, three deaths or restarts | OneRemoteJob, ModelHandedOver, ShutdownKeepsRemote, AcceptedJobEnds, CancelEnds |
| `policy_latch` | two models, safety only | HoldIsFresh, violated |
| `remote_resume` | one job, no lost call, one death | PersistedJobEnds, violated |

What they show, beyond the names:

- `sessions`: two handlers that both probe, miss and spawn start two processes,
  but only the one that holds the name lock opens the arm, and the arm is given
  up before the lock unless its disconnect failed; the deletion guard, which reads
  the diagnostics file and tests the lock in two looks, reports a free robot only
  when no process has it but one with such a failed disconnect; when the last handler and its worker are gone no camera stays pinned.
- `sessions_liveness`: connect does not loop for ever between a lost race, a
  probe and another spawn (four processes are enough for both clients to lose
  every race once), and a session nobody subscribes to ends by its countdown.
- `policy`: the generations of the loader and of the arm threads decide every
  race between a warmup, a stop, a new load and teardown in favour of the last
  command; every policy that was built is in use or closed, and the one in use is
  open. A handover that raises after its attach is the exception to the last two,
  and the only one.
- `recording`: the overwrite of a dataset removes it before it copies, so a copy
  that fails or is killed takes episodes of earlier loads out of the dataset; they
  are never gone from disk, because the closed cache that holds them is deleted
  only after a copy that succeeded.
- `imports`: although requests overwrite rows with what they read before, a
  dataset is imported at most once per confirmation, unless the job was claimed
  beside the process of a killed backend; RUNNING ends unless such a process dies.
- `trainer`: an upload that is dropped, retried or fails takes no dataset away
  from a job that waits or trains, unless PUTs of that job overlapped.
- `remote`: neither lost answers nor restarts lead to a second remote job; the
  trainer's copy of a model is deleted only while a worker holds what it extracted
  from it (a death between the deletion and COMPLETED loses the model); once
  the trainer has the dataset the Studio's job ends.

Why the bounds are enough to be interesting: two jobs suffice for every
conflict between targets (the relation is binary) and for an order; one restart
suffices to have an old and a new generation of workers alive together; two
chunks suffice for an upload to be interrupted in the middle and resumed; two
loads suffice for a mutation to be replaced while another is finalized, three
starts for a failed save, its successor and a start during an encode; two clients
and four processes give every pairing of winner and loser of the name lock,
followed by one more spawn each; two loads let one overtake the other at every
step of the handover; two PUTs of one job are the overlap the endpoint admits;
two requests in flight suffice for a lost update, four in all for an upload or a
finalize after the import, two faults for a kill of the backend and the death of
the process it left; two remote ids let a second submission be
seen, and three faults a lost answer in a row with both retries used up.

`jobs_orphans` has no fault beside its crash, and no expiring join, on purpose:
with either, an orphan's last RUNNING update can land after the new scheduler
reconciled its row, and nobody ends that row before the next restart. So
`JobsSettle` is shown for a crash alone and for faults alone (`jobs_local`), not
for both. `imports` has one job: the slot is single, and a second job adds only
waiting for it (`QueuedIsTaken` is where it would matter).

`CHECK_DEADLOCK FALSE` is used where the system may stop: sessions that end,
commands, requests and jobs that are used up by their bounds.

The type invariants of `RecordingSession`, `SessionOwnership`, `PolicyArming`,
`DatasetImport` and `RemoteTraining` are in no run, which keeps the runs to what
could really be wrong; they are proved instead (section 4).

### Findings

`policy_latch`: while a policy is armed again the mode stays `policy`, the policy
gives no action, and `update()` falls back to a hold target latched before the
policy moved the arm. `remote_resume`: the remote id is persisted "before the
upload begins so a restart can resume it", but a worker that reattaches has no
snapshot and does not resume; the job waits for a trainer that waits for its
dataset.

### Statements the code does not keep

Some comments and docstrings say more than the code does, and some code assumes
more than holds. The definitions below state it; TLC refutes each on the instance given (the constants of the run of
that module, changed as said). No run of `PROJECT.json` repeats them.

| Module, property | Instance | What happens | What is said |
|---|---|---|---|
| StudioJobs, FinishedStaysFinished | `jobs_remote` with `JoinCanTimeOut = TRUE` | the dispatcher's join expires and a queued RUNNING update follows the terminal write | `workers/training_worker.py:191` |
| StudioJobs, RecoveryTouchesAbandonedOnly | `jobs_orphans` | a restarted backend reconciles the job of a worker that outlived the crash | `core/scheduler.py:180` |
| StudioJobs, CancelSurvivesRestart | `jobs_remote` | a signalled cancellation is forgotten at shutdown, the remote run is reattached to | `core/scheduler.py:116` |
| TrainerQueue, DatasetAlwaysKept | `trainer` | a second admitted PUT removes the dataset of the queued or running job | `trainer/api.py:257` |
| TrainerQueue, TokenReachesTraining | `trainer` | a queued job that survives a restart trains without its token | `trainer/store.py:64` |
| RecordingSession, NoFrameDuringEncode | `recording` | a start command during an encode lets ticks write into the buffer being encoded | `runtime/callbacks/recording.py:87` |
| RecordingSession, EpisodesArePure | `recording` | a recording after a failed save is appended to the old buffer | `runtime/session.py:335` |
| RecordingSession, CopiedStaysInDataset | `recording` | a failed or killed copy leaves out what an earlier load had copied; it is in the closed cache only | (assumed) |
| RecordingSession, ExitSparesCopy | `recording` | the process exits after an expired join while its worker is between removal and copy | `runtime/session.py:239` |
| SessionOwnership, ReleasedIsDisconnected | `sessions` | a teardown that raised, or a failed disconnect, is logged and the lock released with the arm connected | (assumed) |
| SessionOwnership, PinnedWhileDriving | `sessions` | a handler that fails before it attaches unpins the cameras of the handler that drives | `api/runtime_ws.py:192` |
| SessionOwnership, AbandonedHolds | `sessions` | a command still in the channel is applied after the watcher switched to hold | `runtime/hosts/session_worker.py:44` |
| PolicyArming, NoAttachAfterShutdown | `policy` | a load past its check attaches after teardown | `runtime/policy_loader.py:107` |
| PolicyArming, AttachedAlwaysOpen | `policy` | a handover that raises after the attach closes the policy that is attached | (assumed) |
| DatasetImport, ConfirmedCommitsOnce | `imports` | a late upload queues a job again under its worker, the backend is killed, and both processes import | `core/scheduler.py:109` |
| RemoteTraining, ModelSurvives | `remote` | a death or shutdown between the DELETE and COMPLETED: the next run has a new directory | (assumed) |
| DatasetImport, CanceledStays | `imports` | finalize accepts a canceled job, and the worker writes its next step over an interrupt | `api/job.py:97` |

Further hazards that no property is about: COMPLETED is committed before the
model row (`workers/training_worker.py:225`); the reaper overwrites a CANCELED
that was written after it read the row (`core/scheduler.py:160`; by
`RowsFollowLife` the only verdict that is rewritten); ends of a
trainer job that leave its files (`trainer/queue_worker.py:84`); training
processes that outlive a killed trainer (`trainer/queue_worker.py:192`); a save
that lands after its acknowledgement timed out (`runtime/command_thread.py:64`);
the kill after five seconds of a worker whose teardown may take sixty
(`runtime/owner.py:97`; `RecordingSession` has the kill, and an episode that is
in no closed cache yet is lost by it); a shutdown after the model was fetched, which makes the
job CANCELED (`workers/training_worker.py:180`).

### Fairness

`StudioJobs`: weak fairness of the scheduler thread (it polls for ever), of each
worker and of its dispatcher (operating system scheduling), of a handler that
was entered, and of a restart after the backend went down. That training ends is
an assumption on the backends. Users owe nothing: submit, interrupt and delete
are not fair, and neither are faults. `TrainerQueue`: the dispatch loop, the
runs, the unwinding at shutdown and a restart; dispatching to a free device
assumes that its telemetry does not report foreign work for ever. Uploads are
not fair: a client may stay away. `RecordingSession`: the command worker and the
main thread run, encoders and copies return (or raise). An expiring join and a
kill are possible but never owed. `SessionOwnership`: handlers and worker processes take
the steps their code has ready; that a client connects, subscribes, sends a
command or leaves is not owed, nor is a crash. `PolicyArming`: the control loop
ticks, builds and warmups end; commands are not owed. `DatasetImport`: the poll
loop, the worker process of every generation and a request that was read; users and deaths are not.
`RemoteTraining`: the worker, the scheduler, an extraction that began, and the
contract's fairness of the trainer; faults, deaths, cancellations and shutdowns
are not owed.

## 4. Proofs

`StudioJobsProofs` proves, for any number of jobs, any targets and any bounds:

- `TypeCorrect`: `Spec => []TypeOK`;
- `WorkersNeverShareATarget`: `Spec => []TargetsExclusive`. The property is not
  inductive: that a new worker conflicts with nobody follows from the
  reservation table, not from the workers. `ReservationInv` adds that every live
  worker of this generation holds a reservation (`WorkersReserved`), that no two
  reservations overlap (`ReservationsDisjoint`), that the reservation about to
  be released belongs to a dead process although the row was read a step before
  (`ReapedIsDead`), and that no worker of a future generation exists
  (`NoFutureWorkers`, which gives a restart an empty table). Lemma
  `OverlapsSymmetric` is needed because `_target_is_busy` compares a candidate
  with the table, in one direction.

- `RecoverySparesOwnWorkers`: `_recover_jobs` never requeues or fails a job that
  has a live worker of the same backend, whatever crashed, died or raised before;
- `OrphansNeedACrash`: with `MaxCrashes = 0` no worker ever works under a later
  backend (`NoOrphans`), because a shutdown joins its workers.

The next five have `[]NoOrphans` beside `Spec` as their hypothesis: the backend is
shut down or killed any number of times, and is started again only when the
workers it left behind have ended, as the stop event and the parent check of
`StoppableMixin` are there to bring about. By `OrphansNeedACrash` that includes
every backend that is never killed. The hypothesis is not one of convenience: an
orphan beside a new backend goes on writing its row. It sets RUNNING over the
FAILED of the new backend's recovery, or puts the job back to PENDING after a
cancellation of it was settled, and TLC refutes the four that runs check with
`MaxCrashes = 1`. Worker deaths, failed starts and errors of the loop are not
restricted.

- `RecoveryLeavesLiveJobs` (`RecoveryTouchesAbandonedOnly`). `OrderlyInv`
  adds to `ReservationInv` that every live worker is of this generation
  (`OnlyMine`), where the
  loop can be while the backend stops (`LoopStops`), and that what `_recover_jobs`
  read stays true until it acts on it (`ScanIsIdle`);
- `CancelIsRetained` (`CancelRetained`). The event of a cancelled job may
  be dropped only when no worker of it can follow. `_reap_processes` decides that
  on a row it read a step before, so `RetainInv` has to say how far that look can
  be out of date (`SeenIsCurrent`) and that a job whose event was dropped is over
  or waits for recovery (`Retained`). Lemmas `RowChanges` and `WorkerChanges` list
  the ways in which a row and a worker change;
- `FinishedJobsStay` (`FinishedStaysFinished`), also with
  `~JoinCanTimeOut`: an expired join lets a queued progress update follow the
  outcome. `FinishInv`: a worker between claim and outcome has a RUNNING row, and
  its dispatcher is drained when the outcome is written;
- `RowsFollowLife`, under the same two hypotheses: a row only moves along the
  edges of `JobLife`. Nothing completes that was not RUNNING, no completed job
  changes, only a failed or cancelled one is deleted. The one verdict that is
  rewritten is CANCELED to FAILED, by a reaper that read the row before the
  cancellation wrote it;
- `OldestStartsFirst` (`StartedInOrder`). `OrderInv`: an older waiting job
  of the same target is in the list `_schedule_jobs` works on too, or its target
  is taken.

`TrainerQueueProofs` proves, for any number of jobs, slots, concurrent uploads,
chunks and restarts and any devices:

- `TrainerTypeCorrect`: `Spec => []TypeOK`. Lemma `WrittenType` says that a chunk
  written inside a staged file, at its end or past it leaves a file;
- `RowsAlwaysMatchTasks`: `Spec => []RowsMatchTasks`, through `QueueInv`, which
  adds that a service that is down has no task and no request (`DownIsIdle`:
  otherwise `Start` could fail the row of a running job) and that a deletion in
  flight is of a job that ended (`DeletesTerminal`: otherwise `DeleteRow`, which
  does not look at the row again, could take the row of a running one);
- `DevicesAlwaysExclusive`: `Spec => []DevicesExclusive`, the slot bound by the
  cardinality of the finite set of active jobs;
- `TerminalRowsAreFinal`: `Spec => TerminalIsFinal`. The end of a run writes its
  row unconditionally; that this row is RUNNING then is `QueueInv`;
- `ArtifactsAreKept`: `Spec => []ArtifactKept`, with the archive of a run that
  returned on disk before the row says so (`ArtifactInv`);
- `CancellationWins`: `Spec => CancelWins` (no run checks it: the contract
  contains it);
- `TokensReachTraining`: until the trainer is restarted every run that trains was
  given the token of its job (`restarts = 0 => TokenReachesTraining`), so that a
  restart is the only way in which that statement of section 3 fails; `TokensAreDropped`:
  a token is held only for a job that waits for its run;
- `QueuedJobsHaveDataset`: `Spec => []DatasetKept`, for any number of PUTs in
  flight, of the jobs whose PUTs never overlapped. The Studio sends its PUTs one
  after the other; a retry that is admitted while the handler of the dropped
  request still runs overlaps. `DatasetInv`: while the only upload of a job is in
  flight the job neither waits nor runs (`UploadsAwait`), and an extracted upload
  is on disk until the row is queued (`ReadyHasDataset`).

`TrainerContractProofs` proves the refinement, under the same generality:

- `TrainerImplementsContract`: `Spec => ImplementsContract`. Every action is
  shown to be one action of the contract or to change nothing a Studio sees
  (`StepImplements`, one step per action). That takes `QueueInv`, `ArtifactInv`
  and `LinkInv`, which ties requests, flags and runs together: a service that is
  not up has no request in flight (`QuietWhenNotUp`: `RequestCancel` and
  `UploadReady` do not look at the service, the contract does), a flag is never on
  a job that has yet to run (`FlagsOnStarted`: otherwise `Dispatch` would begin a
  job that is flagged already), a run that ended cancelled was told to stop
  (`CanceledWasTold`), and only ended jobs are doomed (`DoomedHasEnded`: otherwise
  a completed job might have no model).

`RecordingSessionProofs`, for any number of loads, starts and queued commands,
with or without an expiring join:

- `TypeCorrect`, which needs `JobKnows`: a save works on the attached mutation, a
  copy on one that was detached;
- `AcceptedAreRun`: `Spec => []AcceptedCommandsRun`. `QueueInv`: commands are
  accepted only before the teardown, and the sentinel is the last of the queue;
- `SavedEpisodesKept`: `Spec => []SavedIsKept`. `KeptInv`: what is closed is in
  the dataset or in a closed cache (`ClosedIsKept`), also while the dataset is
  removed or damaged (`DamageIsKept`); a mutation that may still overwrite the
  dataset was created from it, or what it lacks is in a closed cache
  (`BaseIsDataset`); where caches are at each step of a teardown (`CachePlaces`);
  a mutation with episodes that is not closed is attached or about to be closed
  (`NoneForgotten`), and a teardown that finalizes has no worker beside it
  (`FinalizeDetaches`);
- `CountIsRight`: `Spec => []CountIsUncopied`. The counter is increased by one per
  save, the episodes are a set; they agree because no save holds the recordings of
  an earlier one. That is `SavedIsOlder` in `CountInv`: every saved episode holds
  a recording that is over and older than anything in the buffer now.

`SessionOwnershipProofs`, for any finite set of clients, any documents, spawns and
crashes:

- `TypeCorrect`;
- `ArmOnlyUnderLock` (`ArmUnderLock`) and `GuardIsRight` (`GuardSeesArm`), which
  except the worker whose disconnect failed, from its release of the lock to its
  exit, and hold of all others beside it; both from `LockInv`: from taking the flock to giving it back a worker is the lock's
  owner (`LockHeld`), the file names it once it was written (`FileNamesHolder`), the arm is held only
  inside that span (`ArmInSpan`), and worker numbers are used once
  (`SpawnedInOrder`, without which a spawn might reuse the number of a holder);
- `PinsAreReleased` (`PinsReleased`), from `PinInv`: while a camera is pinned the
  handler of the latest generation has yet to release (`PinsHaveHolder`).

`PolicyArmingProofs`, for any models, loads, commands and faults:

- `TypeCorrect`, with the failure count bounded because the reads are disabled in
  the step that reaches the tolerance;
- `PolicyOnlyWhenWanted` (`PolicyIsWanted`), from `ArmInv`: an arm thread whose
  generation is current was started by the command that is still the last one;
- `AttachedStaysConnected` (`AttachedIsConnected`) and `OnlyNewerAttached`
  (`NewestAttached`), from `LoadInv`: a policy on its way to be attached is open,
  is not yet attached, and one to be closed is older than the attached one. The
  first excepts a policy whose own handover raised after the attach;
- `NoPolicyForgotten` (`OpenIsHeld`): every open policy is attached or named by a
  thread that will attach or close it, or was replaced by a handover that raised:
  the safety half of `NoPolicyLeaks`.

`DatasetImportProofs`, for any jobs, requests in flight, deaths, stops and kills,
with any number of processes of killed backends beside the current one:

- `TypeCorrect`; `CompletedIsReal` (`CompletedHasDataset`), from `CompletedInv`;
- `CommitsAreConfirmed` (`CommitIsConfirmed`), of every job but the `shared` ones.
  `CommitInv` is an account: the
  datasets of a job and the confirmations that are held, by a queued row or by
  the worker at work on it, are together no more than the confirmations given
  (`Accounted`). It holds because a row is claimed only with a free slot and no
  recovery under way (`ClaimNeedsSlot`, `RecoveryNeedsSlot`);
- `NoRunningForgotten`: a RUNNING row has its process, of this backend or of a
  killed one, or recovery has yet to see it, or such a process died (`lost`).

`RemoteTrainingProofs`, for any ids, snapshot, retry limit and any number of lost
calls, kills and restarts:

- `TypeCorrect`; `ClientKeepsContract`: `Spec => Trainer!Spec`, so that the
  composition constrains the trainer by its contract and nothing else;
- `OneJobOnTrainer` (`OneRemoteJob`). `OnceInv`: a row that can be started without
  a persisted id has no remote job (`StartableIsClear`), the id is persisted
  before the upload (`SavedBeforeUpload`), and a row with a worker is not PENDING;
- `ModelIsHandedOver` (`ModelHandedOver`) and `ShutdownOnlySuspends`
  (`ShutdownKeepsRemote`), from `HandoverInv` and `ShutdownInv`. The first is an
  action property: it is about the moment the archive goes, and does not say that
  the model survives a death of the worker after it;
- `CompletedWasTrained`: a row is COMPLETED only with the model of a remote job that
  completed. That a verdict is final is not claimed: see `FinishedJobsStay` and the
  hypotheses it needs.

The assumptions are the `ConstantsAssumption` of each module (bounds are naturals,
slots and chunks positive, every job has a target key or a device, the clients
are finitely many), and, where said above, `NoOrphans` and `~JoinCanTimeOut`. Each inductive invariant was checked with TLC on the instance
of its module's run before it was proved.

Left to TLC: liveness (`JobsSettle`, `QueuedJobsEnd`, `KeepsMoving`,
`TeardownEnds`, `ConnectEnds`, `SessionEnds`, `ArmingEnds`, `NoPolicyLeaks`,
`RunningEnds`, `QueuedIsTaken`, `AcceptedJobEnds`, `CancelEnds`), which needs
fairness and `ENABLED`. Every invariant and every action property of the passing
runs has a theorem.

## 5. What is not modelled

See the component list in `PROJECT.json`. In particular: the aws-batch branch of
interrupt and the Batch client; the deletion of import jobs; the Zenoh sessions
and codecs of the transport; the frame loop of the camera worker; SSH tunnels and
the trainer registry; setup and calibration wizards, which are serial I/O; the
event processor, plugins, database and settings. Most of the repository is
numerical (the policies and training code under `src/library`), format or UI
code, which has no state a model checker could say anything about.

## 6. Plan

1. `StudioJobs`, `TrainerQueue`, `RecordingSession` with their runs (done).
2. `SessionOwnership`, `PolicyArming`, `DatasetImport` (done).
3. `TrainerContract`, its implementation by `TrainerQueue` (checked and proved),
   and the composition `RemoteTraining` (done).
4. Proofs: a theorem for every invariant and action property the passing runs
   check, and for each type invariant (done).
5. What holds in spite of a crash and a restart: `NoOrphans` as the hypothesis in
   place of no crash at all, `RecoverySparesOwnWorkers`, `TokensReachTraining`
   (done). Open: which of these survive next to an orphan for the jobs that have
   none, and the parts of the other statements of section 3 that the code keeps.
6. `SshTunnels`: reuse and recovery of the tunnels of the trainer registry.
