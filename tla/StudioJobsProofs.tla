-------------------------- MODULE StudioJobsProofs --------------------------
(* Theorems about StudioJobs for any number of jobs, targets, restarts,     *)
(* crashes and faults, with or without an expiring dispatcher join.  The    *)
(* last five hold as long as no worker of an earlier backend runs beside a  *)
(* later one (NoOrphans): such an orphan breaks each of them.               *)
EXTENDS StudioJobs, TLAPS

USE DEF Mine, Alive

(* Two target keys overlap whichever of them is the busy one.               *)
LEMMA OverlapsSymmetric ==
  ASSUME NEW s, NEW t
  PROVE  Overlaps(s, t) = Overlaps(t, s)
BY DEF Overlaps

LEMMA NoWorkerType == NoWorker \in WorkerState /\ NoWorker.pc = "none"
BY DEF NoWorker, WorkerState, WorkerPcs, Outcomes

(* A write through update_job_status leaves every row with a status.        *)
LEMMA WriteType ==
  ASSUME status \in [Jobs -> Statuses], NEW j \in Jobs, NEW s \in Statuses, Write(j, s)
  PROVE  status' \in [Jobs -> Statuses]
BY DEF Write

LEMMA TypeInit == Init => TypeOK
<1> SUFFICES ASSUME Init PROVE TypeOK
  OBVIOUS
<1>1. recovered \in BOOLEAN
  BY Zenon DEF Init
<1>2. status \in [Jobs -> Statuses] /\ worker \in [Workers -> WorkerState]
  BY NoWorkerType DEF Init, Statuses
<1>3. gen \in Gens /\ faults \in 0..MaxFaults /\ crashes \in 0..MaxCrashes
  BY ConstantsAssumption DEF ConstantsAssumption, Init, Gens
<1> QED
  BY <1>1, <1>2, <1>3 DEF Init, TypeOK

(* Every step of the system keeps the types.                                *)
LEMMA TypeStep == TypeOK /\ [Next]_vars => TypeOK'
<1> SUFFICES ASSUME TypeOK, [Next]_vars PROVE TypeOK'
  OBVIOUS
<1> USE ConstantsAssumption DEF ConstantsAssumption, TypeOK
<1>a. {"PENDING", "RUNNING", "FAILED", "CANCELED", "COMPLETED", "DELETED"} \subseteq Statuses
  BY DEF Statuses, Live, Terminal
<1>b. \A j \in Jobs : Mine(j) \in Workers
  BY DEF Workers
<1>c. ASSUME NEW w \in Workers, NEW v \in WorkerState
      PROVE  [worker EXCEPT ![w] = v] \in [Workers -> WorkerState]
  OBVIOUS
<1>d. \A w \in Workers : w[1] \in Gens /\ w[2] \in Jobs
  BY DEF Workers
<1>1. ASSUME NEW j \in Jobs, SubmitTrainJob(j) \/ DeleteJob(j) PROVE TypeOK'
  BY <1>1, <1>a DEF SubmitTrainJob, DeleteJob, loopVars, boundVars
<1>2. ASSUME NEW j \in Jobs, InterruptRead(j) \/ CancelPending(j) \/ CancelJob(j) PROVE TypeOK'
  BY <1>2, <1>a, <1>b DEF InterruptRead, CancelPending, CancelJob, dbVars, loopVars, boundVars
<1>3. CASE Poll \/ RecoverRead \/ RecoverDone
  BY <1>3 DEF Poll, RecoverRead, RecoverDone, schedOnly, dbVars, boundVars
<1>4. ASSUME NEW j \in Jobs, RecoverOne(j) PROVE TypeOK'
  <2>1. status' \in [Jobs -> Statuses]
    BY <1>4, <1>a, WriteType DEF RecoverOne
  <2> QED BY <1>4, <2>1 DEF RecoverOne, schedOnly
<1>5. ASSUME NEW j \in Jobs, ReapSkip(j) \/ ReapRead(j) PROVE TypeOK'
  <2>1. CASE ReapSkip(j)
    BY <2>1 DEF ReapSkip, schedOnly
  <2>2. CASE ReapRead(j)
    <3>1. seen' \in Reads
      BY <2>2 DEF ReapRead, Reads, Reattachable, IsRemote
    <3> QED BY <2>2, <3>1 DEF ReapRead, schedOnly
  <2> QED BY <1>5, <2>1, <2>2
<1>6. CASE ReapDead
  <2>1. seen \in Reads /\ seen.job \in Jobs
    BY <1>6 DEF ReapDead, Reads
  <2>2. status' \in [Jobs -> Statuses]
    BY <1>6, <2>1, <1>a, WriteType DEF ReapDead
  <2> QED BY <1>6, <2>1, <2>2 DEF ReapDead, schedOnly
<1>7. CASE SweepAndList \/ StartDone
  BY <1>7 DEF SweepAndList, StartDone, schedOnly
<1>8. ASSUME NEW j \in Jobs, StartSkip(j) \/ StartJob(j) \/ StartFails(j) PROVE TypeOK'
  <2>1. CASE StartSkip(j)
    BY <2>1 DEF StartSkip, schedOnly
  <2>2. CASE StartJob(j)
    <3>1. [NoWorker EXCEPT !.pc = "claim"] \in WorkerState
      BY NoWorkerType DEF WorkerState, WorkerPcs
    <3> QED BY <2>2, <3>1, <1>b, <1>c DEF StartJob, schedOnly
  <2>3. CASE StartFails(j)
    <3>1. recovered' \in BOOLEAN
      BY <2>3, Zenon DEF StartFails
    <3> QED BY <2>3, <3>1 DEF StartFails, schedOnly
  <2> QED BY <1>8, <2>1, <2>2, <2>3
<1>9. CASE SchedulerError \/ RowGone
  <2>0. Unwind /\ faults' \in 0..MaxFaults
    BY <1>9 DEF SchedulerError, RowGone
  <2>1. recovered' \in BOOLEAN
    BY <2>0, Zenon DEF Unwind
  <2>2. studio' \in {"up", "stopping", "down"}
    BY <2>0 DEF Unwind
  <2> QED BY <2>0, <2>1, <2>2 DEF Unwind, dbVars
<1>10. CASE Shutdown
  BY <1>10 DEF Shutdown, dbVars, loopVars, boundVars
<1>11. ASSUME NEW j \in Jobs, KillWorker(j) PROVE TypeOK'
  BY <1>11, <1>b, <1>c, NoWorkerType DEF KillWorker, schedOnly, loopVars
<1>12. CASE ShutdownProcesses
  BY <1>12 DEF ShutdownProcesses, schedOnly
<1>13. ASSUME NEW w \in Workers, WorkerStep(w) \/ Report(w) \/ DrainOne(w)
                                 \/ PersistRemoteId(w) \/ WorkerDies(w)
       PROVE TypeOK'
  <2> USE DEF workerOnly, loopVars, boundVars
  <2>0. w[2] \in Jobs
    BY <1>d
  <2>f. /\ \A p \in WorkerPcs : [worker[w] EXCEPT !.pc = p] \in WorkerState
        /\ \A b \in BOOLEAN : [worker[w] EXCEPT !.queue = b] \in WorkerState
        /\ \A b \in BOOLEAN : [worker[w] EXCEPT !.remote = b] \in WorkerState
        /\ \A p \in WorkerPcs, b \in BOOLEAN : [worker[w] EXCEPT !.pc = p, !.remote = b] \in WorkerState
        /\ \A p \in WorkerPcs, o \in Outcomes : [worker[w] EXCEPT !.pc = p, !.out = o] \in WorkerState
    BY DEF WorkerState
  <2>g. Exit(w) \in WorkerState
    BY <2>f, NoWorkerType DEF Exit, WorkerPcs
  <2>1. CASE Claim(w)
    <3>1. CASE status' = [status EXCEPT ![w[2]] = "RUNNING"]
               /\ worker' = [worker EXCEPT ![w].pc = "prepare", ![w].remote = Reattachable(w[2])]
      <4>1. Reattachable(w[2]) \in BOOLEAN
        BY DEF Reattachable, IsRemote
      <4>2. [worker[w] EXCEPT !.pc = "prepare", !.remote = Reattachable(w[2])] \in WorkerState
        BY <2>f, <4>1 DEF WorkerPcs
      <4>3. worker' = [worker EXCEPT ![w] =
                         [worker[w] EXCEPT !.pc = "prepare", !.remote = Reattachable(w[2])]]
        BY <3>1
      <4> QED BY <2>1, <2>0, <3>1, <4>2, <4>3, <1>a DEF Claim
    <3>2. CASE status' = status /\ worker' = [worker EXCEPT ![w] = NoWorker]
      BY <2>1, <3>2, NoWorkerType DEF Claim
    <3> QED BY <2>1, <3>1, <3>2 DEF Claim
  <2>2. CASE StartTraining(w)
    BY <2>2, <2>0, <2>f, <1>a DEF StartTraining, To, WorkerPcs
  <2>3. CASE CheckCancel(w)
    BY <2>3, <2>f DEF CheckCancel, To, WorkerPcs, Outcomes
  <2>4. CASE TrainReturns(w)
    BY <2>4, <2>f DEF TrainReturns, WorkerPcs, Outcomes
  <2>5. CASE TrainRaises(w)
    <3>1. PICK out \in {"error", "interrupted", "suspended"} :
            worker' = [worker EXCEPT ![w].pc = "join", ![w].out = out]
      BY <2>5 DEF TrainRaises
    <3>2. [worker[w] EXCEPT !.pc = "join", !.out = out] \in WorkerState
      BY <2>f DEF WorkerPcs, Outcomes
    <3>3. worker' = [worker EXCEPT ![w] = [worker[w] EXCEPT !.pc = "join", !.out = out]]
      BY <3>1
    <3> QED BY <2>5, <3>2, <3>3, <1>c DEF TrainRaises
  <2>6. CASE JoinDispatcher(w)
    BY <2>6, <2>f DEF JoinDispatcher, To, WorkerPcs
  <2>7. CASE WriteOutcome(w)
    <3>1. FinalStatus(worker[w].out) \in Statuses
      BY <1>a DEF FinalStatus
    <3>2. status' \in [Jobs -> Statuses]
      BY <2>7, <2>0, <3>1, WriteType DEF WriteOutcome
    <3> QED BY <2>7, <3>2, <2>f, <2>g DEF WriteOutcome, WorkerPcs
  <2>8. CASE CreateModel(w)
    BY <2>8, <2>0, <2>g DEF CreateModel
  <2>9. CASE Report(w)
    BY <2>9, <2>f DEF Report
  <2>10. CASE DrainOne(w)
    <3>1. status' \in [Jobs -> Statuses]
      BY <2>10, <2>0, <1>a, WriteType DEF DrainOne
    <3> QED BY <2>10, <3>1, <2>f, NoWorkerType DEF DrainOne
  <2>11. CASE PersistRemoteId(w)
    BY <2>11, <2>0, <2>f DEF PersistRemoteId
  <2>12. CASE WorkerDies(w)
    BY <2>12, NoWorkerType DEF WorkerDies
  <2> QED BY <1>13, <2>1, <2>2, <2>3, <2>4, <2>5, <2>6, <2>7, <2>8, <2>9, <2>10, <2>11, <2>12
             DEF WorkerStep
<1>14. CASE Crash
  <2>1. worker' \in [Workers -> WorkerState]
    <3>1. \A w \in Workers, b \in BOOLEAN : [worker[w] EXCEPT !.cancel = b] \in WorkerState
      BY DEF WorkerState
    <3> DEFINE next(w) == IF w[1] = gen /\ Alive(w)
                          THEN [worker[w] EXCEPT !.cancel = w[2] \in cancelEvents] ELSE worker[w]
    <3>2. ASSUME NEW w \in Workers PROVE next(w) \in WorkerState
      <4>1. [worker[w] EXCEPT !.cancel = w[2] \in cancelEvents] \in WorkerState
        <5>1. (w[2] \in cancelEvents) \in BOOLEAN
          OBVIOUS
        <5> DEFINE b == w[2] \in cancelEvents
        <5>2. b \in BOOLEAN
          BY <5>1
        <5> HIDE DEF b
        <5>3. [worker[w] EXCEPT !.cancel = b] \in WorkerState
          BY <3>1, <5>2
        <5> QED BY <5>3 DEF b
      <4> QED BY <4>1
    <3>3. worker' = [w \in Workers |-> next(w)]
      BY <1>14 DEF Crash
    <3> HIDE DEF next
    <3> QED BY <3>2, <3>3
  <2> QED BY <1>14, <2>1 DEF Crash, dbVars
<1>15. CASE Restart
  <2>1. recovered' \in BOOLEAN
    BY <1>15, Zenon DEF Restart
  <2>2. gen' \in Gens
    BY <1>15 DEF Restart, Gens
  <2> QED BY <1>15, <2>1, <2>2 DEF Restart, dbVars, boundVars
<1>16. CASE UNCHANGED vars
  BY <1>16 DEF vars, dbVars, loopVars, boundVars
<1> QED
  BY <1>1, <1>2, <1>3, <1>4, <1>5, <1>6, <1>7, <1>8, <1>9, <1>10, <1>11, <1>12,
     <1>13, <1>14, <1>15, <1>16 DEF Next, SchedulerStep

(* The rows, the scheduler's tables and the workers always hold values of   *)
(* their kind, whatever the API, the scheduler and the workers interleave.  *)
THEOREM TypeCorrect == Spec => []TypeOK
BY TypeInit, TypeStep, PTL DEF Spec

-----------------------------------------------------------------------------
LEMMA ReservationInit == Init => ReservationInv
<1> SUFFICES ASSUME Init PROVE ReservationInv
  OBVIOUS
<1>1. \A w \in Workers : ~Alive(w)
  BY NoWorkerType DEF Init
<1>2. \A j \in Jobs : Mine(j) \in Workers
  BY TypeInit DEF Workers, TypeOK
<1>3. pc # "reaped" /\ processes = {}
  BY DEF Init
<1> QED
  BY <1>1, <1>2, <1>3, TypeInit
     DEF ReservationInv, WorkersReserved, ReservationsDisjoint, ReapedIsDead, NoFutureWorkers

(* A step that changes no reservation, no reading of the reaper, neither    *)
(* stops nor restarts the backend, and starts no process keeps the          *)
(* reservation invariant.                                                   *)
LEMMA QuietStep ==
  ASSUME ReservationInv, TypeOK', UNCHANGED <<gen, processes>>,
         studio' # "down" => studio # "down",
         \A w \in Workers : Alive(w)' => Alive(w),
         pc' = "reaped" => pc = "reaped" /\ seen' = seen
  PROVE  ReservationInv'
<1> USE DEF ReservationInv
<1>1. \A j \in Jobs : Mine(j) \in Workers
  BY DEF Workers, TypeOK
<1>2. WorkersReserved'
  BY <1>1 DEF WorkersReserved
<1>3. ReservationsDisjoint'
  BY DEF ReservationsDisjoint
<1>4. ReapedIsDead'
  <2>1. pc = "reaped" => seen.job \in Jobs
    BY DEF TypeOK, Reads
  <2> QED BY <1>1, <2>1 DEF ReapedIsDead
<1>5. NoFutureWorkers'
  BY DEF NoFutureWorkers
<1> QED BY <1>2, <1>3, <1>4, <1>5

(* Every step keeps the reservation invariant.                              *)
LEMMA ReservationStep == ReservationInv /\ [Next]_vars => ReservationInv'
<1> SUFFICES ASSUME ReservationInv, [Next]_vars PROVE ReservationInv'
  OBVIOUS
<1>0. TypeOK /\ TypeOK'
  BY TypeStep DEF ReservationInv
<1>a. \A j \in Jobs : Mine(j) \in Workers
  BY <1>0 DEF Workers, TypeOK
<1>b. \A w \in Workers : worker[w] \in WorkerState /\ w[2] \in Jobs
  BY <1>0 DEF TypeOK, Workers
<1> USE DEF loopVars, boundVars, dbVars, schedOnly, workerOnly
<1>1. ASSUME NEW j \in Jobs, SubmitTrainJob(j) \/ InterruptRead(j) \/ CancelPending(j)
                              \/ CancelJob(j) \/ DeleteJob(j)
      PROVE  ReservationInv'
  BY <1>0, <1>1, QuietStep
     DEF SubmitTrainJob, InterruptRead, CancelPending, CancelJob, DeleteJob
<1>2. CASE Poll \/ RecoverRead \/ RecoverDone \/ SweepAndList \/ StartDone
  BY <1>0, <1>2, QuietStep DEF Poll, RecoverRead, RecoverDone, SweepAndList, StartDone
<1>3. ASSUME NEW j \in Jobs, RecoverOne(j) \/ ReapSkip(j) \/ StartSkip(j) PROVE ReservationInv'
  BY <1>0, <1>3, QuietStep DEF RecoverOne, ReapSkip, StartSkip
<1>4. ASSUME NEW j \in Jobs, ReapRead(j) PROVE ReservationInv'
  <2>1. ReapedIsDead'
    BY <1>4 DEF ReapRead, ReapedIsDead
  <2> QED BY <1>0, <1>4, <2>1
             DEF ReapRead, ReservationInv, WorkersReserved, ReservationsDisjoint, NoFutureWorkers
<1>5. CASE ReapDead
  <2>1. WorkersReserved'
    BY <1>5 DEF ReapDead, ReservationInv, WorkersReserved, ReapedIsDead
  <2> QED BY <1>0, <1>5, <2>1
             DEF ReapDead, ReservationInv, ReservationsDisjoint, ReapedIsDead, NoFutureWorkers
<1>6. ASSUME NEW j \in Jobs, StartJob(j) PROVE ReservationInv'
  <2>1. ReservationsDisjoint'
    BY <1>6, OverlapsSymmetric DEF StartJob, Busy, ReservationInv, ReservationsDisjoint
  <2>2. \A w \in Workers : w # Mine(j) => worker'[w] = worker[w]
    BY <1>0, <1>6 DEF StartJob, TypeOK
  <2>3. WorkersReserved'
    BY <1>6, <1>a, <2>2 DEF StartJob, ReservationInv, WorkersReserved
  <2>4. NoFutureWorkers'
    BY <1>0, <1>6, <2>2 DEF StartJob, ReservationInv, NoFutureWorkers, TypeOK, Gens
  <2> QED BY <1>0, <1>6, <2>1, <2>3, <2>4 DEF StartJob, ReservationInv, ReapedIsDead
<1>7. ASSUME NEW j \in Jobs, StartFails(j) PROVE ReservationInv'
  <2>1. ReservationsDisjoint'
    BY <1>7, OverlapsSymmetric DEF StartFails, Busy, ReservationInv, ReservationsDisjoint
  <2> QED BY <1>0, <1>7, <2>1
             DEF StartFails, ReservationInv, WorkersReserved, ReapedIsDead, NoFutureWorkers
<1>8. CASE SchedulerError \/ RowGone \/ Shutdown
  BY <1>0, <1>8, QuietStep DEF SchedulerError, RowGone, Unwind, Shutdown
<1>9. ASSUME NEW j \in Jobs, KillWorker(j) PROVE ReservationInv'
  <2>1. \A w \in Workers : Alive(w)' => Alive(w)
    BY <1>0, <1>9, NoWorkerType DEF KillWorker, TypeOK
  <2> QED BY <1>0, <1>9, <2>1, QuietStep DEF KillWorker
<1>10. CASE ShutdownProcesses
  BY <1>0, <1>10
     DEF ShutdownProcesses, ReservationInv, WorkersReserved, ReservationsDisjoint,
         ReapedIsDead, NoFutureWorkers
<1>11. ASSUME NEW w \in Workers, WorkerStep(w) \/ Report(w) \/ DrainOne(w)
                                  \/ PersistRemoteId(w) \/ WorkerDies(w)
       PROVE ReservationInv'
  <2>1. UNCHANGED <<gen, processes, studio, pc, seen>>
    BY <1>11 DEF WorkerStep, Claim, StartTraining, CheckCancel, TrainReturns, TrainRaises,
                 JoinDispatcher, WriteOutcome, CreateModel, Report, DrainOne, PersistRemoteId, WorkerDies
  <2>2. Alive(w) /\ \A v \in Workers \ {w} : worker'[v] = worker[v]
    <3> USE <1>0, <1>b DEF TypeOK
    <3>1. CASE Claim(w) \/ StartTraining(w) \/ CheckCancel(w) \/ TrainReturns(w)
      BY <3>1 DEF Claim, StartTraining, CheckCancel, TrainReturns, To
    <3>2. CASE TrainRaises(w) \/ JoinDispatcher(w) \/ WriteOutcome(w) \/ CreateModel(w)
      BY <3>2 DEF TrainRaises, JoinDispatcher, WriteOutcome, CreateModel, To
    <3>3. CASE Report(w) \/ PersistRemoteId(w) \/ WorkerDies(w)
      BY <3>3 DEF Report, PersistRemoteId, WorkerDies
    <3>4. CASE DrainOne(w)
      BY <3>4 DEF DrainOne
    <3> QED BY <1>11, <3>1, <3>2, <3>3, <3>4 DEF WorkerStep
  <2>3. \A v \in Workers : Alive(v)' => Alive(v)
    BY <2>2
  <2> QED BY <1>0, <2>1, <2>3, QuietStep
<1>12. CASE Crash
  <2>1. \A w \in Workers : Alive(w)' => Alive(w)
    BY <1>0, <1>b, <1>12 DEF Crash
  <2> QED BY <1>0, <1>12, <2>1
             DEF Crash, ReservationInv, WorkersReserved, ReservationsDisjoint,
                 ReapedIsDead, NoFutureWorkers
<1>13. CASE Restart
  <2>1. WorkersReserved'
    BY <1>0, <1>a, <1>13 DEF Restart, ReservationInv, WorkersReserved, NoFutureWorkers, TypeOK, Gens, Workers
  <2>2. NoFutureWorkers'
    BY <1>0, <1>13 DEF Restart, ReservationInv, NoFutureWorkers, TypeOK, Gens, Workers
  <2> QED BY <1>0, <1>13, <2>1, <2>2 DEF Restart, ReservationInv, ReservationsDisjoint, ReapedIsDead
<1>14. CASE UNCHANGED vars
  BY <1>0, <1>14, QuietStep DEF vars
<1> QED
  BY <1>1, <1>2, <1>3, <1>4, <1>5, <1>6, <1>7, <1>8, <1>9, <1>10, <1>11, <1>12,
     <1>13, <1>14 DEF Next, SchedulerStep

(* What the steps of a worker process and its dispatcher may touch.         *)
AnyWorkerStep(w) ==
  WorkerStep(w) \/ Report(w) \/ DrainOne(w) \/ PersistRemoteId(w) \/ WorkerDies(w)

LEMMA WorkerStepFacts ==
  ASSUME TypeOK, NEW w \in Workers, AnyWorkerStep(w)
  PROVE  /\ w[1] \in Gens /\ w[2] \in Jobs /\ w = <<w[1], w[2]>>
         /\ Alive(w) /\ \A v \in Workers \ {w} : worker'[v] = worker[v]
         /\ UNCHANGED <<studio, gen, loopVars, cancelEvents, api, asked>>
         /\ \A j \in Jobs \ {w[2]} : status'[j] = status[j]
         /\ \A j \in Jobs : status'[j] = "NONE" => status[j] = "NONE"
         /\ \A j \in Jobs \ {w[2]} : j \in remoteId' <=> j \in remoteId
<1> USE DEF TypeOK, workerOnly, loopVars, boundVars
<1>1. w[1] \in Gens /\ w[2] \in Jobs /\ w = <<w[1], w[2]>> /\ worker[w] \in WorkerState
  BY DEF Workers
<1>2. UNCHANGED <<studio, gen, loopVars, cancelEvents, api, asked>>
  BY DEF AnyWorkerStep, WorkerStep, Claim, StartTraining, CheckCancel, TrainReturns, TrainRaises,
         JoinDispatcher, WriteOutcome, CreateModel, Report, DrainOne, PersistRemoteId, WorkerDies
<1>3. Alive(w) /\ \A v \in Workers \ {w} : worker'[v] = worker[v]
  <2>1. CASE Claim(w) \/ StartTraining(w) \/ CheckCancel(w) \/ TrainReturns(w)
    BY <1>1, <2>1 DEF Claim, StartTraining, CheckCancel, TrainReturns, To
  <2>2. CASE TrainRaises(w) \/ JoinDispatcher(w) \/ WriteOutcome(w) \/ CreateModel(w)
    BY <1>1, <2>2 DEF TrainRaises, JoinDispatcher, WriteOutcome, CreateModel, To
  <2>3. CASE Report(w) \/ PersistRemoteId(w) \/ WorkerDies(w)
    BY <1>1, <2>3 DEF Report, PersistRemoteId, WorkerDies
  <2>4. CASE DrainOne(w)
    BY <1>1, <2>4 DEF DrainOne
  <2> QED
    BY <2>1, <2>2, <2>3, <2>4 DEF AnyWorkerStep, WorkerStep
<1>4. /\ \A j \in Jobs \ {w[2]} : status'[j] = status[j]
      /\ \A j \in Jobs : status'[j] = "NONE" => status[j] = "NONE"
  <2>1. CASE Claim(w) \/ StartTraining(w)
    BY <1>1, <2>1 DEF Claim, StartTraining
  <2>2. CASE DrainOne(w)
    BY <1>1, <2>2 DEF DrainOne, Write
  <2>3. CASE WriteOutcome(w)
    <3>1. FinalStatus(worker[w].out) # "NONE"
      BY DEF FinalStatus
    <3> QED
      BY <1>1, <2>3, <3>1 DEF WriteOutcome, Write
  <2>4. CASE UNCHANGED status
    BY <2>4
  <2> QED
    BY <2>1, <2>2, <2>3, <2>4
       DEF AnyWorkerStep, WorkerStep, CheckCancel, TrainReturns, TrainRaises, JoinDispatcher,
           CreateModel, Report, PersistRemoteId, WorkerDies
<1>5. \A j \in Jobs \ {w[2]} : j \in remoteId' <=> j \in remoteId
  <2>1. CASE PersistRemoteId(w)
    BY <1>1, <2>1 DEF PersistRemoteId
  <2>2. CASE UNCHANGED remoteId
    BY <2>2
  <2> QED
    BY <2>1, <2>2
       DEF AnyWorkerStep, WorkerStep, Claim, StartTraining, CheckCancel, TrainReturns, TrainRaises,
           JoinDispatcher, WriteOutcome, CreateModel, Report, DrainOne, WorkerDies
<1> QED
  BY <1>1, <1>2, <1>3, <1>4, <1>5

(* The ways a worker process changes: by itself, by its start, by its end.  *)
LEMMA WorkerChanges ==
  ASSUME TypeOK, [Next]_vars, NEW w \in Workers
  PROVE  \/ AnyWorkerStep(w)
         \/ worker'[w] \in {worker[w], NoWorker}
         \/ Crash /\ worker'[w].pc = worker[w].pc /\ worker'[w].queue = worker[w].queue
         \/ \E j \in Jobs : w = Mine(j) /\ StartJob(j) /\ worker'[w] = [NoWorker EXCEPT !.pc = "claim"]
<1> USE DEF loopVars, boundVars, dbVars, schedOnly
<1>1. ASSUME NEW j \in Jobs, StartJob(j) \/ KillWorker(j)
      PROVE  \/ worker'[w] \in {worker[w], NoWorker}
             \/ w = Mine(j) /\ StartJob(j) /\ worker'[w] = [NoWorker EXCEPT !.pc = "claim"]
  BY <1>1 DEF StartJob, KillWorker, TypeOK
<1>2. ASSUME NEW v \in Workers, AnyWorkerStep(v) PROVE v = w \/ worker'[w] = worker[w]
  BY <1>2, WorkerStepFacts
<1>3. ASSUME NEW j \in Jobs, SubmitTrainJob(j) \/ InterruptRead(j) \/ CancelPending(j) \/ CancelJob(j)
                              \/ DeleteJob(j) \/ StartFails(j) \/ RecoverOne(j) \/ ReapSkip(j)
                              \/ ReapRead(j) \/ StartSkip(j)
      PROVE  UNCHANGED worker
  BY <1>3 DEF SubmitTrainJob, InterruptRead, CancelPending, CancelJob, DeleteJob, StartFails,
              RecoverOne, ReapSkip, ReapRead, StartSkip
<1>4. ASSUME Poll \/ RecoverRead \/ RecoverDone \/ SweepAndList \/ StartDone \/ ReapDead \/ RowGone
              \/ ShutdownProcesses \/ SchedulerError \/ Shutdown \/ Restart \/ UNCHANGED vars
      PROVE  UNCHANGED worker
  BY <1>4 DEF Poll, RecoverRead, RecoverDone, SweepAndList, StartDone, ReapDead, RowGone, Unwind,
              ShutdownProcesses, SchedulerError, Shutdown, Restart, vars
<1>5. ASSUME Crash PROVE worker'[w].pc = worker[w].pc /\ worker'[w].queue = worker[w].queue
  BY <1>5 DEF Crash, TypeOK, WorkerState
<1> QED
  BY <1>1, <1>2, <1>3, <1>4, <1>5 DEF Next, SchedulerStep, AnyWorkerStep

LEMMA ReservationImplies == ReservationInv => TargetsExclusive
BY DEF ReservationInv, WorkersReserved, ReservationsDisjoint, TargetsExclusive

(* Two worker processes of one backend never train on overlapping targets,  *)
(* however jobs are submitted, interrupted, deleted, requeued and reaped,   *)
(* and whatever dies: _target_is_busy against the reservations is enough.   *)
THEOREM WorkersNeverShareATarget == Spec => []TargetsExclusive
BY ReservationInit, ReservationStep, ReservationImplies, PTL DEF Spec
-----------------------------------------------------------------------------
(* _recover_jobs runs in a live backend, on rows no reservation covers.     *)
ScanIsUnreserved ==
  /\ studio = "down" => pc = "poll"
  /\ pc = "recovering" => scan \cap processes = {}

LEMMA ScanStep == ReservationInv /\ ScanIsUnreserved /\ [Next]_vars => ScanIsUnreserved'
<1> SUFFICES ASSUME ReservationInv, ScanIsUnreserved, [Next]_vars PROVE ScanIsUnreserved'
  OBVIOUS
<1>r. TypeOK
  BY DEF ReservationInv
<1> USE DEF loopVars, boundVars, dbVars, schedOnly, ScanIsUnreserved
<1>1. ASSUME NEW j \in Jobs, SubmitTrainJob(j) \/ InterruptRead(j) \/ CancelPending(j)
                              \/ CancelJob(j) \/ DeleteJob(j) \/ KillWorker(j)
      PROVE  UNCHANGED <<studio, pc, scan, processes>>
  BY <1>1 DEF SubmitTrainJob, InterruptRead, CancelPending, CancelJob, DeleteJob, KillWorker
<1>2. ASSUME NEW j \in Jobs, RecoverOne(j) PROVE ScanIsUnreserved'
  BY <1>2 DEF RecoverOne
<1>3. ASSUME NEW j \in Jobs, ReapSkip(j) \/ ReapRead(j) \/ StartSkip(j) \/ StartJob(j) \/ StartFails(j)
      PROVE  ScanIsUnreserved'
  BY <1>3 DEF ReapSkip, ReapRead, StartSkip, StartJob, StartFails
<1>4. CASE Poll \/ RecoverRead \/ RecoverDone
  BY <1>4 DEF Poll, RecoverRead, RecoverDone
<1>5. CASE SweepAndList \/ StartDone \/ ReapDead \/ ShutdownProcesses
  BY <1>5 DEF SweepAndList, StartDone, ReapDead, ShutdownProcesses
<1>6. CASE SchedulerError \/ RowGone
  BY <1>6 DEF SchedulerError, RowGone, Unwind
<1>7. CASE Shutdown \/ Crash \/ Restart \/ UNCHANGED vars
  BY <1>7 DEF Shutdown, Crash, Restart, vars
<1>8. ASSUME NEW w \in Workers, AnyWorkerStep(w) PROVE UNCHANGED <<studio, pc, scan, processes>>
  BY <1>r, <1>8, WorkerStepFacts
<1>9. CASE UNCHANGED <<studio, pc, scan, processes>>
  BY <1>9
<1> QED
  BY <1>1, <1>2, <1>3, <1>4, <1>5, <1>6, <1>7, <1>8, <1>9 DEF Next, SchedulerStep, AnyWorkerStep

(* _recover_jobs never requeues or fails a job that has a worker of the     *)
(* scheduler that runs it, whatever crashed, died or raised before: a       *)
(* reservation is held for as long as its process lives, and the rows it    *)
(* read without one are not started before it is through.                   *)
THEOREM RecoverySparesOwnWorkers ==
  Spec => [][\A j \in Jobs : RecoverOne(j) => ~Alive(Mine(j))]_vars
<1>1. Init => ScanIsUnreserved
  BY DEF Init, ScanIsUnreserved
<1>2. ReservationInv /\ ScanIsUnreserved => \A j \in Jobs : RecoverOne(j) => ~Alive(Mine(j))
  <2> SUFFICES ASSUME ReservationInv, ScanIsUnreserved, NEW j \in Jobs, RecoverOne(j)
               PROVE  ~Alive(Mine(j))
    OBVIOUS
  <2>1. studio # "down" /\ j \notin processes
    BY DEF ScanIsUnreserved, RecoverOne
  <2> QED
    BY <2>1 DEF ReservationInv, WorkersReserved
<1> QED
  BY <1>1, <1>2, ReservationInit, ReservationStep, ScanStep, PTL DEF Spec

-----------------------------------------------------------------------------
(***************************************************************************)
(* No worker works under a later backend: what the stop event and the       *)
(* parent check of StoppableMixin are for.  A backend may be killed, but it *)
(* is started again only when the workers it left behind have ended.  The   *)
(* theorems below rest on this; TLC refutes each of them for an orphan that *)
(* runs beside a new backend.                                               *)
(***************************************************************************)
NoOrphans == \A w \in Workers : Alive(w) => w[1] = gen

(* Then every worker belongs to the scheduler that is running, or that was  *)
(* killed last, and none is left when a shutdown reconciles.                *)
OnlyMine ==
  \A w \in Workers : Alive(w) => w[1] = gen /\ cont # "down"

LoopStops ==
  /\ cont = "down" => studio # "up"
  /\ pc = "shutdown" => studio = "stopping"
  /\ studio = "down" => pc = "poll"

(* What _recover_jobs has read stays true until it acts on it.              *)
ScanIsIdle ==
  /\ scan # {} => pc = "recovering" /\ studio # "down"
  /\ \A j \in scan : status[j] = "RUNNING" /\ ~Alive(Mine(j))

OrderlyInv == ReservationInv /\ OnlyMine /\ LoopStops /\ ScanIsIdle

LEMMA OrderlyInit == Init => OrderlyInv
<1> SUFFICES ASSUME Init PROVE OrderlyInv
  OBVIOUS
<1>1. \A w \in Workers : ~Alive(w)
  BY NoWorkerType DEF Init
<1> QED
  BY <1>1, ReservationInit DEF Init, OrderlyInv, OnlyMine, LoopStops, ScanIsIdle

(* A step of the API or the loop that starts no worker, ends no phase of    *)
(* the backend and reads no rows.                                           *)
LEMMA OrderlyFrame ==
  ASSUME OrderlyInv, ReservationInv', UNCHANGED <<gen, studio, cont, scan>>,
         \A w \in Workers : Alive(w)' => Alive(w),
         \A j \in scan : status'[j] = status[j],
         pc' # "shutdown" \/ studio = "stopping", pc' = pc \/ (pc # "poll" /\ scan = {})
  PROVE  OrderlyInv'
<1>1. TypeOK /\ \A j \in Jobs : Mine(j) \in Workers
  BY DEF OrderlyInv, ReservationInv, TypeOK, Workers
<1>2. OnlyMine'
  BY DEF OrderlyInv, OnlyMine
<1>3. LoopStops'
  BY DEF OrderlyInv, LoopStops
<1>4. ScanIsIdle'
  BY <1>1 DEF OrderlyInv, ScanIsIdle, TypeOK
<1> QED
  BY <1>2, <1>3, <1>4 DEF OrderlyInv

LEMMA OrderlyStep == OrderlyInv /\ [Next]_vars /\ NoOrphans' => OrderlyInv'
<1> SUFFICES ASSUME OrderlyInv, [Next]_vars, NoOrphans' PROVE OrderlyInv'
  OBVIOUS
<1>r. ReservationInv /\ ReservationInv' /\ TypeOK /\ TypeOK'
  BY ReservationStep DEF OrderlyInv, ReservationInv
<1>a. \A j \in Jobs : Mine(j) \in Workers
  BY <1>r DEF Workers, TypeOK
<1>b. OnlyMine /\ LoopStops /\ ScanIsIdle /\ WorkersReserved
  BY DEF OrderlyInv, ReservationInv
<1>c. ASSUME OnlyMine', LoopStops', ScanIsIdle' PROVE OrderlyInv'
  BY <1>c, <1>r DEF OrderlyInv
<1>m. \A w \in Workers : Alive(w) =>
        w[2] \in Jobs /\ w = Mine(w[2]) /\ (studio # "down" => w[2] \in processes)
  BY <1>b DEF OnlyMine, WorkersReserved, Workers
<1> USE DEF loopVars, boundVars, dbVars, schedOnly
<1>1. ASSUME NEW j \in Jobs, SubmitTrainJob(j) \/ InterruptRead(j) \/ CancelPending(j)
                              \/ CancelJob(j) \/ DeleteJob(j)
      PROVE  OrderlyInv'
  <2>1. UNCHANGED <<gen, studio, cont, scan, worker, pc>>
    BY <1>1 DEF SubmitTrainJob, InterruptRead, CancelPending, CancelJob, DeleteJob
  <2>2. \A i \in Jobs : status[i] = "RUNNING" => status'[i] = status[i]
    BY <1>r, <1>1
       DEF SubmitTrainJob, InterruptRead, CancelPending, CancelJob, DeleteJob, TypeOK
  <2>3. \A i \in scan : status'[i] = status[i]
    BY <1>r, <1>b, <2>2 DEF ScanIsIdle, TypeOK
  <2>4. pc' # "shutdown" \/ studio = "stopping"
    BY <1>b, <2>1 DEF LoopStops
  <2> QED
    BY <1>r, <2>1, <2>3, <2>4, OrderlyFrame
<1>2. CASE Poll
  <2>1. scan = {} /\ scan' = {} /\ UNCHANGED <<gen, studio, status, worker>>
    BY <1>2, <1>b DEF Poll, ScanIsIdle
  <2>2. cont' \in {cont, "begin"}
    BY <1>2 DEF Poll
  <2>3. LoopStops'
    BY <1>2, <1>b, <2>2 DEF Poll, LoopStops
  <2>4. OnlyMine'
    BY <1>b, <2>1, <2>2 DEF OnlyMine
  <2> QED
    BY <1>c, <2>1, <2>3, <2>4 DEF ScanIsIdle
<1>3. CASE RecoverRead
  <2>1. UNCHANGED <<gen, studio, cont, status, worker, processes>> /\ pc' = "recovering"
    BY <1>3 DEF RecoverRead
  <2>2. \A j \in scan' : j \in Jobs /\ status[j] = "RUNNING" /\ j \notin processes
    BY <1>3 DEF RecoverRead
  <2>4. studio # "down"
    BY <1>3, <1>b DEF RecoverRead, LoopStops
  <2>3. \A j \in scan' : ~Alive(Mine(j))
    BY <1>a, <1>m, <2>2, <2>4
  <2>5. ScanIsIdle'
    BY <2>1, <2>2, <2>3, <2>4 DEF ScanIsIdle
  <2> QED
    BY <1>b, <1>c, <2>1, <2>4, <2>5 DEF OnlyMine, LoopStops
<1>4. ASSUME NEW j \in Jobs, RecoverOne(j) PROVE OrderlyInv'
  <2>1. /\ UNCHANGED <<gen, studio, cont, worker, pc>> /\ scan' = scan \ {j} /\ pc = "recovering"
        /\ scan # {} /\ \A i \in Jobs \ {j} : status'[i] = status[i]
    BY <1>4, <1>r DEF RecoverOne, Write, TypeOK
  <2>2. ScanIsIdle'
    BY <1>b, <1>r, <2>1 DEF ScanIsIdle, TypeOK
  <2> QED
    BY <1>b, <1>c, <2>1, <2>2 DEF OnlyMine, LoopStops
<1>5. CASE RecoverDone
  <2>1. /\ UNCHANGED <<gen, cont, status, worker>> /\ scan = {} /\ scan' = {} /\ pc' # "shutdown"
        /\ studio' = studio \/ (cont = "down" /\ studio' = "down" /\ pc' = "poll")
        /\ pc = "recovering"
    BY <1>5 DEF RecoverDone
  <2>2. OnlyMine'
    BY <1>b, <2>1 DEF OnlyMine
  <2> QED
    BY <1>b, <1>c, <2>1, <2>2 DEF LoopStops, ScanIsIdle
<1>6. ASSUME NEW j \in Jobs, ReapSkip(j) \/ ReapRead(j) \/ StartSkip(j) PROVE OrderlyInv'
  <2>1. UNCHANGED <<gen, studio, cont, scan, worker, status>> /\ pc' # "shutdown"
        /\ pc # "recovering" /\ pc # "poll"
    BY <1>6 DEF ReapSkip, ReapRead, StartSkip
  <2> QED
    BY <1>r, <1>b, <2>1, OrderlyFrame DEF ScanIsIdle
<1>7. CASE SweepAndList \/ StartDone
  <2>1. UNCHANGED <<gen, studio, cont, scan, worker, status>> /\ pc' # "shutdown"
        /\ pc # "recovering" /\ pc # "poll"
    BY <1>7 DEF SweepAndList, StartDone
  <2> QED
    BY <1>r, <1>b, <2>1, OrderlyFrame DEF ScanIsIdle
<1>8. CASE ReapDead
  <2>1. /\ UNCHANGED <<gen, studio, worker, scan>> /\ pc = "reaped" /\ cont' = "reap"
        /\ pc' = "recover" /\ scan = {}
    BY <1>8, <1>b DEF ReapDead, ScanIsIdle
  <2>2. OnlyMine'
    BY <1>b, <2>1 DEF OnlyMine
  <2> QED
    BY <1>b, <1>c, <2>1, <2>2 DEF LoopStops, ScanIsIdle
<1>9. ASSUME NEW j \in Jobs, StartJob(j) PROVE OrderlyInv'
  <2>1. /\ UNCHANGED <<gen, studio, cont, scan, pc>> /\ pc = "start" /\ studio = "up" /\ scan = {}
        /\ \A w \in Workers : w # Mine(j) => worker'[w] = worker[w]
    BY <1>9, <1>r, <1>b DEF StartJob, ScanIsIdle, TypeOK
  <2>2. OnlyMine'
    BY <1>b, <2>1 DEF OnlyMine, LoopStops
  <2> QED
    BY <1>b, <1>c, <2>1, <2>2 DEF LoopStops, ScanIsIdle
<1>10. ASSUME NEW j \in Jobs, StartFails(j) PROVE OrderlyInv'
  <2>1. UNCHANGED <<gen, studio, cont, scan, worker, status>> /\ pc = "start" /\ pc' = "poll"
    BY <1>10 DEF StartFails
  <2> QED
    BY <1>r, <1>b, <2>1, OrderlyFrame DEF ScanIsIdle
<1>11. CASE SchedulerError \/ RowGone
  <2>1. /\ UNCHANGED <<gen, cont, status, worker>> /\ scan' = {} /\ pc' = "poll"
        /\ studio' = studio \/ (cont = "down" /\ studio' = "down")
    BY <1>11 DEF SchedulerError, RowGone, Unwind
  <2>2. OnlyMine'
    BY <1>b, <2>1 DEF OnlyMine
  <2> QED
    BY <1>b, <1>c, <2>1, <2>2 DEF LoopStops, ScanIsIdle
<1>12. CASE Shutdown
  <2>1. UNCHANGED <<gen, cont, scan, status, worker, pc>> /\ studio = "up" /\ studio' = "stopping"
    BY <1>12 DEF Shutdown
  <2>2. OnlyMine' /\ ScanIsIdle'
    BY <1>b, <2>1 DEF OnlyMine, ScanIsIdle
  <2> QED
    BY <1>b, <1>c, <2>1, <2>2 DEF LoopStops
<1>13. ASSUME NEW j \in Jobs, KillWorker(j) PROVE OrderlyInv'
  <2>1. UNCHANGED <<gen, studio, cont, scan, status, pc>>
    BY <1>13 DEF KillWorker
  <2>2. \A w \in Workers : Alive(w)' => Alive(w)
    BY <1>r, <1>13, NoWorkerType DEF KillWorker, TypeOK
  <2>3. pc' # "shutdown" \/ studio = "stopping"
    BY <1>b, <2>1 DEF LoopStops
  <2> QED
    BY <1>r, <2>1, <2>2, <2>3, OrderlyFrame
<1>14. CASE ShutdownProcesses
  <2>1. /\ UNCHANGED <<gen, studio, scan, worker, status>> /\ pc = "shutdown" /\ pc' = "recover"
        /\ cont' = "down" /\ scan = {} /\ studio = "stopping"
        /\ \A j \in processes : ~Alive(Mine(j))
    BY <1>14, <1>b DEF ShutdownProcesses, ScanIsIdle, LoopStops
  <2>2. \A w \in Workers : ~Alive(w)
    BY <1>m, <2>1
  <2> QED
    BY <1>c, <2>1, <2>2 DEF OnlyMine, LoopStops, ScanIsIdle
<1>15. ASSUME NEW w \in Workers, AnyWorkerStep(w) PROVE OrderlyInv'
  <2>1. /\ Alive(w) /\ w[2] \in Jobs /\ \A v \in Workers \ {w} : worker'[v] = worker[v]
        /\ UNCHANGED <<studio, gen, pc, cont, scan>>
        /\ \A j \in Jobs \ {w[2]} : status'[j] = status[j]
    BY <1>r, <1>15, WorkerStepFacts
  <2>2. w[2] \notin scan
    BY <1>b, <1>m, <2>1 DEF ScanIsIdle
  <2>3. \A j \in scan : status'[j] = status[j]
    BY <1>r, <2>1, <2>2 DEF TypeOK
  <2>4. pc' # "shutdown" \/ studio = "stopping"
    BY <1>b, <2>1 DEF LoopStops
  <2> QED
    BY <1>r, <2>1, <2>3, <2>4, OrderlyFrame
<1>16. CASE Crash
  <2>1. UNCHANGED <<gen, cont>> /\ studio' = "down" /\ pc' = "poll" /\ scan' = {}
    BY <1>16 DEF Crash
  <2>2. \A w \in Workers : Alive(w)' => Alive(w)
    BY <1>16, <1>r DEF Crash, TypeOK, WorkerState
  <2>3. OnlyMine'
    BY <1>b, <2>1, <2>2 DEF OnlyMine
  <2> QED
    BY <1>c, <2>1, <2>3 DEF LoopStops, ScanIsIdle
<1>17. CASE Restart
  <2>1. /\ UNCHANGED <<scan, status, worker>> /\ studio = "down" /\ studio' = "up" /\ pc' = "poll"
        /\ cont' = "begin" /\ scan = {} /\ gen' = gen + 1
    BY <1>17, <1>b DEF Restart, ScanIsIdle
  <2>0. gen \in Nat
    BY <1>r, ConstantsAssumption DEF TypeOK, Gens, ConstantsAssumption
  <2>2. \A w \in Workers : ~Alive(w)
    BY <1>b, <2>0, <2>1 DEF OnlyMine, NoOrphans
  <2> QED
    BY <1>c, <2>1, <2>2 DEF OnlyMine, LoopStops, ScanIsIdle
<1>18. CASE UNCHANGED vars
  <2>1. pc' # "shutdown" \/ studio = "stopping"
    BY <1>b, <1>18 DEF LoopStops, vars
  <2> QED
    BY <1>r, <1>18, <2>1, OrderlyFrame DEF vars
<1> QED
  BY <1>1, <1>2, <1>3, <1>4, <1>5, <1>6, <1>7, <1>8, <1>9, <1>10, <1>11, <1>12, <1>13, <1>14,
     <1>15, <1>16, <1>17, <1>18 DEF Next, SchedulerStep, AnyWorkerStep

(* A backend goes down by a crash, or after its last worker has ended; only *)
(* a restart changes the generation.                                        *)
LEMMA BackendChanges ==
  ASSUME OrderlyInv, [Next]_vars
  PROVE  /\ gen' = gen \/ (studio = "down" /\ worker' = worker)
         /\ studio' = "down" => studio = "down" \/ cont = "down" \/ Crash
<1>r. TypeOK
  BY DEF OrderlyInv, ReservationInv
<1> USE DEF loopVars, boundVars, dbVars, schedOnly
<1>1. ASSUME NEW j \in Jobs, SubmitTrainJob(j) \/ InterruptRead(j) \/ CancelPending(j) \/ CancelJob(j)
                              \/ DeleteJob(j) \/ StartFails(j)
      PROVE  UNCHANGED <<gen, studio>>
  BY <1>1 DEF SubmitTrainJob, InterruptRead, CancelPending, CancelJob, DeleteJob, StartFails
<1>2. ASSUME NEW j \in Jobs, RecoverOne(j) \/ ReapSkip(j) \/ ReapRead(j) \/ StartSkip(j) \/ StartJob(j)
                              \/ KillWorker(j)
      PROVE  UNCHANGED <<gen, studio>>
  BY <1>2 DEF RecoverOne, ReapSkip, ReapRead, StartSkip, StartJob, KillWorker
<1>3. ASSUME Poll \/ RecoverRead \/ SweepAndList \/ StartDone \/ ReapDead \/ ShutdownProcesses
              \/ UNCHANGED vars
      PROVE  UNCHANGED <<gen, studio>>
  BY <1>3 DEF Poll, RecoverRead, SweepAndList, StartDone, ReapDead, ShutdownProcesses, vars
<1>4. ASSUME NEW w \in Workers, AnyWorkerStep(w) PROVE UNCHANGED <<gen, studio>>
  BY <1>r, <1>4, WorkerStepFacts
<1>5. ASSUME RecoverDone \/ SchedulerError \/ RowGone \/ Shutdown
      PROVE  gen' = gen /\ (studio' = "down" => studio = "down" \/ cont = "down")
  BY <1>5 DEF RecoverDone, SchedulerError, RowGone, Unwind, Shutdown
<1>6. ASSUME Restart PROVE studio = "down" /\ studio' = "up" /\ worker' = worker
  BY <1>6 DEF Restart
<1>7. ASSUME Crash PROVE gen' = gen
  BY <1>7 DEF Crash
<1> QED
  BY <1>1, <1>2, <1>3, <1>4, <1>5, <1>6, <1>7 DEF Next, SchedulerStep, AnyWorkerStep

(* The shutdown of a backend leaves no worker behind: only a worker of a    *)
(* backend that was killed can outlive it, so that what is shown below of   *)
(* backends without orphans holds of every backend that is never killed.    *)
THEOREM OrphansNeedACrash == ASSUME MaxCrashes = 0 PROVE Spec => []NoOrphans
<1> DEFINE DownIsEmpty == studio = "down" => \A w \in Workers : ~Alive(w)
<1>1. OrderlyInv /\ DownIsEmpty /\ [Next]_vars => NoOrphans' /\ DownIsEmpty'
  <2> SUFFICES ASSUME OrderlyInv, DownIsEmpty, [Next]_vars PROVE NoOrphans' /\ DownIsEmpty'
    OBVIOUS
  <2>r. TypeOK /\ OnlyMine /\ LoopStops /\ ~Crash
    BY DEF OrderlyInv, ReservationInv, Crash, TypeOK
  <2>1. ASSUME NEW w \in Workers, Alive(w)'
        PROVE  Alive(w) \/ (studio = "up" /\ w[1] = gen /\ studio' = "up")
    <3>1. CASE AnyWorkerStep(w)
      BY <2>r, <3>1, WorkerStepFacts
    <3>2. CASE worker'[w] \in {worker[w], NoWorker}
      BY <2>1, <3>2, NoWorkerType
    <3>3. CASE \E j \in Jobs : w = Mine(j) /\ StartJob(j)
      BY <3>3 DEF StartJob, schedOnly
    <3> QED
      BY <2>r, <3>1, <3>2, <3>3, WorkerChanges
  <2>2. /\ gen' = gen \/ (studio = "down" /\ worker' = worker)
        /\ studio' = "down" => studio = "down" \/ cont = "down"
    BY <2>r, BackendChanges
  <2>3. NoOrphans'
    BY <2>r, <2>1, <2>2 DEF NoOrphans, OnlyMine
  <2>4. DownIsEmpty'
    BY <2>r, <2>1, <2>2 DEF OnlyMine, LoopStops
  <2> QED
    BY <2>3, <2>4
<1>2. Init => DownIsEmpty
  BY DEF Init
<1>3. OrderlyInv => NoOrphans
  BY DEF OrderlyInv, OnlyMine, NoOrphans
<1> HIDE DEF DownIsEmpty
<1> QED
  BY <1>1, <1>2, <1>3, OrderlyInit, OrderlyStep, PTL DEF Spec

LEMMA OrderlyAlways == Spec /\ []NoOrphans => []OrderlyInv
BY OrderlyInit, OrderlyStep, PTL DEF Spec

(* _recover_jobs requeues or fails no job whose worker is running, although *)
(* it acts on rows it read before other steps, through any number of        *)
(* crashes that leave no orphan beside the next backend.                    *)
THEOREM RecoveryLeavesLiveJobs == Spec /\ []NoOrphans => RecoveryTouchesAbandonedOnly
<1>1. OrderlyInv =>
        \A j \in Jobs : RecoverOne(j) => \A g \in Gens : ~Alive(<<g, j>>)
  <2> SUFFICES ASSUME OrderlyInv, NEW j \in Jobs, RecoverOne(j), NEW g \in Gens
               PROVE  ~Alive(<<g, j>>)
    OBVIOUS
  <2>1. ~Alive(Mine(j))
    BY DEF OrderlyInv, ScanIsIdle, RecoverOne
  <2>2. <<g, j>> \in Workers /\ <<g, j>>[1] = g
    BY DEF Workers
  <2>3. Alive(<<g, j>>) => g = gen
    BY <2>2 DEF OrderlyInv, OnlyMine
  <2> QED
    BY <2>1, <2>3
<1> QED
  BY <1>1, OrderlyAlways, PTL DEF RecoveryTouchesAbandonedOnly

-----------------------------------------------------------------------------
(* The ways the row of a job changes: by the handlers, by _recover_jobs, by *)
(* _reap_processes, or by its own worker.                                   *)
RowStep(j) ==
  \/ status'[j] = status[j]
  \/ status[j] = "NONE" /\ status'[j] = "PENDING" /\ \A i \in 1..(j - 1) : status[i] # "NONE"
  \/ status[j] = "PENDING" /\ status'[j] = "CANCELED"
  \/ status[j] \in {"FAILED", "CANCELED"} /\ status'[j] = "DELETED"
  \/ /\ pc = "recovering" /\ j \in scan
     /\ status'[j] = IF Reattachable(j) THEN "PENDING" ELSE "FAILED"
  \/ /\ pc = "reaped" /\ j = seen.job /\ FailsUnclaimed /\ pc' = "recover"
     /\ status[j] # "DELETED" /\ status'[j] = "FAILED"
  \/ Alive(Mine(j)) /\ AnyWorkerStep(Mine(j)) /\ status'[j] # "NONE"

LEMMA RowChanges ==
  OrderlyInv /\ [Next]_vars =>
    \A j \in Jobs : RowStep(j) /\ (Alive(Mine(j)) \/ (j \in remoteId' <=> j \in remoteId))
<1> SUFFICES ASSUME OrderlyInv, [Next]_vars, NEW j \in Jobs
             PROVE  RowStep(j) /\ (Alive(Mine(j)) \/ (j \in remoteId' <=> j \in remoteId))
  OBVIOUS
<1>r. TypeOK
  BY DEF OrderlyInv, ReservationInv
<1> USE DEF loopVars, boundVars, dbVars, schedOnly
<1>0. CASE UNCHANGED <<status, remoteId>>
  BY <1>0 DEF RowStep
<1>1. ASSUME NEW i \in Jobs, SubmitTrainJob(i) PROVE RowStep(j) /\ UNCHANGED remoteId
  BY <1>1, <1>r DEF SubmitTrainJob, RowStep, TypeOK
<1>2. ASSUME NEW i \in Jobs, CancelPending(i) \/ DeleteJob(i) PROVE RowStep(j) /\ UNCHANGED remoteId
  BY <1>2, <1>r DEF CancelPending, DeleteJob, RowStep, TypeOK
<1>3. ASSUME NEW i \in Jobs, RecoverOne(i) PROVE RowStep(j) /\ UNCHANGED remoteId
  BY <1>3, <1>r DEF RecoverOne, Write, RowStep, TypeOK
<1>4. CASE ReapDead
  BY <1>4, <1>r DEF ReapDead, Write, RowStep, TypeOK
<1>5. ASSUME NEW w \in Workers, AnyWorkerStep(w)
      PROVE  RowStep(j) /\ (Alive(Mine(j)) \/ (j \in remoteId' <=> j \in remoteId))
  <2>1. /\ w[2] \in Jobs /\ w = <<w[1], w[2]>> /\ Alive(w)
        /\ UNCHANGED <<studio, gen, loopVars, cancelEvents, api, asked>>
        /\ \A i \in Jobs \ {w[2]} : status'[i] = status[i]
        /\ \A i \in Jobs : status'[i] = "NONE" => status[i] = "NONE"
        /\ \A i \in Jobs \ {w[2]} : i \in remoteId' <=> i \in remoteId
    BY <1>r, <1>5, WorkerStepFacts
  <2>2. CASE j # w[2]
    BY <2>1, <2>2 DEF RowStep
  <2>3. CASE j = w[2]
    <3>1. w = Mine(j) /\ Alive(Mine(j))
      BY <2>1, <2>3 DEF OrderlyInv, OnlyMine
    <3>2. status'[j] # "NONE" \/ status'[j] = status[j]
      BY <2>1
    <3> QED
      BY <1>5, <3>1, <3>2 DEF RowStep
  <2> QED
    BY <2>2, <2>3
<1> QED
  <2>1. ASSUME NEW i \in Jobs, InterruptRead(i) \/ CancelJob(i) \/ StartFails(i) \/ ReapSkip(i)
                                \/ ReapRead(i) \/ StartSkip(i) \/ StartJob(i) \/ KillWorker(i)
        PROVE UNCHANGED <<status, remoteId>>
    BY <2>1 DEF InterruptRead, CancelJob, StartFails, ReapSkip, ReapRead, StartSkip, StartJob, KillWorker
  <2>2. ASSUME Poll \/ RecoverRead \/ RecoverDone \/ SweepAndList \/ StartDone \/ RowGone
                \/ ShutdownProcesses \/ SchedulerError \/ Shutdown \/ Crash \/ Restart \/ UNCHANGED vars
        PROVE UNCHANGED <<status, remoteId>>
    BY <2>2 DEF Poll, RecoverRead, RecoverDone, SweepAndList, StartDone, RowGone, Unwind,
                ShutdownProcesses, SchedulerError, Shutdown, Crash, Restart, vars
  <2>3. CASE ReapDead
    BY <1>4, <2>3 DEF ReapDead
  <2> QED
    BY <1>0, <1>1, <1>2, <1>3, <1>5, <2>1, <2>2, <2>3 DEF Next, SchedulerStep, AnyWorkerStep

-----------------------------------------------------------------------------
(***************************************************************************)
(* A signalled cancellation is in _cancel_events, or its job is settled: no *)
(* worker of it runs or is about to be started, and its row is terminal or  *)
(* RUNNING with nothing to reattach to, so recovery will fail it.           *)
(***************************************************************************)
Over == Terminal \cup {"DELETED"}

Settled(j) ==
  /\ ~Alive(Mine(j)) /\ j \notin listed
  /\ status[j] \in Over \/ (status[j] = "RUNNING" /\ ~Reattachable(j))

Retained ==
  \A j \in Jobs : Mine(j) \in asked =>
    \/ j \in cancelEvents
    \/ studio = "up" /\ Settled(j)
    \/ studio # "up" /\ (studio = "down" \/ ~Alive(Mine(j)))

(* The scheduler and the handlers work on submitted jobs only.              *)
Submitted ==
  /\ \A j \in processes \cup listed \cup todo : status[j] # "NONE"
  /\ \A w \in asked : w[1] <= gen /\ status[w[2]] # "NONE"
  /\ \A j \in Jobs : api[j] # "idle" => status[j] # "NONE"
  /\ listed # {} => pc = "start"
  /\ pc = "reaped" => status[seen.job] # "NONE"
  /\ \A w \in Workers : Alive(w) => status[w[2]] # "NONE"

(* What _reap_processes has read of a dead worker's row is still good       *)
(* enough to decide on when it acts.                                        *)
SeenIsCurrent ==
  pc = "reaped" =>
    /\ seen.reattaching = (seen.status \in Live /\ Reattachable(seen.job))
    /\ seen.status = "RUNNING" => status[seen.job] = "RUNNING"
    /\ seen.status = "PENDING" => status[seen.job] \in {"PENDING", "CANCELED", "DELETED"}
    /\ seen.status \in Over => status[seen.job] \in Over
    /\ seen.status # "NONE"

RetainInv == OrderlyInv /\ Submitted /\ SeenIsCurrent /\ Retained

LEMMA SubmittedInit == Init => Submitted
<1> SUFFICES ASSUME Init PROVE Submitted
  OBVIOUS
<1>1. \A w \in Workers : ~Alive(w)
  BY NoWorkerType DEF Init
<1> QED
  BY <1>1 DEF Init, Submitted

LEMMA SubmittedStep == OrderlyInv /\ Submitted /\ [Next]_vars => Submitted'
<1> SUFFICES ASSUME OrderlyInv, Submitted, [Next]_vars PROVE Submitted'
  OBVIOUS
<1>r. TypeOK /\ TypeOK'
  BY TypeStep DEF OrderlyInv, ReservationInv
<1>s. \A j \in Jobs : status[j] # "NONE" => status'[j] # "NONE"
  BY RowChanges DEF RowStep
<1>t. /\ processes \subseteq Jobs /\ listed \subseteq Jobs /\ todo \subseteq Jobs
      /\ \A w \in asked : w[2] \in Jobs /\ w[1] \in Nat
      /\ \A w \in Workers : w[2] \in Jobs
      /\ gen \in Nat /\ (pc = "reaped" => seen.job \in Jobs)
  BY <1>r, ConstantsAssumption DEF TypeOK, Workers, Gens, ConstantsAssumption, Reads
<1> USE DEF loopVars, boundVars, dbVars, schedOnly
(* Only a few steps add to what must have been submitted.                   *)
<1>f. ASSUME processes' \cup listed' \cup todo' \subseteq processes \cup listed \cup todo,
             asked' = asked, gen' = gen \/ gen' = gen + 1,
             \A j \in Jobs : api'[j] # "idle" => api[j] # "idle",
             listed' # {} => listed # {} /\ pc' = pc,
             pc' = "reaped" => pc = "reaped" /\ seen' = seen,
             \A w \in Workers : Alive(w)' => Alive(w)
      PROVE  Submitted'
  <2>1. \A w \in asked' : w[1] <= gen' /\ status'[w[2]] # "NONE"
    BY <1>f, <1>s, <1>t DEF Submitted
  <2>2. \A j \in processes' \cup listed' \cup todo' : status'[j] # "NONE"
    BY <1>f, <1>s, <1>t DEF Submitted
  <2>3. \A j \in Jobs : api'[j] # "idle" => status'[j] # "NONE"
    BY <1>f, <1>s DEF Submitted
  <2>4. pc = "reaped" => seen.job \in Jobs
    BY <1>r DEF TypeOK, Reads
  <2>5. pc' = "reaped" => status'[seen'.job] # "NONE"
    BY <1>f, <1>s, <2>4 DEF Submitted
  <2>6. \A w \in Workers : Alive(w)' => status'[w[2]] # "NONE"
    BY <1>f, <1>s, <1>t DEF Submitted
  <2> QED
    BY <1>f, <2>1, <2>2, <2>3, <2>5, <2>6 DEF Submitted
<1>1. ASSUME NEW j \in Jobs, SubmitTrainJob(j) \/ CancelPending(j) \/ DeleteJob(j) PROVE Submitted'
  BY <1>1, <1>f, <1>r DEF SubmitTrainJob, CancelPending, DeleteJob, TypeOK
<1>2. ASSUME NEW j \in Jobs, InterruptRead(j) PROVE Submitted'
  <2>1. /\ UNCHANGED <<processes, listed, todo, asked, gen, pc, seen, worker>> /\ status[j] # "NONE"
        /\ \A i \in Jobs \ {j} : api'[i] = api[i]
    BY <1>2, <1>r DEF InterruptRead, Live, TypeOK
  <2> QED
    BY <1>s, <1>t, <2>1 DEF Submitted
<1>3. ASSUME NEW j \in Jobs, CancelJob(j) PROVE Submitted'
  <2>1. /\ UNCHANGED <<processes, listed, todo, gen, pc, seen, worker>> /\ status[j] # "NONE"
        /\ \A i \in Jobs : api'[i] # "idle" => api[i] # "idle"
        /\ asked' = asked \cup {<<gen, j>>}
    BY <1>3, <1>r DEF CancelJob, TypeOK, Submitted
  <2>2. \A w \in asked' : w[1] <= gen' /\ status'[w[2]] # "NONE"
    BY <1>s, <1>t, <2>1 DEF Submitted
  <2> QED
    BY <1>s, <1>t, <2>1, <2>2 DEF Submitted
<1>4. CASE Poll \/ RecoverRead \/ RecoverDone \/ StartDone \/ ReapDead \/ ShutdownProcesses
  <2>1. CASE Poll \/ RecoverRead \/ RecoverDone \/ ReapDead \/ ShutdownProcesses
    <3>1. pc # "start"
      BY <2>1 DEF Poll, RecoverRead, RecoverDone, ReapDead, ShutdownProcesses
    <3>2. listed = {} /\ listed' = listed
      BY <2>1, <3>1 DEF Poll, RecoverRead, RecoverDone, ReapDead, ShutdownProcesses, Submitted
    <3> QED
      BY <2>1, <1>f, <3>2 DEF Poll, RecoverRead, RecoverDone, ReapDead, ShutdownProcesses
  <2>2. CASE StartDone
    BY <2>2, <1>f DEF StartDone
  <2> QED
    BY <1>4, <2>1, <2>2
<1>5. CASE SweepAndList
  <2>1. /\ UNCHANGED <<processes, todo, asked, gen, api, status, worker>> /\ pc' = "start"
        /\ \A j \in listed' : j \in Jobs /\ status[j] = "PENDING"
    BY <1>5 DEF SweepAndList
  <2> QED
    BY <2>1 DEF Submitted
<1>6. ASSUME NEW j \in Jobs, RecoverOne(j) \/ ReapSkip(j) \/ ReapRead(j) PROVE Submitted'
  <2>1. listed = {}
    BY <1>6 DEF RecoverOne, ReapSkip, ReapRead, Submitted
  <2>2. CASE ReapRead(j)
    <3>1. /\ UNCHANGED <<processes, listed, todo, asked, gen, api, status, worker>>
          /\ j \in todo /\ seen'.job = j
      BY <2>2 DEF ReapRead
    <3> QED
      BY <2>1, <3>1 DEF Submitted
  <2> QED
    BY <1>6, <1>f, <2>1, <2>2 DEF RecoverOne, ReapSkip
<1>7. ASSUME NEW j \in Jobs, StartSkip(j) \/ StartJob(j) \/ StartFails(j) \/ KillWorker(j) PROVE Submitted'
  <2>1. CASE StartSkip(j) \/ StartFails(j)
    BY <2>1, <1>f DEF StartSkip, StartFails, First
  <2>2. CASE KillWorker(j)
    <3>1. \A w \in Workers : Alive(w)' => Alive(w)
      BY <1>r, <2>2, NoWorkerType DEF KillWorker, TypeOK
    <3> QED
      BY <2>2, <3>1, <1>f DEF KillWorker
  <2>3. CASE StartJob(j)
    <3>1. /\ UNCHANGED <<todo, asked, gen, api, pc, seen, status>> /\ processes' = processes \cup {j}
          /\ listed' \subseteq listed /\ j \in listed /\ pc = "start"
      BY <2>3 DEF StartJob, First
    <3>2. \A w \in Workers : w # Mine(j) => worker'[w] = worker[w]
      BY <1>r, <2>3 DEF StartJob, TypeOK
    <3>3. \A w \in Workers : Alive(w)' => status'[w[2]] # "NONE"
      BY <3>1, <3>2 DEF Submitted
    <3> QED
      BY <3>1, <3>3 DEF Submitted
  <2> QED
    BY <1>7, <2>1, <2>2, <2>3
<1>8. CASE SchedulerError \/ RowGone \/ Shutdown \/ Crash \/ Restart
  <2>1. CASE Restart
    <3>1. studio = "down"
      BY <2>1 DEF Restart
    <3>2. pc = "poll"
      BY <3>1 DEF OrderlyInv, LoopStops
    <3>3. listed = {}
      BY <3>2 DEF Submitted
    <3> QED
      BY <2>1, <1>f, <3>3 DEF Restart
  <2>2. CASE Crash
    <3>1. \A w \in Workers : Alive(w)' => Alive(w)
      BY <1>r, <2>2 DEF Crash, TypeOK, WorkerState
    <3> QED
      BY <2>2, <3>1, <1>f DEF Crash
  <2> QED
    BY <1>8, <1>f, <2>1, <2>2 DEF SchedulerError, RowGone, Unwind, Shutdown
<1>9. ASSUME NEW w \in Workers, AnyWorkerStep(w) PROVE Submitted'
  <2>1. /\ UNCHANGED <<gen, loopVars, api, asked>>
        /\ Alive(w) /\ \A v \in Workers \ {w} : worker'[v] = worker[v]
    BY <1>9, <1>r, WorkerStepFacts
  <2> QED
    BY <1>f, <2>1
<1>10. CASE UNCHANGED vars
  BY <1>10, <1>f DEF vars
<1> QED
  BY <1>1, <1>2, <1>3, <1>4, <1>5, <1>6, <1>7, <1>8, <1>9, <1>10 DEF Next, SchedulerStep, AnyWorkerStep

LEMMA SeenStep ==
  OrderlyInv /\ Submitted /\ SeenIsCurrent /\ [Next]_vars => SeenIsCurrent'
<1> SUFFICES ASSUME OrderlyInv, Submitted, SeenIsCurrent, [Next]_vars, pc' = "reaped"
             PROVE  SeenIsCurrent'
  BY DEF SeenIsCurrent
<1>r. TypeOK /\ TypeOK' /\ ReapedIsDead
  BY TypeStep DEF OrderlyInv, ReservationInv
<1> USE DEF loopVars, boundVars, dbVars, schedOnly
<1>1. ASSUME NEW j \in Jobs, ReapRead(j) PROVE SeenIsCurrent'
  <2>1. /\ seen' = [job |-> j, status |-> status[j], reattaching |-> status[j] \in Live /\ Reattachable(j)]
        /\ UNCHANGED <<status, remoteId>> /\ j \in todo
    BY <1>1 DEF ReapRead
  <2>2. status[j] # "NONE"
    BY <2>1 DEF Submitted
  <2>3. /\ seen'.job = j /\ seen'.status = status[j]
        /\ seen'.reattaching = (status[j] \in Live /\ Reattachable(j))
    BY <2>1
  <2> QED
    BY <2>1, <2>2, <2>3 DEF SeenIsCurrent, Reattachable
<1>2. ASSUME pc = "reaped", seen' = seen PROVE SeenIsCurrent'
  <2>1. seen.job \in Jobs /\ ~Alive(Mine(seen.job)) /\ seen.status \in Statuses
    BY <1>2, <1>r DEF TypeOK, ReapedIsDead, Reads
  <2>2. scan = {}
    BY <1>2 DEF OrderlyInv, ScanIsIdle
  <2>3. seen.job \in remoteId' <=> seen.job \in remoteId
    BY <2>1, RowChanges
  <2>4. \/ status'[seen.job] = status[seen.job]
        \/ status[seen.job] = "NONE"
        \/ status[seen.job] = "PENDING" /\ status'[seen.job] = "CANCELED"
        \/ status[seen.job] \in {"FAILED", "CANCELED"} /\ status'[seen.job] = "DELETED"
    BY <1>2, <2>1, <2>2, RowChanges DEF RowStep
  <2>5. Reattachable(seen.job)' <=> Reattachable(seen.job)
    BY <1>2, <2>3 DEF Reattachable
  <2>6. seen.status = "RUNNING" => status'[seen.job] = "RUNNING"
    BY <1>2, <2>4 DEF SeenIsCurrent
  <2>7. seen.status \in Over => status'[seen.job] \in Over
    BY <1>2, <2>4 DEF SeenIsCurrent, Over, Terminal
  <2>8. seen.reattaching = (seen.status \in Live /\ Reattachable(seen.job)')
    BY <1>2, <2>5 DEF SeenIsCurrent
  <2>9. seen.status # "NONE"
    BY <1>2 DEF SeenIsCurrent
  <2>11. seen.status = "PENDING" => status'[seen.job] \in {"PENDING", "CANCELED", "DELETED"}
    BY <1>2, <2>4 DEF SeenIsCurrent
  <2>10. seen'.reattaching = (seen'.status \in Live /\ Reattachable(seen.job)')
    BY <1>2, <2>8
  <2> QED
    BY <1>2, <2>6, <2>7, <2>9, <2>10, <2>11 DEF SeenIsCurrent, Reattachable
<1>3. (pc = "reaped" /\ seen' = seen) \/ \E j \in Jobs : ReapRead(j)
  <2>1. ASSUME NEW j \in Jobs, SubmitTrainJob(j) \/ InterruptRead(j) \/ CancelPending(j)
                                \/ CancelJob(j) \/ DeleteJob(j) \/ StartFails(j)
        PROVE  pc = "reaped" /\ seen' = seen
    BY <2>1 DEF SubmitTrainJob, InterruptRead, CancelPending, CancelJob, DeleteJob, StartFails
  <2>2. ASSUME NEW j \in Jobs, RecoverOne(j) \/ ReapSkip(j) \/ StartSkip(j) \/ StartJob(j) \/ KillWorker(j)
        PROVE  pc = "reaped" /\ seen' = seen
    BY <2>2 DEF RecoverOne, ReapSkip, StartSkip, StartJob, KillWorker
  <2>3. ASSUME Poll \/ RecoverRead \/ RecoverDone \/ SweepAndList \/ StartDone \/ ReapDead \/ RowGone
                \/ ShutdownProcesses \/ SchedulerError \/ Shutdown \/ Crash \/ Restart \/ UNCHANGED vars
        PROVE  pc = "reaped" /\ seen' = seen
    BY <2>3 DEF Poll, RecoverRead, RecoverDone, SweepAndList, StartDone, ReapDead, RowGone, Unwind,
                ShutdownProcesses, SchedulerError, Shutdown, Crash, Restart, vars
  <2>4. ASSUME NEW w \in Workers, AnyWorkerStep(w) PROVE pc = "reaped" /\ seen' = seen
    BY <1>r, <2>4, WorkerStepFacts
  <2> QED
    BY <2>1, <2>2, <2>3, <2>4 DEF Next, SchedulerStep, AnyWorkerStep
<1> QED
  BY <1>1, <1>2, <1>3

LEMMA RetainInit == Init => RetainInv
<1> SUFFICES ASSUME Init PROVE RetainInv
  OBVIOUS
<1>1. Submitted /\ SeenIsCurrent /\ Retained
  BY SubmittedInit DEF Init, SeenIsCurrent, Retained
<1> QED
  BY <1>1, OrderlyInit DEF RetainInv

LEMMA RetainedStep ==
  ASSUME RetainInv, [Next]_vars, OrderlyInv' PROVE Retained'
<1> SUFFICES ASSUME NEW j \in Jobs, Mine(j)' \in asked'
             PROVE  \/ j \in cancelEvents'
                    \/ studio' = "up" /\ Settled(j)'
                    \/ studio' # "up" /\ (studio' = "down" \/ ~Alive(Mine(j))')
  BY DEF Retained
<1>r. /\ TypeOK /\ TypeOK' /\ ReservationInv /\ OnlyMine /\ LoopStops /\ ScanIsIdle /\ Submitted
      /\ SeenIsCurrent /\ Retained
  BY TypeStep DEF RetainInv, OrderlyInv, ReservationInv
<1>a. Mine(j) \in Workers
  BY <1>r DEF TypeOK, Workers
<1> USE DEF loopVars, boundVars, dbVars, schedOnly
<1> DEFINE Goal == \/ j \in cancelEvents'
                   \/ studio' = "up" /\ Settled(j)'
                   \/ studio' # "up" /\ (studio' = "down" \/ ~Alive(Mine(j))')
<1> SUFFICES Goal
  BY DEF Goal
<1> HIDE DEF Goal
(* Cancellations are asked for and workers started by two kinds of steps;   *)
(* events are dropped by three.  The other steps keep what is retained:     *)
<1>f. ASSUME UNCHANGED <<gen, asked>>, cancelEvents \subseteq cancelEvents',
             studio' \in {studio, "down"} \/ (studio = "up" /\ studio' = "stopping"), Alive(Mine(j))' => Alive(Mine(j)),
             j \in listed' => j \in listed \/ status[j] = "PENDING"
      PROVE  Goal
  <2>1. CASE j \in cancelEvents
    BY <1>f, <2>1 DEF Goal
  <2>2. CASE studio # "up" /\ (studio = "down" \/ ~Alive(Mine(j)))
    BY <1>f, <2>2 DEF Goal
  <2>3. CASE studio = "up" /\ Settled(j)
    <3>1. ~Alive(Mine(j)) /\ ~Alive(Mine(j))'
      BY <1>f, <2>3 DEF Settled
    <3>2. j \notin listed'
      BY <1>f, <2>3 DEF Settled, Over, Terminal
    <3>3. Reattachable(j)' <=> Reattachable(j)
      BY <3>1, RowChanges DEF Reattachable, RetainInv
    <3>4. RowStep(j)
      BY RowChanges DEF RetainInv
    <3>5. CASE status[j] \in Over
      <4>1. status'[j] \in Over
        BY <1>r, <3>1, <3>4, <3>5 DEF RowStep, Over, Terminal, ScanIsIdle
      <4> QED
        BY <1>f, <2>3, <3>1, <3>2, <4>1 DEF Settled, Goal
    <3>6. CASE status[j] = "RUNNING" /\ ~Reattachable(j)
      <4>1. status'[j] \in Over \/ status'[j] = "RUNNING"
        BY <1>r, <3>1, <3>4, <3>6 DEF RowStep, Over, Terminal, ScanIsIdle
      <4> QED
        BY <1>f, <2>3, <3>1, <3>2, <3>3, <3>6, <4>1 DEF Settled, Goal
    <3> QED
      BY <2>3, <3>5, <3>6 DEF Settled
  <2> QED
    BY <1>f, <1>r, <2>1, <2>2, <2>3 DEF Retained
<1>1. ASSUME NEW i \in Jobs, SubmitTrainJob(i) \/ InterruptRead(i) \/ CancelPending(i) \/ DeleteJob(i)
                              \/ StartFails(i) \/ RecoverOne(i)
      PROVE  Goal
  BY <1>1, <1>f DEF SubmitTrainJob, InterruptRead, CancelPending, DeleteJob, StartFails, RecoverOne
<1>2. ASSUME NEW i \in Jobs, CancelJob(i) PROVE Goal
  <2>1. CASE i = j
    BY <1>2, <2>1 DEF CancelJob, Goal
  <2>2. CASE i # j
    <3>1. /\ UNCHANGED <<gen, studio, worker, listed, status, remoteId>> /\ cancelEvents \subseteq cancelEvents'
          /\ Mine(j) \in asked
      BY <1>2, <2>2 DEF CancelJob
    <3>2. Settled(j) => Settled(j)'
      BY <3>1 DEF Settled, Reattachable
    <3> QED
      BY <1>r, <3>1, <3>2 DEF Retained, Goal
  <2> QED
    BY <2>1, <2>2
<1>3. ASSUME NEW i \in Jobs, ReapSkip(i) \/ ReapRead(i) \/ StartSkip(i) PROVE Goal
  BY <1>3, <1>f DEF ReapSkip, ReapRead, StartSkip
<1>4. ASSUME NEW i \in Jobs, StartJob(i) PROVE Goal
  <2>1. CASE i = j
    <3>1. /\ UNCHANGED <<gen, asked, cancelEvents>> /\ studio = "up" /\ j \in listed
      BY <1>4, <2>1 DEF StartJob, First
    <3> QED
      BY <1>r, <3>1 DEF Retained, Settled, Goal
  <2>2. CASE i # j
    <3>1. worker'[Mine(j)] = worker[Mine(j)]
      BY <1>4, <1>r, <1>a, <2>2 DEF StartJob, TypeOK
    <3> QED
      BY <1>4, <1>f, <3>1 DEF StartJob
  <2> QED
    BY <2>1, <2>2
<1>5. ASSUME NEW i \in Jobs, KillWorker(i) PROVE Goal
  <2>1. Alive(Mine(j))' => Alive(Mine(j))
    BY <1>5, <1>r, <1>a, NoWorkerType DEF KillWorker, TypeOK
  <2> QED
    BY <1>5, <1>f, <2>1 DEF KillWorker
<1>6. CASE Poll \/ RecoverRead \/ RecoverDone \/ StartDone
  BY <1>6, <1>f DEF Poll, RecoverRead, RecoverDone, StartDone
<1>7. CASE SchedulerError \/ RowGone \/ Shutdown
  BY <1>7, <1>f DEF SchedulerError, RowGone, Unwind, Shutdown
(* The reaper drops the event of a job that no worker will reattach to.     *)
<1>8. CASE ReapDead
  <2>1. /\ UNCHANGED <<gen, asked, worker, studio, remoteId, listed>> /\ pc = "reaped" /\ ~RowIsGone
        /\ \A i \in cancelEvents : i # seen.job \/ seen.reattaching => i \in cancelEvents'
    BY <1>8 DEF ReapDead
  <2>2. CASE j # seen.job \/ seen.reattaching
    <3>1. j \in cancelEvents => j \in cancelEvents'
      BY <2>1, <2>2
    <3>2. CASE j \in cancelEvents
      BY <3>1, <3>2 DEF Goal
    <3>3. CASE studio # "up" /\ (studio = "down" \/ ~Alive(Mine(j)))
      BY <2>1, <3>3 DEF Goal
    <3>4. CASE studio = "up" /\ Settled(j)
      <4>1. RowStep(j)
        BY RowChanges DEF RetainInv
      <4>2. status'[j] \in Over \/ (status[j] = "RUNNING" /\ status'[j] = "RUNNING" /\ ~Reattachable(j))
        BY <1>r, <2>1, <3>4, <4>1 DEF RowStep, Settled, Over, Terminal, ScanIsIdle
      <4> QED
        BY <2>1, <3>4, <4>2 DEF Settled, Goal, Reattachable
    <3> QED
      BY <1>r, <2>1, <3>2, <3>3, <3>4 DEF Retained
  <2>3. CASE j = seen.job /\ ~seen.reattaching
    <3>1. ~Alive(Mine(j)) /\ ~Alive(Mine(j))'
      BY <1>r, <2>1, <2>3 DEF ReservationInv, ReapedIsDead
    <3>2. listed' = {}
      BY <1>r, <2>1 DEF Submitted
    <3>3. seen.status \in {"PENDING", "RUNNING"} \cup Over
      BY <1>r, <2>1 DEF SeenIsCurrent, TypeOK, Reads, Statuses, Live, Over
    <3>4. CASE studio # "up"
      BY <2>1, <3>1, <3>4 DEF Goal
    <3>5. CASE studio = "up" /\ seen.status = "PENDING"
      <4>1. FailsUnclaimed
        BY <2>3, <3>5 DEF FailsUnclaimed
      <4>2. status'[j] = "FAILED"
        BY <1>8, <1>r, <2>1, <2>3, <4>1 DEF ReapDead, Write, RowIsGone, TypeOK
      <4> QED
        BY <2>1, <3>1, <3>2, <3>5, <4>2 DEF Settled, Goal, Over, Terminal
    <3>6. CASE studio = "up" /\ seen.status # "PENDING"
      <4>1. UNCHANGED status
        BY <1>8, <3>6 DEF ReapDead, FailsUnclaimed
      <4>2. status[j] \in Over \/ (status[j] = "RUNNING" /\ ~Reattachable(j))
        BY <1>r, <2>1, <2>3, <3>3, <3>6 DEF SeenIsCurrent, Live
      <4> QED
        BY <2>1, <3>1, <3>2, <3>6, <4>1, <4>2 DEF Settled, Goal, Reattachable
    <3> QED
      BY <3>4, <3>5, <3>6
  <2> QED
    BY <2>2, <2>3
(* The sweep drops the events of jobs that are over.                        *)
<1>9. CASE SweepAndList
  <2>1. /\ UNCHANGED <<gen, asked, worker, studio, remoteId, status>> /\ listed = {}
        /\ cancelEvents' = {i \in cancelEvents : i \in processes \/ status[i] \in Live}
        /\ listed' = {i \in Jobs : status[i] = "PENDING"}
    BY <1>9, <1>r DEF SweepAndList, Submitted
  <2>2. CASE j \in cancelEvents /\ j \notin cancelEvents'
    <3>1. j \notin processes /\ status[j] \notin Live
      BY <2>1, <2>2
    <3>0. studio # "down"
      BY <1>9, <1>r DEF SweepAndList, LoopStops
    <3>2. ~Alive(Mine(j))
      BY <1>r, <1>a, <3>0, <3>1 DEF ReservationInv, WorkersReserved
    <3>3. status[j] # "NONE"
      <4>1. Mine(j) \in asked /\ Mine(j)[2] = j
        BY <2>1
      <4> QED
        BY <1>r, <4>1 DEF Submitted
    <3>4. status[j] \in Over
      BY <1>r, <3>1, <3>3 DEF TypeOK, Statuses, Over
    <3> QED
      BY <2>1, <3>2, <3>4 DEF Settled, Goal, Over, Terminal
  <2>3. CASE j \in cancelEvents'
    BY <2>3 DEF Goal
  <2>4. CASE j \notin cancelEvents
    BY <1>r, <2>1, <2>4 DEF Retained, Settled, Goal, Reattachable, Over, Terminal
  <2> QED
    BY <2>2, <2>3, <2>4
<1>10. CASE ShutdownProcesses
  <2>1. /\ UNCHANGED <<gen, studio, worker>> /\ studio = "stopping"
        /\ \A i \in processes : ~Alive(Mine(i))
    BY <1>10, <1>r DEF ShutdownProcesses, LoopStops
  <2>2. ~Alive(Mine(j))
    BY <1>r, <2>1 DEF ReservationInv, WorkersReserved
  <2> QED
    BY <2>1, <2>2 DEF Goal
<1>11. ASSUME NEW w \in Workers, AnyWorkerStep(w) PROVE Goal
  <2>1. /\ Alive(w) /\ \A v \in Workers \ {w} : worker'[v] = worker[v]
        /\ UNCHANGED <<studio, gen, loopVars, cancelEvents, api, asked>>
    BY <1>r, <1>11, WorkerStepFacts
  <2>2. Alive(Mine(j))' => Alive(Mine(j))
    BY <1>a, <2>1
  <2> QED
    BY <1>f, <2>1, <2>2
<1>12. CASE Crash
  BY <1>12 DEF Crash, Goal
<1>13. CASE Restart
  <2>1. gen' = gen + 1 /\ asked' = asked /\ gen \in Nat
    BY <1>13, <1>r, ConstantsAssumption DEF Restart, TypeOK, Gens, ConstantsAssumption
  <2>2. <<gen + 1, j>> \in asked /\ <<gen + 1, j>>[1] = gen + 1
    BY <2>1
  <2>3. gen + 1 <= gen
    BY <1>r, <2>2 DEF Submitted
  <2> QED
    BY <2>1, <2>3
<1>14. CASE UNCHANGED vars
  BY <1>14, <1>f DEF vars
<1> QED
  BY <1>1, <1>2, <1>3, <1>4, <1>5, <1>6, <1>7, <1>8, <1>9, <1>10, <1>11, <1>12, <1>13, <1>14
     DEF Next, SchedulerStep, AnyWorkerStep

(* A cancellation that was signalled to the backend reaches every worker of *)
(* the job, through deaths, reaping, requeueing, sweeps and a shutdown that *)
(* has begun: _reap_processes drops the event only when no worker can       *)
(* reattach.  (An orphan beside the new backend may revive the job: TLC.)   *)
THEOREM CancelIsRetained == Spec /\ []NoOrphans => []CancelRetained
<1>1. RetainInv /\ [Next]_vars /\ NoOrphans' => RetainInv'
  BY OrderlyStep, SubmittedStep, SeenStep, RetainedStep DEF RetainInv
<1>2. RetainInv => CancelRetained
  <2> SUFFICES ASSUME RetainInv, NEW j \in Jobs, Mine(j) \in asked, Alive(Mine(j)), studio # "down"
               PROVE  j \in cancelEvents
    BY DEF CancelRetained
  <2> QED
    BY DEF RetainInv, Retained, Settled
<1> QED
  BY <1>1, <1>2, RetainInit, PTL DEF Spec

-----------------------------------------------------------------------------
(* A worker that has claimed its job keeps the row RUNNING until its        *)
(* outcome is written, and its dispatcher has then nothing left to write.   *)
ClaimedIsRunning ==
  \A w \in Workers :
    worker[w].pc \in {"prepare", "check", "train", "join", "write"} => status[w[2]] = "RUNNING"

DispatcherIsDrained ==
  \A w \in Workers : worker[w].queue => worker[w].pc \in {"train", "join"}

FinishInv == OrderlyInv /\ ClaimedIsRunning /\ DispatcherIsDrained

LEMMA FinishInit == Init => FinishInv
<1> SUFFICES ASSUME Init PROVE FinishInv
  OBVIOUS
<1>1. \A w \in Workers : worker[w] = NoWorker
  BY DEF Init
<1>2. ClaimedIsRunning
  BY <1>1, NoWorkerType DEF ClaimedIsRunning
<1>3. DispatcherIsDrained
  BY <1>1 DEF DispatcherIsDrained, NoWorker
<1> QED
  BY <1>2, <1>3, OrderlyInit DEF FinishInv

(* A step of a worker seen from its row: it claims a PENDING job, or writes *)
(* the outcome of the RUNNING one it holds.                                 *)
LEMMA WorkerWrites ==
  ASSUME FinishInv, NEW w \in Workers, AnyWorkerStep(w)
  PROVE  \/ status'[w[2]] = status[w[2]]
         \/ status[w[2]] = "PENDING" /\ status'[w[2]] = "RUNNING"
         \/ status[w[2]] = "RUNNING" /\ status'[w[2]] \in {"PENDING", "FAILED", "CANCELED", "COMPLETED"}
<1>r. TypeOK /\ w[2] \in Jobs /\ ClaimedIsRunning /\ DispatcherIsDrained
  BY DEF FinishInv, OrderlyInv, ReservationInv, Workers
<1>1. CASE Claim(w)
  BY <1>r, <1>1 DEF Claim, TypeOK
<1>2. CASE StartTraining(w)
  BY <1>r, <1>2 DEF StartTraining, ClaimedIsRunning, TypeOK
<1>5. CASE WriteOutcome(w)
  <2>1. FinalStatus(worker[w].out) \in {"PENDING", "FAILED", "CANCELED", "COMPLETED"}
    BY DEF FinalStatus
  <2>2. status[w[2]] = "RUNNING"
    BY <1>r, <1>5 DEF WriteOutcome, ClaimedIsRunning
  <2>3. status'[w[2]] = FinalStatus(worker[w].out)
    BY <1>r, <1>5, <2>2 DEF WriteOutcome, Write, TypeOK
  <2> QED
    BY <2>1, <2>2, <2>3
<1>3. CASE DrainOne(w)
  <2>1. status[w[2]] = "RUNNING"
    BY <1>r, <1>3 DEF DrainOne, ClaimedIsRunning, DispatcherIsDrained
  <2> QED
    BY <1>r, <1>3, <2>1 DEF DrainOne, Write, TypeOK
<1>4. CASE UNCHANGED status
  BY <1>4
<1> QED
  BY <1>1, <1>2, <1>3, <1>4, <1>5
     DEF AnyWorkerStep, WorkerStep, CheckCancel, TrainReturns, TrainRaises, JoinDispatcher,
         CreateModel, Report, PersistRemoteId, WorkerDies

LEMMA FinishStep ==
  ASSUME ~JoinCanTimeOut PROVE FinishInv /\ [Next]_vars /\ NoOrphans' => FinishInv'
<1> SUFFICES ASSUME FinishInv, [Next]_vars, NoOrphans' PROVE FinishInv'
  OBVIOUS
<1>r. OrderlyInv /\ OrderlyInv' /\ TypeOK /\ ClaimedIsRunning /\ DispatcherIsDrained
  BY OrderlyStep DEF FinishInv, OrderlyInv, ReservationInv
<1> DEFINE Claimed == {"prepare", "check", "train", "join", "write"}
<1>1. ASSUME NEW w \in Workers, AnyWorkerStep(w)
      PROVE  /\ worker'[w].pc \in Claimed => status'[w[2]] = "RUNNING"
             /\ worker'[w].queue => worker'[w].pc \in {"train", "join"}
  <2>1. w[2] \in Jobs /\ worker[w] \in WorkerState
    BY <1>r DEF TypeOK, Workers
  <2>a. /\ worker[w].pc \in Claimed => status[w[2]] = "RUNNING"
        /\ worker[w].queue => worker[w].pc \in {"train", "join"}
    BY <1>r DEF ClaimedIsRunning, DispatcherIsDrained
  <2>b. NoWorker.pc = "none" /\ ~NoWorker.queue
    BY DEF NoWorker
  <2> USE DEF TypeOK, WorkerState
  <2>2. CASE Claim(w)
    BY <1>r, <2>1, <2>2, <2>a, <2>b DEF Claim
  <2>3. CASE StartTraining(w)
    BY <1>r, <2>1, <2>3, <2>a DEF StartTraining, To
  <2>4. CASE CheckCancel(w) \/ TrainReturns(w)
    BY <1>r, <2>1, <2>4, <2>a DEF CheckCancel, TrainReturns, To
  <2>5. CASE TrainRaises(w)
    BY <1>r, <2>1, <2>5, <2>a DEF TrainRaises
  <2>6. CASE JoinDispatcher(w)
    BY <1>r, <2>1, <2>6, <2>a DEF JoinDispatcher, To
  <2>7. CASE WriteOutcome(w)
    <3>1. ~worker[w].queue /\ Exit(w) = NoWorker
      BY <2>7, <2>a DEF WriteOutcome, Exit
    <3> QED
      BY <1>r, <2>1, <2>7, <2>a, <2>b, <3>1 DEF WriteOutcome
  <2>8. CASE CreateModel(w)
    <3>1. ~worker[w].queue /\ Exit(w) = NoWorker
      BY <2>8, <2>a DEF CreateModel, Exit
    <3> QED
      BY <1>r, <2>1, <2>8, <2>a, <2>b, <3>1 DEF CreateModel
  <2>9. CASE Report(w) \/ PersistRemoteId(w)
    BY <1>r, <2>1, <2>9, <2>a DEF Report, PersistRemoteId
  <2>10. CASE DrainOne(w)
    <3>1. status[w[2]] = "RUNNING" /\ status'[w[2]] = "RUNNING" /\ worker[w].pc \in {"train", "join"}
      BY <1>r, <2>1, <2>10, <2>a DEF DrainOne, Write
    <3>2. worker'[w] = [worker[w] EXCEPT !.queue = FALSE]
      BY <1>r, <2>10, <3>1 DEF DrainOne
    <3> QED
      BY <2>1, <3>1, <3>2
  <2>11. CASE WorkerDies(w)
    BY <1>r, <2>1, <2>11, <2>b DEF WorkerDies
  <2> QED
    BY <1>1, <2>2, <2>3, <2>4, <2>5, <2>6, <2>7, <2>8, <2>9, <2>10, <2>11 DEF AnyWorkerStep, WorkerStep
<1>2. ASSUME NEW w \in Workers, ~AnyWorkerStep(w)
      PROVE  /\ worker'[w].pc \in Claimed => status'[w[2]] = "RUNNING"
             /\ worker'[w].queue => worker'[w].pc \in {"train", "join"}
  <2>1. \/ worker'[w] \in {worker[w], NoWorker}
        \/ worker'[w] = [NoWorker EXCEPT !.pc = "claim"]
        \/ Crash /\ worker'[w].pc = worker[w].pc /\ worker'[w].queue = worker[w].queue
    BY <1>r, <1>2, WorkerChanges
  <2>2. CASE worker'[w] = worker[w]
    <3>1. SUFFICES ASSUME worker[w].pc \in Claimed PROVE status'[w[2]] = "RUNNING"
      BY <1>r, <2>2 DEF DispatcherIsDrained
    <3>2. status[w[2]] = "RUNNING" /\ Alive(w)
      BY <1>r, <3>1 DEF ClaimedIsRunning
    <3>3. w[2] \in Jobs /\ w = Mine(w[2])
      BY <1>r, <3>2 DEF OrderlyInv, OnlyMine, Workers
    <3>4. RowStep(w[2])
      BY <1>r, <3>3, RowChanges
    <3> QED
      BY <1>r, <1>2, <3>2, <3>3, <3>4 DEF RowStep, OrderlyInv, ScanIsIdle, ReservationInv, ReapedIsDead
  <2>3. CASE worker'[w] = NoWorker
    BY <2>3 DEF NoWorker
  <2>4. CASE worker'[w] = [NoWorker EXCEPT !.pc = "claim"]
    BY <2>4 DEF NoWorker
  <2>5. CASE Crash /\ worker'[w].pc = worker[w].pc /\ worker'[w].queue = worker[w].queue
    <3>1. status' = status
      BY <2>5 DEF Crash, dbVars
    <3> QED
      BY <1>r, <2>5, <3>1 DEF ClaimedIsRunning, DispatcherIsDrained
  <2> QED
    BY <2>1, <2>2, <2>3, <2>4, <2>5
<1> QED
  BY <1>r, <1>1, <1>2 DEF FinishInv, ClaimedIsRunning, DispatcherIsDrained

(* A job that completed, failed or was cancelled is not revived by a late   *)
(* progress write, a claim or a requeue, when the dispatcher is always      *)
(* joined before the outcome is written and no worker outlives its backend. *)
THEOREM FinishedJobsStay ==
  ASSUME ~JoinCanTimeOut PROVE Spec /\ []NoOrphans => FinishedStaysFinished
<1>1. FinishInv /\ [Next]_vars =>
        \A j \in Jobs : status[j] \in Terminal => status'[j] \notin Live
  <2> SUFFICES ASSUME FinishInv, [Next]_vars, NEW j \in Jobs, status[j] \in Terminal
               PROVE  status'[j] \notin Live
    OBVIOUS
  <2>1. RowStep(j)
    BY RowChanges DEF FinishInv
  <2>2. Mine(j) \in Workers /\ Mine(j)[2] = j
    BY DEF FinishInv, OrderlyInv, ReservationInv, TypeOK, Workers
  <2>3. AnyWorkerStep(Mine(j)) => status'[j] = status[j]
    BY <2>2, WorkerWrites DEF Terminal
  <2> QED
    BY <2>1, <2>3 DEF RowStep, Terminal, Live, FinishInv, OrderlyInv, ScanIsIdle
<1>2. FinishInv /\ [Next]_vars /\ NoOrphans' => FinishInv'
  BY FinishStep
<1> QED
  BY <1>1, <1>2, FinishInit, PTL DEF Spec, FinishedStaysFinished

(* The life of a job's row.  A cancellation of a waiting job that comes     *)
(* between the reaper's read and its write is the one verdict that is       *)
(* rewritten (CANCELED to FAILED).                                          *)
JobLife ==
  {<<"NONE", "PENDING">>, <<"PENDING", "RUNNING">>, <<"PENDING", "CANCELED">>, <<"PENDING", "FAILED">>,
   <<"RUNNING", "PENDING">>, <<"RUNNING", "COMPLETED">>, <<"RUNNING", "FAILED">>,
   <<"RUNNING", "CANCELED">>, <<"CANCELED", "FAILED">>, <<"FAILED", "DELETED">>,
   <<"CANCELED", "DELETED">>}

RowFollowsLife ==
  [][\A j \in Jobs : status'[j] # status[j] => <<status[j], status'[j]>> \in JobLife]_vars

(* Whatever handlers, scheduler, recovery and worker write, each without a  *)
(* lock on the row, a job only moves along JobLife: nothing completes that  *)
(* was not running, nothing runs that was not waiting, no completed job     *)
(* changes, and only a failed or cancelled one is deleted.                  *)
THEOREM RowsFollowLife == ASSUME ~JoinCanTimeOut PROVE Spec /\ []NoOrphans => RowFollowsLife
<1> DEFINE Inv == FinishInv /\ Submitted /\ SeenIsCurrent
           Follows == \A j \in Jobs : status'[j] # status[j] => <<status[j], status'[j]>> \in JobLife
<1>1. Inv /\ [Next]_vars => Follows
  <2> SUFFICES ASSUME Inv, [Next]_vars, NEW j \in Jobs, status'[j] # status[j]
               PROVE  <<status[j], status'[j]>> \in JobLife
    OBVIOUS
  <2>1. RowStep(j)
    BY RowChanges DEF FinishInv
  <2>2. Mine(j) \in Workers /\ Mine(j)[2] = j
    BY DEF FinishInv, OrderlyInv, ReservationInv, TypeOK, Workers
  <2>3. CASE AnyWorkerStep(Mine(j))
    BY <2>2, <2>3, WorkerWrites DEF JobLife
  <2>4. CASE pc = "recovering" /\ j \in scan /\ status'[j] = IF Reattachable(j) THEN "PENDING" ELSE "FAILED"
    BY <2>4 DEF FinishInv, OrderlyInv, ScanIsIdle, JobLife
  <2>5. CASE /\ pc = "reaped" /\ j = seen.job /\ FailsUnclaimed
             /\ status[j] # "DELETED" /\ status'[j] = "FAILED"
    BY <2>5 DEF SeenIsCurrent, FailsUnclaimed, JobLife
  <2> QED
    BY <2>1, <2>3, <2>4, <2>5 DEF RowStep, JobLife
<1>2. Init => Inv
  BY FinishInit, SubmittedInit DEF Init, SeenIsCurrent
<1>3. Inv /\ [Next]_vars /\ NoOrphans' => Inv'
  BY FinishStep, SubmittedStep, SeenStep DEF FinishInv
<1> QED
  BY <1>1, <1>2, <1>3, PTL DEF Spec, RowFollowsLife

-----------------------------------------------------------------------------
(* Rows are created in order; an older job of a listed one's target that is *)
(* waiting is listed too, or the target is taken.                           *)
CreatedInOrder ==
  \A j \in Jobs : \A i \in 1..(j - 1) : status[j] # "NONE" => status[i] # "NONE"

OlderGoFirst ==
  studio = "up" =>
    \A j \in listed : \A i \in 1..(j - 1) :
      Target[i] = Target[j] => i \in listed \/ Busy(i) \/ status[i] # "PENDING"

OrderInv == OrderlyInv /\ Submitted /\ CreatedInOrder /\ OlderGoFirst

LEMMA OrderInit == Init => OrderInv
<1> SUFFICES ASSUME Init PROVE OrderInv
  OBVIOUS
<1>1. Submitted
  BY SubmittedInit
<1>2. CreatedInOrder /\ OlderGoFirst
  BY DEF Init, CreatedInOrder, OlderGoFirst
<1> QED
  BY <1>1, <1>2, OrderlyInit DEF OrderInv

(* What comes before a job is an older job.                                 *)
LEMMA OlderIsJob == \A j \in Jobs : \A i \in 1..(j - 1) : i \in Jobs /\ i < j /\ ~(j <= i)
BY ConstantsAssumption DEF ConstantsAssumption, Jobs

LEMMA OrderStep == OrderInv /\ [Next]_vars /\ NoOrphans' => OrderInv'
<1> SUFFICES ASSUME OrderInv, [Next]_vars, NoOrphans' PROVE OrderInv'
  OBVIOUS
<1>r. /\ OrderlyInv /\ OrderlyInv' /\ Submitted /\ Submitted' /\ TypeOK /\ TypeOK'
      /\ CreatedInOrder /\ OlderGoFirst
  BY OrderlyStep, SubmittedStep DEF OrderInv, OrderlyInv, ReservationInv
<1>a. \A j \in Jobs : Alive(Mine(j)) => (studio # "down" => j \in processes) /\ status[j] # "NONE"
  <2> SUFFICES ASSUME NEW j \in Jobs, Alive(Mine(j))
               PROVE  (studio # "down" => j \in processes) /\ status[j] # "NONE"
    OBVIOUS
  <2>1. Mine(j) \in Workers /\ Mine(j)[2] = j
    BY <1>r DEF TypeOK, Workers
  <2>2. studio # "down" => j \in processes
    BY <1>r DEF OrderlyInv, ReservationInv, WorkersReserved
  <2> QED
    BY <1>r, <2>1, <2>2 DEF Submitted
<1>s. \A j \in Jobs : status[j] # "NONE" => status'[j] # "NONE"
  BY <1>r, RowChanges DEF RowStep
<1>n. \A j \in Jobs : status[j] = "NONE" /\ status'[j] # "NONE" =>
        \A i \in 1..(j - 1) : status[i] # "NONE"
  <2> SUFFICES ASSUME NEW j \in Jobs, status[j] = "NONE", status'[j] # "NONE"
               PROVE  \A i \in 1..(j - 1) : status[i] # "NONE"
    OBVIOUS
  <2> QED
    BY <1>r, <1>a, RowChanges DEF RowStep, OrderlyInv, ScanIsIdle, Submitted
<1>1. CreatedInOrder'
  BY <1>r, <1>s, <1>n, OlderIsJob DEF CreatedInOrder
(* While jobs are listed, an older job becomes PENDING only by its own      *)
(* worker, which holds the target.                                          *)
<1>p. ASSUME NEW j \in listed, NEW i \in 1..(j - 1), status[i] # "PENDING", status'[i] = "PENDING"
      PROVE  i \in processes
  <2>1. j \in Jobs /\ i \in Jobs /\ status[j] # "NONE" /\ pc = "start"
    BY <1>r, OlderIsJob DEF TypeOK, Submitted
  <2>2. status[i] # "NONE" /\ studio # "down"
    BY <1>r, <2>1 DEF CreatedInOrder, OrderlyInv, LoopStops
  <2> QED
    BY <1>a, <1>p, <1>r, <2>1, <2>2, RowChanges DEF RowStep
<1>f. ASSUME listed' \subseteq listed, processes \subseteq processes', studio' = "up" => studio = "up",
             \A i \in listed \ listed' : studio' = "up" => \E k \in processes' : Overlaps(Target[i], Target[k])
      PROVE  OlderGoFirst'
  <2> SUFFICES ASSUME studio' = "up", NEW j \in listed', NEW i \in 1..(j - 1), Target[i] = Target[j],
                      i \notin listed', status'[i] = "PENDING"
               PROVE  \E k \in processes' : Overlaps(Target[i], Target[k])
    BY DEF OlderGoFirst, Busy
  <2>1. CASE i \in listed
    BY <1>f, <2>1
  <2>2. CASE i \notin listed /\ status[i] = "PENDING"
    BY <1>f, <1>r, <2>2 DEF OlderGoFirst, Busy
  <2>3. CASE status[i] # "PENDING"
    BY <1>f, <1>p, <2>3 DEF Overlaps
  <2> QED
    BY <2>1, <2>2, <2>3
<1> USE DEF loopVars, boundVars, dbVars, schedOnly
<1>2. OlderGoFirst'
  <2>1. ASSUME NEW j \in Jobs, SubmitTrainJob(j) \/ InterruptRead(j) \/ CancelPending(j) \/ CancelJob(j)
                                \/ DeleteJob(j) \/ RecoverOne(j) \/ ReapSkip(j) \/ ReapRead(j) \/ KillWorker(j)
        PROVE  OlderGoFirst'
    BY <2>1, <1>f DEF SubmitTrainJob, InterruptRead, CancelPending, CancelJob, DeleteJob, RecoverOne,
                      ReapSkip, ReapRead, KillWorker
  <2>2. ASSUME NEW j \in Jobs, StartSkip(j) PROVE OlderGoFirst'
    BY <2>2, <1>f DEF StartSkip, Busy
  <2>3. ASSUME NEW j \in Jobs, StartJob(j) PROVE OlderGoFirst'
    <3>1. /\ processes' = processes \cup {j} /\ listed' = listed \ {j} /\ studio' = studio
          /\ Overlaps(Target[j], Target[j])
      BY <2>3 DEF StartJob, Overlaps
    <3> QED
      BY <1>f, <3>1
  <2>4. ASSUME listed' = {} PROVE OlderGoFirst'
    BY <2>4 DEF OlderGoFirst
  <2>5. ASSUME NEW j \in Jobs, StartFails(j) PROVE OlderGoFirst'
    BY <2>4, <2>5 DEF StartFails
  <2>6. CASE Poll \/ RecoverRead \/ RecoverDone \/ StartDone
    BY <2>6, <1>f DEF Poll, RecoverRead, RecoverDone, StartDone
  <2>7. CASE ReapDead \/ ShutdownProcesses
    <3>1. listed' = {}
      BY <2>7, <1>r DEF ReapDead, ShutdownProcesses, Submitted
    <3> QED
      BY <2>4, <3>1
  <2>8. CASE SchedulerError \/ RowGone \/ Crash
    BY <2>4, <2>8 DEF SchedulerError, RowGone, Unwind, Crash
  <2>9. CASE SweepAndList
    <3>1. listed' = {i \in Jobs : status[i] = "PENDING"} /\ status' = status
      BY <2>9 DEF SweepAndList
    <3> QED
      BY <3>1, OlderIsJob DEF OlderGoFirst
  <2>10. CASE Shutdown
    BY <2>10, <1>f DEF Shutdown
  <2>11. CASE Restart
    <3>1. pc' = "poll"
      BY <2>11 DEF Restart
    <3>2. listed' = {}
      BY <1>r, <3>1 DEF Submitted
    <3> QED
      BY <2>4, <3>2
  <2>12. ASSUME NEW w \in Workers, AnyWorkerStep(w) PROVE OlderGoFirst'
    <3>1. UNCHANGED <<studio, listed, processes>>
      BY <1>r, <2>12, WorkerStepFacts
    <3> QED
      BY <1>f, <3>1
  <2>13. CASE UNCHANGED vars
    BY <2>13, <1>f DEF vars
  <2> QED
    BY <2>1, <2>2, <2>3, <2>5, <2>6, <2>7, <2>8, <2>9, <2>10, <2>11, <2>12, <2>13
       DEF Next, SchedulerStep, AnyWorkerStep
<1> QED
  BY <1>r, <1>1, <1>2 DEF OrderInv

(* Jobs of one target are started oldest first, although _schedule_jobs     *)
(* works on a list it read before workers suspended, handlers submitted and *)
(* cancelled, and starts failed.                                            *)
THEOREM OldestStartsFirst == Spec /\ []NoOrphans => StartedInOrder
<1> DEFINE InOrder == \A j \in Jobs :
      ~Alive(Mine(j)) /\ Alive(Mine(j))' /\ gen' = gen =>
        \A i \in 1..(j - 1) : Target[i] = Target[j] => status[i] # "PENDING"
<1>1. OrderInv /\ [Next]_vars => InOrder
  <2> SUFFICES ASSUME OrderInv, [Next]_vars, NEW j \in Jobs, ~Alive(Mine(j)), Alive(Mine(j))', gen' = gen,
                      NEW i \in 1..(j - 1), Target[i] = Target[j]
               PROVE  status[i] # "PENDING"
    OBVIOUS
  <2>1. TypeOK /\ Mine(j) \in Workers
    BY DEF OrderInv, OrderlyInv, ReservationInv, TypeOK, Workers
  <2>2. ~AnyWorkerStep(Mine(j))
    BY <2>1, WorkerStepFacts
  <2>3. PICK k \in Jobs : Mine(j) = Mine(k) /\ StartJob(k)
    BY <2>1, <2>2, WorkerChanges, NoWorkerType
  <2>4. j = k
    BY <2>3
  <2>5. First(j) /\ ~Busy(j) /\ studio = "up"
    BY <2>3, <2>4 DEF StartJob
  <2>6. j \in listed /\ i \notin listed
    BY <2>5, OlderIsJob DEF First
  <2>7. ~Busy(i)
    BY <2>5 DEF Busy
  <2> QED
    BY <2>5, <2>6, <2>7 DEF OrderInv, OlderGoFirst
<1>2. OrderInv /\ [Next]_vars /\ NoOrphans' => OrderInv'
  BY OrderStep
<1> QED
  BY <1>1, <1>2, OrderInit, PTL DEF Spec, StartedInOrder
=============================================================================
