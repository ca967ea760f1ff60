------------------------ MODULE RemoteTrainingProofs ------------------------
(* Theorems about RemoteTraining for any ids, snapshot length and retry     *)
(* limit, and any number of lost calls, kills and restarts.                 *)
EXTENDS RemoteTraining, FiniteSetTheorems, TLAPS

USE DEF None

(* Where the worker knows the job it speaks of.                             *)
Knows == {"persist", "offset", "put", "reply", "reattach", "wait", "download", "delete"}

KnowsJob == pc \in Knows => rjob \in Jobs

States == {"completed", "failed", "canceled", "absent", "awaiting_dataset", "queued", "running", "gone"}

TrainerType ==
  /\ remote \in [Jobs -> States]
  /\ artifact \subseteq Jobs /\ flagged \subseteq Jobs
  /\ service \in {"up", "stopping", "down"}

UploadType == staged \in [Jobs -> 0..Chunks] /\ put \in [Jobs -> {"none", "extract", "ok", "error"}]

WorkerType ==
  /\ rjob \in Jobs \cup {None} /\ attempt \in 0..RetryLimit
  /\ pc \in {"idle", "prepare", "submit", "persist", "offset", "put", "reply", "reattach", "wait",
             "download", "delete", "trained", "completed", "failed", "canceled", "suspended", "register"}
  /\ KnowsJob

StudioType ==
  /\ status \in {"COMPLETED", "FAILED", "CANCELED", "PENDING", "RUNNING"}
  /\ saved \in Jobs \cup {None}
  /\ studio \in {"up", "stopping"} /\ model \in {"none", "files", "stray", "row"}

FlagType == cancel \in BOOLEAN /\ late \in BOOLEAN /\ asked \in BOOLEAN /\ halted \in BOOLEAN

TypeInv == TrainerType /\ UploadType /\ WorkerType /\ StudioType /\ FlagType

LEMMA TypeInvImplies == TypeInv => TypeOK
<1>1. Trainer!Ended \cup {"absent", "awaiting_dataset", "queued", "running", "gone"} = States
  BY DEF Trainer!Ended, States
<1>2. Terminal \cup {"PENDING", "RUNNING"} = {"COMPLETED", "FAILED", "CANCELED", "PENDING", "RUNNING"}
  BY DEF Terminal
<1> QED
  BY <1>1, <1>2 DEF TypeInv, TypeOK, TrainerType, UploadType, WorkerType, StudioType, FlagType

LEMMA TypeInit == Init => TypeInv
<1> SUFFICES ASSUME Init PROVE TypeInv
  OBVIOUS
<1> USE ConstantsAssumption DEF ConstantsAssumption
<1>1. FlagType
  BY Zenon DEF Init, FlagType
<1>2. TrainerType /\ UploadType
  BY DEF Init, Trainer!Init, TrainerType, UploadType, States
<1>3. WorkerType /\ StudioType
  BY DEF Init, WorkerType, StudioType, KnowsJob, Knows
<1> QED
  BY <1>1, <1>2, <1>3 DEF TypeInv

(***************************************************************************)
(* The trainer half of a step of the composition is a step of the contract. *)
(***************************************************************************)
LEMMA ContractStep ==
  ASSUME TypeInv, [Next]_vars
  PROVE  Trainer!Next \/ UNCHANGED trainer
<1>1. CASE \/ Prepare \/ SubmitUnanswered \/ PersistRemoteJobId \/ GetUploadOffset \/ PutDataset
           \/ PutReply \/ Reattach \/ Look \/ Download \/ Trained \/ WriteVerdict
           \/ LateProgress \/ CreateModel
  BY <1>1 DEF Prepare, SubmitUnanswered, PersistRemoteJobId, GetUploadOffset, PutDataset, PutReply,
     Reattach, Look, Download, Trained, WriteVerdict, LateProgress, CreateModel
<1>2. ASSUME NEW j \in Jobs, SubmitJob(j) PROVE Trainer!Next
  BY <1>2 DEF SubmitJob, Trainer!Next
<1>3. CASE DeleteRemoteJob \/ HandleStopRequest
  <2>1. rjob \in Jobs
    BY <1>3 DEF TypeInv, WorkerType, KnowsJob, Knows, DeleteRemoteJob, HandleStopRequest
  <2> QED BY <1>3, <2>1 DEF DeleteRemoteJob, HandleStopRequest, Trainer!Next
<1>4. CASE StartWorker \/ Recover \/ RestartStudio \/ UserCancels \/ Killed \/ ShutdownStudio
  BY <1>4 DEF StartWorker, Recover, RestartStudio, UserCancels, Killed, ShutdownStudio
<1>5. ASSUME NEW j \in Jobs, Extract(j) PROVE Trainer!Next \/ UNCHANGED trainer
  BY <1>5 DEF Extract, Trainer!Next
<1>6. ASSUME NEW j \in Jobs, TrainerMoves(j) PROVE Trainer!Next
  BY <1>6 DEF TrainerMoves, Trainer!Next
<1>7. CASE TrainerStops \/ TrainerFlags \/ TrainerDown \/ TrainerStarts
  BY <1>7 DEF TrainerStops, TrainerFlags, TrainerDown, TrainerStarts, Trainer!Next
<1>8. CASE UNCHANGED vars
  BY <1>8 DEF vars
<1> QED
  BY <1>1, <1>2, <1>3, <1>4, <1>5, <1>6, <1>7, <1>8 DEF Next, WorkerStep, SchedulerStep

(* A step of the contract keeps the shape of the trainer, and brings no job *)
(* into being but by Submit.                                                *)
LEMMA ContractTyped ==
  ASSUME TrainerType, Trainer!Next \/ UNCHANGED trainer
  PROVE  TrainerType'
<1>1. States = {"completed", "failed", "canceled", "absent", "awaiting_dataset", "queued", "running", "gone"}
  BY DEF States
<1>2. ASSUME NEW j \in Jobs, \/ Trainer!Submit(j) \/ Trainer!Receive(j) \/ Trainer!Begin(j)
                             \/ Trainer!RequestCancel(j) \/ Trainer!Complete(j) \/ Trainer!Fail(j)
                             \/ Trainer!Cancel(j) \/ Trainer!Withdraw(j) \/ Trainer!Remove(j)
      PROVE TrainerType'
  BY <1>1, <1>2 DEF TrainerType, Trainer!Submit, Trainer!Receive, Trainer!Begin, Trainer!RequestCancel,
     Trainer!Complete, Trainer!Fail, Trainer!Cancel, Trainer!Withdraw, Trainer!Remove, Trainer!Becomes
<1>3. CASE Trainer!Stop \/ Trainer!FlagRunning \/ Trainer!Down \/ Trainer!Start
  BY <1>1, <1>3 DEF TrainerType, Trainer!Stop, Trainer!FlagRunning, Trainer!Down, Trainer!Start
<1>4. CASE UNCHANGED trainer
  BY <1>4 DEF trainer, TrainerType
<1> QED
  BY <1>2, <1>3, <1>4 DEF Trainer!Next

(* The uploads and the worker of a step.                                    *)
LEMMA RetryTyped ==
  ASSUME WorkerType, pc \in Knows, Retry
  PROVE  WorkerType'
BY ConstantsAssumption DEF ConstantsAssumption, WorkerType, Retry, Goto, KnowsJob, Knows

LEMMA TypeStep == TypeInv /\ [Next]_vars => TypeInv'
<1> SUFFICES ASSUME TypeInv, [Next]_vars PROVE TypeInv'
  OBVIOUS
<1> USE ConstantsAssumption DEF ConstantsAssumption
<1>a. TrainerType'
  BY ContractStep, ContractTyped DEF TypeInv
<1>b. TRUE \in BOOLEAN /\ FALSE \in BOOLEAN
  BY Zenon
<1>c. WorkerType /\ UploadType /\ StudioType /\ FlagType
  BY DEF TypeInv
<1>d. ASSUME UNCHANGED <<row, control, model, late, history>> PROVE StudioType' /\ FlagType'
  BY <1>c, <1>d DEF StudioType, FlagType, row, control, history
<1>e. ASSUME UNCHANGED upload PROVE UploadType'
  BY <1>c, <1>e DEF UploadType, upload
<1>f. ASSUME UNCHANGED worker PROVE WorkerType'
  BY <1>c, <1>f DEF WorkerType, worker, KnowsJob
<1>g. Knows = {"persist", "offset", "put", "reply", "reattach", "wait", "download", "delete"}
  BY DEF Knows
<1> DEFINE Good == UploadType' /\ WorkerType' /\ StudioType' /\ FlagType'
<1> SUFFICES Good
  BY <1>a DEF TypeInv
<1>1. CASE Prepare \/ SubmitUnanswered \/ Reattach \/ Look \/ Trained
  <2>1. WorkerType'
    BY <1>1, <1>c, <1>g DEF Prepare, SubmitUnanswered, Reattach, Look, Trained, WorkerType, KnowsJob, Goto,
       StudioType
  <2> QED BY <1>1, <2>1, <1>d, <1>e DEF Prepare, SubmitUnanswered, Reattach, Look, Trained, Studio
<1>2. ASSUME NEW j \in Jobs, SubmitJob(j) PROVE Good
  BY <1>2, <1>c, <1>d, <1>e, <1>g DEF SubmitJob, WorkerType, KnowsJob, Goto, Studio
<1>3. CASE PersistRemoteJobId
  <2>1. WorkerType'
    BY <1>3, <1>c, <1>g DEF PersistRemoteJobId, WorkerType, KnowsJob, Goto
  <2>2. FlagType'
    BY <1>3, <1>c DEF PersistRemoteJobId, FlagType, control, history
  <2>3. StudioType'
    BY <1>3, <1>c, <1>g DEF PersistRemoteJobId, StudioType, WorkerType, KnowsJob, control
  <2> QED BY <1>3, <2>1, <2>2, <2>3, <1>e DEF PersistRemoteJobId
<1>4. CASE GetUploadOffset
  BY <1>4, <1>c, <1>d, <1>e, <1>g DEF GetUploadOffset, WorkerType, KnowsJob, Goto, Studio
<1>5. CASE PutDataset
  <2>1. pc \in Knows /\ rjob \in Jobs /\ Chunks \in 0..Chunks
    BY <1>5, <1>c, <1>g DEF PutDataset, WorkerType, KnowsJob
  <2>2. WorkerType'
    <3>1. CASE Retry
      BY <3>1, <2>1, <1>c, RetryTyped
    <3>2. CASE Goto("reply")
      BY <3>2, <2>1, <1>c, <1>g DEF Goto, WorkerType, KnowsJob
    <3> QED BY <1>5, <3>1, <3>2 DEF PutDataset
  <2>3. staged' \in [Jobs -> 0..Chunks]
    <3>1. CASE UNCHANGED staged
      BY <3>1, <1>c DEF UploadType
    <3>2. ASSUME NEW n \in 0..Chunks, staged' = [staged EXCEPT ![rjob] = n]
          PROVE  staged' \in [Jobs -> 0..Chunks]
      BY <3>2, <1>c DEF UploadType
    <3>3. staged[rjob] \in 0..Chunks
      BY <2>1, <1>c DEF UploadType
    <3>4. UNCHANGED staged \/ \E n \in 0..Chunks : staged' = [staged EXCEPT ![rjob] = n]
      BY <1>5, <2>1, <3>3 DEF PutDataset, upload
    <3> QED BY <3>1, <3>2, <3>4
  <2>4. put' \in [Jobs -> {"none", "extract", "ok", "error"}]
    BY <1>5, <1>c DEF PutDataset, UploadType, upload
  <2> QED BY <1>5, <2>2, <2>3, <2>4, <1>d DEF PutDataset, UploadType, Studio
<1>6. CASE PutReply
  <2>1. pc \in Knows
    BY <1>6, <1>g DEF PutReply
  <2>2. WorkerType'
    <3>1. CASE Retry
      BY <3>1, <2>1, <1>c, RetryTyped
    <3>2. CASE Goto("wait")
      BY <3>2, <2>1, <1>c, <1>g DEF Goto, WorkerType, KnowsJob
    <3> QED BY <1>6, <3>1, <3>2 DEF PutReply
  <2>3. UploadType'
    BY <1>6, <1>c DEF PutReply, UploadType
  <2> QED BY <1>6, <2>2, <2>3, <1>d DEF PutReply, Studio
<1>7. CASE Download
  <2>1. WorkerType'
    BY <1>7, <1>c, <1>g DEF Download, WorkerType, KnowsJob, Goto
  <2>2. FlagType'
    BY <1>7, <1>c DEF Download, FlagType, control, history
  <2>3. StudioType'
    BY <1>7, <1>c DEF Download, StudioType, row, control
  <2> QED BY <1>7, <2>1, <2>2, <2>3, <1>e DEF Download
<1>8. CASE DeleteRemoteJob
  BY <1>8, <1>c, <1>d, <1>e, <1>g DEF DeleteRemoteJob, WorkerType, KnowsJob, Goto, Studio
<1>9. CASE HandleStopRequest
  <2>1. WorkerType'
    BY <1>9, <1>c, <1>g DEF HandleStopRequest, WorkerType, KnowsJob, Goto
  <2>2. pc \in Knows /\ rjob \in Jobs
    BY <1>9, <1>c, <1>g DEF HandleStopRequest, WorkerType, KnowsJob
  <2>3. staged[rjob] \in 0..Chunks
    BY <2>2, <1>c DEF UploadType
  <2>4. UNCHANGED staged \/ \E n \in 0..Chunks : staged' = [staged EXCEPT ![rjob] = n]
    BY <1>9, <2>3 DEF HandleStopRequest
  <2>5. UploadType'
    BY <1>9, <2>4, <1>c DEF HandleStopRequest, UploadType
  <2> QED BY <1>9, <2>1, <2>5, <1>d DEF HandleStopRequest, Studio
<1>10. CASE WriteVerdict \/ LateProgress \/ CreateModel
  <2>1. WorkerType'
    BY <1>10, <1>c, <1>f, <1>g DEF WriteVerdict, LateProgress, CreateModel, WorkerType, KnowsJob, Goto
  <2>2. FlagType'
    BY <1>10, <1>b, <1>c DEF WriteVerdict, LateProgress, CreateModel, FlagType, control, history
  <2>3. StudioType'
    BY <1>10, <1>c DEF WriteVerdict, LateProgress, CreateModel, StudioType, row, control
  <2> QED BY <1>10, <2>1, <2>2, <2>3, <1>e DEF WriteVerdict, LateProgress, CreateModel
<1>11. CASE StartWorker \/ Recover
  <2>1. WorkerType'
    BY <1>11, <1>c, <1>f, <1>g DEF StartWorker, Recover, WorkerType, KnowsJob
  <2>2. FlagType'
    BY <1>11, <1>c DEF StartWorker, Recover, FlagType, control, history
  <2>3. StudioType'
    BY <1>11, <1>c DEF StartWorker, Recover, StudioType, control
  <2> QED BY <1>11, <2>1, <2>2, <2>3, <1>e DEF StartWorker, Recover
<1>12. CASE UserCancels \/ ShutdownStudio \/ RestartStudio
  <2>1. FlagType'
    BY <1>12, <1>b, <1>c DEF UserCancels, ShutdownStudio, RestartStudio, FlagType, history
  <2>2. StudioType'
    BY <1>12, <1>c DEF UserCancels, ShutdownStudio, RestartStudio, StudioType, row
  <2> QED BY <1>12, <2>1, <2>2, <1>e, <1>f DEF UserCancels, ShutdownStudio, RestartStudio
<1>13. CASE Killed
  <2>1. WorkerType'
    BY <1>13, <1>c, <1>g DEF Killed, WorkerType, KnowsJob
  <2>2. FlagType'
    BY <1>13, <1>b, <1>c DEF Killed, FlagType, control, history
  <2>3. StudioType'
    BY <1>13, <1>c DEF Killed, StudioType, row, control
  <2> QED BY <1>13, <2>1, <2>2, <2>3, <1>e DEF Killed
<1>14. ASSUME NEW j \in Jobs, Extract(j) PROVE Good
  <2>1. UploadType'
    BY <1>14, <1>c DEF Extract, UploadType
  <2> QED BY <1>14, <2>1, <1>d, <1>f DEF Extract, Studio
<1>15. ASSUME NEW j \in Jobs, TrainerMoves(j) PROVE Good
  BY <1>15, <1>d, <1>e, <1>f DEF TrainerMoves, Studio
<1>16. CASE TrainerStops
  <2>1. FlagType'
    BY <1>16, <1>b, <1>c DEF TrainerStops, FlagType, control
  <2>2. StudioType'
    BY <1>16, <1>c DEF TrainerStops, StudioType, row, control
  <2> QED BY <1>16, <2>1, <2>2, <1>e, <1>f DEF TrainerStops
<1>17. CASE TrainerFlags \/ TrainerStarts
  BY <1>17, <1>d, <1>e, <1>f DEF TrainerFlags, TrainerStarts, Studio
<1>18. CASE TrainerDown
  <2>1. UploadType'
    BY <1>18, <1>c DEF TrainerDown, UploadType
  <2> QED BY <1>18, <2>1, <1>d, <1>f DEF TrainerDown, Studio
<1>19. CASE UNCHANGED vars
  BY <1>19, <1>d, <1>e, <1>f DEF vars
<1> QED
  BY <1>1, <1>2, <1>3, <1>4, <1>5, <1>6, <1>7, <1>8, <1>9, <1>10, <1>11, <1>12, <1>13, <1>14,
     <1>15, <1>16, <1>17, <1>18, <1>19 DEF Next, WorkerStep, SchedulerStep

(* Both sides of the connection keep their shape.                           *)
THEOREM TypeCorrect == Spec => []TypeOK
BY TypeInit, TypeStep, TypeInvImplies, PTL DEF Spec

(* The Studio's client, with every lost call and kill, drives the trainer   *)
(* only through the contract that TrainerQueue is proved to implement: what *)
(* is checked here holds against that service too.                          *)
THEOREM ClientKeepsContract == Spec => Trainer!Spec
<1>1. Init => Trainer!Init
  BY DEF Init
<1>2. TypeInv /\ [Next]_vars => [Trainer!Next]_trainer
  BY ContractStep
<1> QED
  BY TypeInit, TypeStep, <1>1, <1>2, PTL DEF Spec, Trainer!Spec, Trainer!contract, trainer

(***************************************************************************)
(* One remote job.  A worker that may submit has not been preceded by one   *)
(* that did: a row that can be started without a remote id has none on the  *)
(* trainer, and a worker that leaves its row PENDING has saved the id.      *)
(* Between the submit and its persist the only way back is recovery, which  *)
(* fails a row without an id.                                               *)
(***************************************************************************)
Clear == \A j \in Jobs : remote[j] = "absent"

StartableIsClear ==
  /\ status = "PENDING" /\ saved = None => Clear
  /\ pc = "prepare" /\ saved = None => Clear
  /\ pc = "submit" => Clear

WorkingIsNotPending == pc # "idle" => status # "PENDING"

PastPersist == {"offset", "put", "reply", "reattach", "wait", "download", "suspended"}

SavedBeforeUpload == pc \in PastPersist => saved # None

AtMostOne == \A i, j \in Jobs : remote[i] # "absent" /\ remote[j] # "absent" => i = j

OnceInv == TypeInv /\ StartableIsClear /\ WorkingIsNotPending /\ SavedBeforeUpload /\ AtMostOne

(* Only submit_job brings a job into being on the trainer.                  *)
LEMMA AbsentKept ==
  ASSUME TypeInv, [Next]_vars, ~\E j \in Jobs : SubmitJob(j), NEW i \in Jobs, remote[i] = "absent"
  PROVE  remote'[i] = "absent"
<1>a. remote \in [Jobs -> States]
  BY DEF TypeInv, TrainerType
<1>b. ASSUME NEW j \in Jobs, Trainer!Receive(j) \/ Trainer!RequestCancel(j) \/ Trainer!Withdraw(j)
      PROVE remote'[i] = "absent"
  BY <1>a, <1>b DEF Trainer!Receive, Trainer!RequestCancel, Trainer!Withdraw, Trainer!Becomes
<1>1. CASE UNCHANGED trainer
  BY <1>1 DEF trainer
<1>2. CASE DeleteRemoteJob \/ HandleStopRequest
  <2>1. rjob \in Jobs
    BY <1>2 DEF TypeInv, WorkerType, KnowsJob, Knows, DeleteRemoteJob, HandleStopRequest
  <2> QED BY <1>1, <1>2, <1>b, <2>1 DEF DeleteRemoteJob, HandleStopRequest
<1>3. ASSUME NEW j \in Jobs, Extract(j) PROVE remote'[i] = "absent"
  BY <1>1, <1>3, <1>b DEF Extract
<1>4. ASSUME NEW j \in Jobs, TrainerMoves(j) PROVE remote'[i] = "absent"
  BY <1>4, <1>a DEF TrainerMoves, Trainer!Begin, Trainer!Complete, Trainer!Fail, Trainer!Cancel,
     Trainer!Remove, Trainer!Becomes
<1>5. CASE TrainerStops \/ TrainerFlags \/ TrainerDown \/ TrainerStarts
  BY <1>5, <1>a DEF TrainerStops, TrainerFlags, TrainerDown, TrainerStarts, Trainer!Stop,
     Trainer!FlagRunning, Trainer!Down, Trainer!Start
<1>6. CASE \/ Prepare \/ SubmitUnanswered \/ PersistRemoteJobId \/ GetUploadOffset \/ PutDataset
           \/ PutReply \/ Reattach \/ Look \/ Download \/ Trained \/ WriteVerdict
           \/ LateProgress \/ CreateModel
  BY <1>1, <1>6 DEF Prepare, SubmitUnanswered, PersistRemoteJobId, GetUploadOffset, PutDataset, PutReply,
     Reattach, Look, Download, Trained, WriteVerdict, LateProgress, CreateModel
<1>7. CASE StartWorker \/ Recover \/ RestartStudio \/ UserCancels \/ Killed \/ ShutdownStudio
  BY <1>1, <1>7 DEF StartWorker, Recover, RestartStudio, UserCancels, Killed, ShutdownStudio
<1> QED
  BY <1>1, <1>2, <1>3, <1>4, <1>5, <1>6, <1>7 DEF Next, WorkerStep, SchedulerStep, vars

LEMMA OnceStep == OnceInv /\ [Next]_vars => OnceInv'
<1> SUFFICES ASSUME OnceInv, [Next]_vars PROVE OnceInv'
  OBVIOUS
<1>a. TypeInv /\ TypeInv'
  BY TypeStep DEF OnceInv
<1> DEFINE Good == StartableIsClear' /\ WorkingIsNotPending' /\ SavedBeforeUpload' /\ AtMostOne'
<1> SUFFICES Good
  BY <1>a DEF OnceInv
<1>b. PastPersist = {"offset", "put", "reply", "reattach", "wait", "download", "suspended"}
  BY DEF PastPersist
<1>c. remote \in [Jobs -> States]
  BY <1>a DEF TypeInv, TrainerType
<1>1. ASSUME NEW j \in Jobs, SubmitJob(j) PROVE Good
  <2>1. /\ pc = "submit" /\ pc' \in {"persist", "failed"}
        /\ status' = status /\ saved' = saved
        /\ remote' = [remote EXCEPT ![j] = "awaiting_dataset"]
    BY <1>1 DEF SubmitJob, Trainer!Submit, Trainer!Becomes, Goto, Studio, row
  <2>2. Clear /\ status # "PENDING"
    BY <2>1 DEF OnceInv, StartableIsClear, WorkingIsNotPending
  <2>3. \A i \in Jobs : remote'[i] # "absent" => i = j
    BY <2>1, <2>2, <1>c DEF Clear
  <2> QED
    BY <2>1, <2>2, <2>3, <1>b DEF StartableIsClear, WorkingIsNotPending, SavedBeforeUpload, AtMostOne
<1>2. CASE ~\E j \in Jobs : SubmitJob(j)
  <2>1. \A i \in Jobs : remote[i] = "absent" => remote'[i] = "absent"
    BY <1>2, <1>a, AbsentKept
  <2>2. AtMostOne'
    BY <2>1 DEF OnceInv, AtMostOne
  <2>3. Clear => Clear'
    BY <2>1 DEF Clear
  <2> DEFINE Rest == StartableIsClear' /\ WorkingIsNotPending' /\ SavedBeforeUpload'
  <2> SUFFICES Rest
    BY <2>2
  <2> USE <1>b, <2>3 DEF OnceInv, StartableIsClear, WorkingIsNotPending, SavedBeforeUpload
  <2>a. ASSUME UNCHANGED <<pc, status, saved>> PROVE Rest
    BY <2>a
  <2>b. ASSUME pc # "idle", pc' \in {"failed", "canceled", "delete", "trained", "completed"},
               UNCHANGED <<status, saved>> PROVE Rest
    BY <2>b
  <2>c. ASSUME pc \in PastPersist, pc' \in PastPersist \union {"failed", "canceled", "delete"},
               UNCHANGED <<status, saved>> PROVE Rest
    BY <2>c
  <2>4. CASE Prepare
    BY <2>4 DEF Prepare, Goto, Studio, row
  <2>5. CASE SubmitUnanswered \/ DeleteRemoteJob \/ Trained
    BY <2>5, <2>b DEF SubmitUnanswered, DeleteRemoteJob, Trained, Goto, Studio, row
  <2>6. CASE PersistRemoteJobId
    <3>1. rjob # None
      BY <2>6, <1>a, ConstantsAssumption DEF PersistRemoteJobId, TypeInv, WorkerType, KnowsJob, Knows,
         ConstantsAssumption
    <3> QED BY <2>6, <3>1 DEF PersistRemoteJobId, Goto
  <2>7. CASE GetUploadOffset \/ PutDataset \/ PutReply
    BY <2>7, <2>c DEF GetUploadOffset, PutDataset, PutReply, Retry, Goto, Studio, row
  <2>8. CASE Reattach \/ Look \/ HandleStopRequest
    BY <2>8, <2>c DEF Reattach, Look, HandleStopRequest, Goto, Studio, row
  <2>9. CASE Download
    BY <2>9, <2>c DEF Download, Goto, row
  <2>10. CASE WriteVerdict \/ LateProgress
    BY <2>10 DEF WriteVerdict, LateProgress, Goto, worker
  <2>11. CASE CreateModel \/ Killed
    <3>1. pc' = "idle" /\ UNCHANGED <<status, saved>>
      BY <2>11 DEF CreateModel, Killed, row
    <3> QED BY <3>1
  <2>12. CASE StartWorker \/ Recover
    BY <2>12 DEF StartWorker, Recover, worker
  <2>13. CASE UserCancels \/ ShutdownStudio \/ RestartStudio
    BY <2>13, <2>a DEF UserCancels, ShutdownStudio, RestartStudio, worker, row
  <2>14. ASSUME NEW j \in Jobs, Extract(j) \/ TrainerMoves(j) PROVE Rest
    BY <2>14, <2>a DEF Extract, TrainerMoves, worker, Studio, row
  <2>15. CASE TrainerStops \/ TrainerFlags \/ TrainerDown \/ TrainerStarts
    BY <2>15, <2>a DEF TrainerStops, TrainerFlags, TrainerDown, TrainerStarts, worker, Studio, row
  <2>16. CASE UNCHANGED vars
    BY <2>16, <2>a DEF vars, worker, row
  <2> QED
    BY <1>2, <2>4, <2>5, <2>6, <2>7, <2>8, <2>9, <2>10, <2>11, <2>12, <2>13, <2>14, <2>15, <2>16
       DEF Next, WorkerStep, SchedulerStep
<1> QED
  BY <1>1, <1>2

(* The Studio trains a job at most once: no lost answer, kill, restart or   *)
(* recovery makes it submit a second remote job for the same row.           *)
THEOREM OneJobOnTrainer == Spec => []OneRemoteJob
<1>1. Init => OnceInv
  <2> SUFFICES ASSUME Init PROVE OnceInv
    OBVIOUS
  <2>1. Clear
    BY DEF Init, Trainer!Init, Clear
  <2> QED
    BY <2>1, TypeInit DEF Init, OnceInv, StartableIsClear, WorkingIsNotPending, SavedBeforeUpload,
       PastPersist, AtMostOne, Clear
<1>2. OnceInv => OneRemoteJob
  <2> SUFFICES ASSUME OnceInv PROVE OneRemoteJob
    OBVIOUS
  <2> DEFINE Known == {j \in Jobs : remote[j] # "absent"}
  <2>1. CASE Known = {}
    <3>1. Cardinality(Known) = 0
      BY <2>1, FS_EmptySet
    <3> QED BY <3>1 DEF OneRemoteJob
  <2>2. ASSUME NEW i \in Known PROVE OneRemoteJob
    <3>1. Known = {i}
      BY <2>2 DEF OnceInv, AtMostOne
    <3>2. Cardinality(Known) = 1
      BY <3>1, FS_Singleton
    <3> QED BY <3>2 DEF OneRemoteJob
  <2> QED BY <2>1, <2>2
<1> QED
  BY <1>1, OnceStep, <1>2, PTL DEF Spec

(***************************************************************************)
(* The model is extracted before its remote copy is given up: a worker that *)
(* is about to delete the remote job holds the files it extracted itself.   *)
(***************************************************************************)
ExtractedBeforeDelete == pc = "delete" => model = "files"

HandoverInv == TypeInv /\ ExtractedBeforeDelete

LEMMA HandoverStep == HandoverInv /\ [Next]_vars => HandoverInv'
<1> SUFFICES ASSUME HandoverInv, [Next]_vars PROVE ExtractedBeforeDelete'
  BY TypeStep DEF HandoverInv
<1> USE DEF HandoverInv, ExtractedBeforeDelete
<1>1. CASE \/ Prepare \/ SubmitUnanswered \/ GetUploadOffset \/ PutDataset \/ PutReply \/ Reattach
           \/ Look \/ Trained \/ DeleteRemoteJob \/ HandleStopRequest
  <2>1. pc' # "delete"
    BY <1>1 DEF Prepare, SubmitUnanswered, GetUploadOffset, PutDataset, PutReply, Reattach, Look, Trained,
       DeleteRemoteJob, HandleStopRequest, Retry, Goto
  <2> QED BY <2>1
<1>2. ASSUME NEW j \in Jobs, SubmitJob(j) PROVE ExtractedBeforeDelete'
  BY <1>2 DEF SubmitJob, Goto
<1>3. CASE Download
  BY <1>3 DEF Download, Goto
<1>4. CASE PersistRemoteJobId \/ WriteVerdict \/ CreateModel \/ StartWorker \/ Killed
  <2>1. pc' # "delete"
    BY <1>4 DEF PersistRemoteJobId, WriteVerdict, CreateModel, StartWorker, Killed, Goto
  <2> QED BY <2>1
<1>5. CASE LateProgress \/ Recover \/ RestartStudio \/ UserCancels \/ ShutdownStudio
  BY <1>5 DEF LateProgress, Recover, RestartStudio, UserCancels, ShutdownStudio, worker
<1>6. ASSUME NEW j \in Jobs, Extract(j) \/ TrainerMoves(j) PROVE ExtractedBeforeDelete'
  BY <1>6 DEF Extract, TrainerMoves, worker, Studio
<1>7. CASE TrainerStops \/ TrainerFlags \/ TrainerDown \/ TrainerStarts
  BY <1>7 DEF TrainerStops, TrainerFlags, TrainerDown, TrainerStarts, worker, Studio
<1>8. CASE UNCHANGED vars
  BY <1>8 DEF vars, worker
<1> QED
  BY <1>1, <1>2, <1>3, <1>4, <1>5, <1>6, <1>7, <1>8 DEF Next, WorkerStep, SchedulerStep

HandoverAction == \A j \in Jobs : j \in artifact /\ j \notin artifact' => model = "files"

(* Only DELETE takes an archive from the trainer.                           *)
LEMMA OnlyDeleteWithdraws == HandoverInv /\ [Next]_vars => HandoverAction
<1> SUFFICES ASSUME HandoverInv, [Next]_vars, NEW j \in Jobs, j \in artifact, j \notin artifact'
             PROVE  model = "files"
  BY DEF HandoverAction
<1>1. CASE DeleteRemoteJob
  BY <1>1 DEF DeleteRemoteJob, HandoverInv, ExtractedBeforeDelete
<1>2. CASE \/ Prepare \/ SubmitUnanswered \/ PersistRemoteJobId \/ GetUploadOffset \/ PutDataset
           \/ PutReply \/ Reattach \/ Look \/ Download \/ Trained \/ WriteVerdict
           \/ LateProgress \/ CreateModel
  BY <1>2 DEF Prepare, SubmitUnanswered, PersistRemoteJobId, GetUploadOffset, PutDataset, PutReply,
     Reattach, Look, Download, Trained, WriteVerdict, LateProgress, CreateModel, trainer
<1>3. CASE StartWorker \/ Recover \/ RestartStudio \/ UserCancels \/ Killed \/ ShutdownStudio
  BY <1>3 DEF StartWorker, Recover, RestartStudio, UserCancels, Killed, ShutdownStudio, trainer
<1>4. CASE HandleStopRequest
  BY <1>4 DEF HandleStopRequest, Trainer!RequestCancel, trainer
<1>5. ASSUME NEW i \in Jobs, SubmitJob(i) \/ Extract(i) \/ TrainerMoves(i) PROVE FALSE
  BY <1>5 DEF SubmitJob, Extract, TrainerMoves, trainer, Trainer!Submit, Trainer!Receive, Trainer!Begin,
     Trainer!Complete, Trainer!Fail, Trainer!Cancel, Trainer!Remove
<1>6. CASE TrainerStops \/ TrainerFlags \/ TrainerDown \/ TrainerStarts
  BY <1>6 DEF TrainerStops, TrainerFlags, TrainerDown, TrainerStarts, Trainer!Stop, Trainer!FlagRunning,
     Trainer!Down, Trainer!Start
<1>7. CASE UNCHANGED vars
  BY <1>7 DEF vars, trainer
<1> QED
  BY <1>1, <1>2, <1>3, <1>4, <1>5, <1>6, <1>7 DEF Next, WorkerStep, SchedulerStep

(* The trainer loses its archive of a completed job only while the worker   *)
(* of the moment holds what it extracted from it (_download_and_extract     *)
(* before _delete_remote_job), whatever calls were lost and whoever died    *)
(* before.  What becomes of the files when that worker dies is not claimed. *)
THEOREM ModelIsHandedOver == Spec => ModelHandedOver
<1>1. Init => HandoverInv
  BY TypeInit DEF Init, HandoverInv, ExtractedBeforeDelete
<1>2. HandoverInv /\ [Next]_vars => [HandoverAction]_vars
  BY OnlyDeleteWithdraws
<1> QED
  BY <1>1, <1>2, HandoverStep, PTL DEF Spec, ModelHandedOver, HandoverAction

(***************************************************************************)
(* Whoever cancels was asked to, or is shutting down.                       *)
(***************************************************************************)
CancelWasAsked == cancel => asked

StoppingIsHalted == service = "stopping" => halted

ShutdownInv == TypeInv /\ CancelWasAsked /\ StoppingIsHalted /\ ShutdownKeepsRemote

LEMMA ShutdownStep == ShutdownInv /\ [Next]_vars => ShutdownInv'
<1> SUFFICES ASSUME ShutdownInv, [Next]_vars PROVE ShutdownInv'
  OBVIOUS
<1>a. TypeInv /\ TypeInv'
  BY TypeStep DEF ShutdownInv
<1> DEFINE Good == CancelWasAsked' /\ StoppingIsHalted' /\ ShutdownKeepsRemote'
<1> SUFFICES Good
  BY <1>a DEF ShutdownInv
<1>b. remote \in [Jobs -> States] /\ flagged \subseteq Jobs
  BY <1>a DEF TypeInv, TrainerType
<1> USE DEF ShutdownInv, CancelWasAsked, StoppingIsHalted, ShutdownKeepsRemote
<1>c. ASSUME UNCHANGED <<remote, flagged, service, cancel, asked, halted>> PROVE Good
  BY <1>c
\* A step that cancels nothing on the trainer.
<1>d. ASSUME UNCHANGED <<cancel, asked, halted>>, service' = "stopping" => service = "stopping",
             flagged' \subseteq flagged,
             \A j \in Jobs : remote'[j] = "canceled" => remote[j] = "canceled"
      PROVE Good
  BY <1>d
<1>1. CASE \/ Prepare \/ SubmitUnanswered \/ GetUploadOffset \/ PutDataset \/ PutReply
           \/ Reattach \/ Look \/ Trained
  BY <1>1, <1>c DEF Prepare, SubmitUnanswered, GetUploadOffset, PutDataset, PutReply, Reattach, Look,
     Trained, trainer, Studio, control, history
<1>2. CASE PersistRemoteJobId \/ Download \/ WriteVerdict \/ LateProgress \/ CreateModel
  BY <1>2, <1>c DEF PersistRemoteJobId, Download, WriteVerdict, LateProgress, CreateModel, trainer,
     control, history
<1>3. ASSUME NEW j \in Jobs, SubmitJob(j) PROVE Good
  <2>1. UNCHANGED <<cancel, asked, halted, service, flagged>>
    BY <1>3 DEF SubmitJob, Trainer!Submit, Studio, control, history
  <2>2. \A i \in Jobs : remote'[i] = "canceled" => remote[i] = "canceled"
    BY <1>3, <1>b DEF SubmitJob, Trainer!Submit, Trainer!Becomes
  <2> QED BY <2>1, <2>2, <1>d
<1>4. CASE DeleteRemoteJob
  BY <1>4, <1>c DEF DeleteRemoteJob, Trainer!Withdraw, trainer, Studio, control, history
<1>5. CASE HandleStopRequest
  <2>1. UNCHANGED <<cancel, asked, halted>>
    BY <1>5 DEF HandleStopRequest, Studio, control, history
  <2>2. CASE UNCHANGED trainer
    BY <2>1, <2>2, <1>c DEF trainer
  <2>3. CASE Trainer!RequestCancel(rjob)
    <3>1. UNCHANGED service
      BY <2>3 DEF Trainer!RequestCancel
    <3>2. CASE cancel
      BY <3>1, <3>2, <2>1
    <3>3. CASE ~cancel
      BY <1>5, <3>3, <2>2 DEF HandleStopRequest
    <3> QED BY <3>2, <3>3
  <2> QED BY <1>5, <2>2, <2>3 DEF HandleStopRequest
<1>6. CASE StartWorker \/ Recover \/ Killed \/ ShutdownStudio
  BY <1>6, <1>c DEF StartWorker, Recover, Killed, ShutdownStudio, trainer, control, history
<1>7. CASE RestartStudio \/ UserCancels
  <2>1. UNCHANGED <<remote, flagged, service, halted>>
    BY <1>7 DEF RestartStudio, UserCancels, trainer, history
  <2>2. (cancel' => asked') /\ (asked => asked')
    BY <1>7, <1>a DEF RestartStudio, UserCancels, history
  <2> QED BY <2>1, <2>2
<1>8. ASSUME NEW j \in Jobs, Extract(j) PROVE Good
  <2>1. UNCHANGED <<cancel, asked, halted>>
    BY <1>8 DEF Extract, Studio, control, history
  <2>2. CASE UNCHANGED trainer
    BY <2>1, <2>2, <1>c DEF trainer
  <2>3. CASE Trainer!Receive(j)
    <3>1. UNCHANGED <<service, flagged>> /\ \A i \in Jobs : remote'[i] = "canceled" => remote[i] = "canceled"
      BY <2>3, <1>b DEF Trainer!Receive, Trainer!Becomes
    <3> QED BY <2>1, <3>1, <1>d
  <2> QED BY <1>8, <2>2, <2>3 DEF Extract
<1>9. ASSUME NEW j \in Jobs, TrainerMoves(j) PROVE Good
  <2>1. UNCHANGED <<cancel, asked, halted>>
    BY <1>9 DEF TrainerMoves, Studio, control, history
  <2>2. CASE Trainer!Begin(j) \/ Trainer!Complete(j) \/ Trainer!Fail(j) \/ Trainer!Remove(j)
    <3>1. UNCHANGED <<service, flagged>> /\ \A i \in Jobs : remote'[i] = "canceled" => remote[i] = "canceled"
      BY <2>2, <1>b DEF Trainer!Begin, Trainer!Complete, Trainer!Fail, Trainer!Remove, Trainer!Becomes
    <3> QED BY <2>1, <3>1, <1>d
  <2>3. CASE Trainer!Cancel(j)
    <3>1. UNCHANGED service
      BY <2>3 DEF Trainer!Cancel
    <3>2. asked \/ halted
      BY <2>3 DEF Trainer!Cancel
    <3> QED BY <2>1, <3>1, <3>2
  <2> QED BY <1>9, <2>2, <2>3 DEF TrainerMoves
<1>10. CASE TrainerStops
  <2>1. halted' /\ UNCHANGED <<cancel, asked>>
    BY <1>10 DEF TrainerStops, control
  <2> QED BY <2>1
<1>11. CASE TrainerFlags
  <2>1. UNCHANGED <<cancel, asked, halted, service>> /\ service = "stopping"
    BY <1>11 DEF TrainerFlags, Trainer!FlagRunning, Studio, control, history
  <2> QED BY <2>1
<1>12. CASE TrainerDown \/ TrainerStarts
  <2>1. UNCHANGED <<cancel, asked, halted>> /\ service' # "stopping" /\ flagged' \subseteq flagged
    BY <1>12 DEF TrainerDown, TrainerStarts, Trainer!Down, Trainer!Start, Studio, control, history
  <2>2. \A i \in Jobs : remote'[i] = "canceled" => remote[i] = "canceled"
    BY <1>12, <1>b DEF TrainerDown, TrainerStarts, Trainer!Down, Trainer!Start
  <2> QED BY <2>1, <2>2, <1>d
<1>13. CASE UNCHANGED vars
  BY <1>13, <1>c DEF vars, trainer, control, history
<1> QED
  BY <1>1, <1>2, <1>3, <1>4, <1>5, <1>6, <1>7, <1>8, <1>9, <1>10, <1>11, <1>12, <1>13
     DEF Next, WorkerStep, SchedulerStep

(* A shutdown of the Studio leaves the remote job alone: the trainer        *)
(* cancels, or is told to, only after the user asked or when it is itself   *)
(* shut down.                                                               *)
THEOREM ShutdownOnlySuspends == Spec => []ShutdownKeepsRemote
<1>1. Init => ShutdownInv
  BY TypeInit DEF Init, Trainer!Init, ShutdownInv, CancelWasAsked, StoppingIsHalted, ShutdownKeepsRemote
<1>2. ShutdownInv => ShutdownKeepsRemote
  BY DEF ShutdownInv
<1> QED
  BY <1>1, ShutdownStep, <1>2, PTL DEF Spec

(***************************************************************************)
(* The verdict COMPLETED stands for a model that was trained and extracted. *)
(***************************************************************************)
TrainedThere == \E j \in Jobs : remote[j] \in {"completed", "gone"}

CompletedIsTrained ==
  /\ pc \in {"download", "delete", "trained", "completed"} => TrainedThere
  /\ pc \in {"delete", "trained", "completed"} => model # "none"
  /\ status = "COMPLETED" => TrainedThere /\ model # "none"

VerdictInv == TypeInv /\ CompletedIsTrained

(* What the trainer has completed it does not take back.                    *)
LEMMA TrainedKept == TypeInv /\ [Next]_vars /\ TrainedThere => TrainedThere'
<1> SUFFICES ASSUME TypeInv, [Next]_vars, NEW i \in Jobs, remote[i] \in {"completed", "gone"}
             PROVE  remote'[i] \in {"completed", "gone"}
  BY DEF TrainedThere
<1>a. remote \in [Jobs -> States]
  BY DEF TypeInv, TrainerType
<1>b. ASSUME NEW j \in Jobs, Trainer!Receive(j) \/ Trainer!RequestCancel(j) \/ Trainer!Withdraw(j)
      PROVE  remote'[i] = remote[i]
  BY <1>a, <1>b DEF Trainer!Receive, Trainer!RequestCancel, Trainer!Withdraw, Trainer!Becomes
<1>1. CASE UNCHANGED trainer
  BY <1>1 DEF trainer
<1>2. CASE DeleteRemoteJob \/ HandleStopRequest
  <2>1. rjob \in Jobs
    BY <1>2 DEF TypeInv, WorkerType, KnowsJob, Knows, DeleteRemoteJob, HandleStopRequest
  <2> QED BY <1>1, <1>2, <1>b, <2>1 DEF DeleteRemoteJob, HandleStopRequest
<1>3. ASSUME NEW j \in Jobs, Extract(j) PROVE remote'[i] \in {"completed", "gone"}
  BY <1>1, <1>3, <1>b DEF Extract
<1>4. ASSUME NEW j \in Jobs, SubmitJob(j) \/ TrainerMoves(j) PROVE remote'[i] \in {"completed", "gone"}
  BY <1>4, <1>a DEF SubmitJob, TrainerMoves, Trainer!Submit, Trainer!Begin, Trainer!Complete,
     Trainer!Fail, Trainer!Cancel, Trainer!Remove, Trainer!Becomes
<1>5. CASE TrainerStops \/ TrainerFlags \/ TrainerDown \/ TrainerStarts
  BY <1>5, <1>a DEF TrainerStops, TrainerFlags, TrainerDown, TrainerStarts, Trainer!Stop,
     Trainer!FlagRunning, Trainer!Down, Trainer!Start
<1>6. CASE \/ Prepare \/ SubmitUnanswered \/ PersistRemoteJobId \/ GetUploadOffset \/ PutDataset
           \/ PutReply \/ Reattach \/ Look \/ Download \/ Trained \/ WriteVerdict
           \/ LateProgress \/ CreateModel
  BY <1>1, <1>6 DEF Prepare, SubmitUnanswered, PersistRemoteJobId, GetUploadOffset, PutDataset, PutReply,
     Reattach, Look, Download, Trained, WriteVerdict, LateProgress, CreateModel
<1>7. CASE StartWorker \/ Recover \/ RestartStudio \/ UserCancels \/ Killed \/ ShutdownStudio
  BY <1>1, <1>7 DEF StartWorker, Recover, RestartStudio, UserCancels, Killed, ShutdownStudio
<1> QED
  BY <1>1, <1>2, <1>3, <1>4, <1>5, <1>6, <1>7 DEF Next, WorkerStep, SchedulerStep, vars

LEMMA VerdictStep == VerdictInv /\ [Next]_vars => VerdictInv'
<1> SUFFICES ASSUME VerdictInv, [Next]_vars PROVE VerdictInv'
  OBVIOUS
<1>a. TypeInv /\ TypeInv' /\ (TrainedThere => TrainedThere')
  BY TypeStep, TrainedKept DEF VerdictInv
<1> DEFINE Good == CompletedIsTrained'
<1> SUFFICES Good
  BY <1>a DEF VerdictInv
<1> DEFINE There == TrainedThere
           ThereNext == TrainedThere'
<1>b. There => ThereNext
  BY <1>a
<1>c. /\ pc \in {"download", "delete", "trained", "completed"} => There
      /\ pc \in {"delete", "trained", "completed"} => model # "none"
      /\ status = "COMPLETED" => There /\ model # "none"
  BY DEF VerdictInv, CompletedIsTrained
<1>g. ASSUME /\ pc' \in {"download", "delete", "trained", "completed"} => ThereNext
             /\ pc' \in {"delete", "trained", "completed"} => model' # "none"
             /\ status' = "COMPLETED" => ThereNext /\ model' # "none"
      PROVE  Good
  BY <1>g DEF CompletedIsTrained
<1> HIDE DEF Good, There, ThereNext
\* The worker stays where it is or moves on to a place that claims nothing of
\* the model, which is not given up; the row does not become COMPLETED.
<1>e. ASSUME \/ pc' = pc
             \/ pc' \in {"idle", "prepare", "submit", "persist", "offset", "put", "reply", "reattach", "wait",
                         "failed", "canceled", "suspended"},
             model # "none" => model' # "none", status' = "COMPLETED" => status = "COMPLETED"
      PROVE  Good
  BY <1>b, <1>c, <1>e, <1>g
<1>1. CASE Prepare \/ SubmitUnanswered \/ GetUploadOffset \/ PutReply \/ Reattach
  BY <1>1, <1>e DEF Prepare, SubmitUnanswered, GetUploadOffset, PutReply, Reattach, Retry, Goto, Studio, row
<1>2. ASSUME NEW j \in Jobs, SubmitJob(j) PROVE Good
  BY <1>2, <1>e DEF SubmitJob, Goto, Studio, row
<1>3. CASE PersistRemoteJobId \/ PutDataset \/ HandleStopRequest
  BY <1>3, <1>e DEF PersistRemoteJobId, PutDataset, HandleStopRequest, Retry, Goto, Studio, row
<1>4. CASE Look
  <2>1. pc = "wait" /\ UNCHANGED <<status, model, remote>> /\ pc' \in {"download", "canceled", "failed"}
        /\ (pc' = "download" => remote[rjob] = "completed")
    BY <1>4 DEF Look, Goto, Studio, row, trainer
  <2>2. rjob \in Jobs
    BY <1>a, <2>1 DEF TypeInv, WorkerType, KnowsJob, Knows
  <2>3. pc' = "download" => There
    BY <2>1, <2>2 DEF There, TrainedThere
  <2> QED
    BY <1>b, <1>c, <1>g, <2>1, <2>3
<1>5. CASE Download
  <2>1. /\ pc = "download" /\ pc' \in {"delete", "failed", "wait"} /\ UNCHANGED status
        /\ model' \in {model, "files"} /\ (pc' = "delete" => model' # "none")
    BY <1>5 DEF Download, Goto, row
  <2> QED
    BY <1>b, <1>c, <1>g, <2>1
<1>6. CASE DeleteRemoteJob \/ Trained
  <2>1. /\ pc \in {"delete", "trained"} /\ pc' \in {"trained", "canceled", "completed"}
        /\ UNCHANGED <<status, model>>
    BY <1>6 DEF DeleteRemoteJob, Trained, Goto, Studio, row
  <2> QED
    BY <1>b, <1>c, <1>g, <2>1
<1>7. CASE WriteVerdict
  <2>1. /\ pc \in {"completed", "failed", "canceled", "suspended"} /\ UNCHANGED model
        /\ pc' \in {"idle", "register"} /\ (status' = "COMPLETED" => pc = "completed")
    BY <1>7 DEF WriteVerdict, Goto
  <2> QED
    BY <1>b, <1>c, <1>g, <2>1
<1>8. CASE CreateModel \/ Killed
  <2>1. pc' = "idle" /\ UNCHANGED status /\ model' \in {model, "row", "stray"}
    BY <1>8 DEF CreateModel, Killed, row
  <2> QED
    BY <1>e, <2>1
<1>9. CASE LateProgress \/ StartWorker \/ Recover \/ UserCancels
  <2>1. UNCHANGED model /\ status' # "COMPLETED" /\ pc' \in {pc, "prepare"}
    BY <1>9 DEF LateProgress, StartWorker, Recover, UserCancels, worker
  <2> QED
    BY <1>e, <2>1
<1>10. CASE RestartStudio \/ ShutdownStudio
  BY <1>10, <1>e DEF RestartStudio, ShutdownStudio, worker, row
<1>11. ASSUME NEW j \in Jobs, Extract(j) \/ TrainerMoves(j) PROVE Good
  BY <1>11, <1>e DEF Extract, TrainerMoves, worker, Studio, row
<1>12. CASE TrainerStops \/ TrainerFlags \/ TrainerDown \/ TrainerStarts
  BY <1>12, <1>e DEF TrainerStops, TrainerFlags, TrainerDown, TrainerStarts, worker, Studio, row
<1>13. CASE UNCHANGED vars
  BY <1>13, <1>e DEF vars, worker, row
<1> QED
  BY <1>1, <1>2, <1>3, <1>4, <1>5, <1>6, <1>7, <1>8, <1>9, <1>10, <1>11, <1>12, <1>13
     DEF Next, WorkerStep, SchedulerStep

LEMMA VerdictInit == Init => VerdictInv
BY TypeInit DEF Init, VerdictInv, CompletedIsTrained

(* The Studio calls a remote job COMPLETED only if the trainer completed it *)
(* and its model was extracted here, whatever answers were lost and however *)
(* often worker, Studio and trainer went down on the way.                   *)
THEOREM CompletedWasTrained ==
  Spec => [](status = "COMPLETED" =>
               model # "none" /\ \E j \in Jobs : remote[j] \in {"completed", "gone"})
<1>1. VerdictInv => (status = "COMPLETED" =>
                       model # "none" /\ \E j \in Jobs : remote[j] \in {"completed", "gone"})
  BY DEF VerdictInv, CompletedIsTrained, TrainedThere
<1>2. VerdictInv /\ [Next]_vars => VerdictInv'
  BY VerdictStep
<1> QED
  BY <1>1, <1>2, VerdictInit, PTL DEF Spec
=============================================================================
