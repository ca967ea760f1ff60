----------------------- MODULE TrainerContractProofs -----------------------
(* TrainerQueue implements TrainerContract, for any number of jobs, slots,  *)
(* concurrent uploads, chunks and restarts.                                 *)
EXTENDS TrainerQueueProofs

(* What the refinement needs beyond QueueInv and ArtifactInv: a service     *)
(* that is not up has no request in flight, a flag is never on a job that   *)
(* has yet to run, a run that ends cancelled was told to stop, and only     *)
(* ended jobs are doomed.                                                   *)
QuietWhenNotUp ==
  phase # "up" => /\ \A j \in Jobs : api[j] = "idle"
                  /\ \A u \in Uploads : upload[u].pc = "idle"

NoFlagWhenDown == phase = "down" => cancel = {}

Unstarted == {"NONE", "AWAITING", "QUEUED"}

FlagsOnStarted ==
  /\ \A j \in cancel : status[j] \notin Unstarted
  /\ \A j \in Jobs : api[j] = "cancel" => status[j] # "NONE"

CanceledWasTold == \A j \in Jobs : run[j] = "canceled" => ShouldStop(j)

DoomedHasEnded == \A j \in doomed : status[j] \in Terminal \cup {"DELETED"}

LinkInv == QuietWhenNotUp /\ NoFlagWhenDown /\ FlagsOnStarted /\ CanceledWasTold /\ DoomedHasEnded

LEMMA LinkInit == Init => LinkInv
  BY DEF Init, LinkInv, QuietWhenNotUp, NoFlagWhenDown, FlagsOnStarted, CanceledWasTold,
         DoomedHasEnded, NoUpload, Uploads

(* Every step keeps the links between requests, flags, runs and rows.       *)
LEMMA LinkStep == QueueInv /\ LinkInv /\ [Next]_vars => LinkInv'
<1> SUFFICES ASSUME QueueInv, LinkInv, [Next]_vars PROVE LinkInv'
  OBVIOUS
<1>a. /\ status \in [Jobs -> Statuses]
      /\ api \in [Jobs -> {"idle", "cancel", "remove", "delete"}]
  BY DEF QueueInv, TypeOK
<1>b. upload \in [Uploads -> UploadState]
  BY DEF QueueInv, TypeOK, UploadState
<1>c. cancel \subseteq Jobs /\ doomed \subseteq Jobs /\ active \subseteq Jobs
  BY DEF QueueInv, TypeOK
<1>d. run \in [Jobs -> {"none", "start", "train", "archive", "returned", "canceled", "failed"}]
  BY DEF QueueInv, TypeOK
<1>e. phase \in {"up", "stopping", "down"}
  BY DEF QueueInv, TypeOK
<1>f. /\ Terminal \cup {"DELETED"} = {"COMPLETED", "FAILED", "CANCELED", "DELETED"}
      /\ Unstarted = {"NONE", "AWAITING", "QUEUED"}
  BY DEF Terminal, Unstarted
<1>g. TerminalStep
  BY TerminalKept
<1>h. \A u \in Uploads : u[1] \in Jobs
  BY DEF Uploads
<1>1. QuietWhenNotUp'
  <2> USE DEF QuietWhenNotUp
  <2>1. ASSUME NEW j \in Jobs, SubmitJob(j) \/ CancelCheck(j) \/ DeleteCheck(j) PROVE QuietWhenNotUp'
    BY <2>1 DEF SubmitJob, CancelCheck, DeleteCheck, life
  <2>2. ASSUME NEW j \in Jobs, RequestCancel(j) \/ DeleteFiles(j) \/ DeleteRow(j) PROVE QuietWhenNotUp'
    BY <2>2, <1>a DEF RequestCancel, DeleteFiles, DeleteRow, life, LinkInv
  <2>3. ASSUME NEW u \in Uploads, UploadCheck(u) \/ UploadDrops(u) \/ UploadStep(u) PROVE QuietWhenNotUp'
    <3>1. phase = "up" /\ UNCHANGED phase
      BY <2>3 DEF UploadCheck, UploadDrops, UploadStep, UploadOpen, UploadChunk, UploadExtract,
                  UploadReady, life, LinkInv
    <3> QED BY <3>1
  <2>4. ASSUME NEW j \in Jobs, Dispatch(j) \/ RunStep(j) PROVE QuietWhenNotUp'
    <3>1. UNCHANGED <<phase, api, upload>>
      BY <2>4 DEF Dispatch, RunStep, RunJob, TrainEnds, ArchiveModel, Finish, life
    <3> QED BY <3>1 DEF LinkInv
  <2>5. CASE Shutdown
    BY <2>5 DEF Shutdown
  <2>6. CASE FlagActive \/ UNCHANGED vars
    BY <2>6 DEF FlagActive, vars, life, LinkInv
  <2>7. CASE Down
    BY <2>7 DEF Down, NoUpload
  <2>8. CASE Start
    BY <2>8 DEF Start
  <2> QED BY <2>1, <2>2, <2>3, <2>4, <2>5, <2>6, <2>7, <2>8 DEF Next
<1>2. NoFlagWhenDown'
  <2> USE DEF NoFlagWhenDown
  <2>1. ASSUME NEW j \in Jobs, RequestCancel(j) PROVE NoFlagWhenDown'
    BY <2>1 DEF RequestCancel, life, LinkInv, QuietWhenNotUp
  <2>2. ASSUME NEW j \in Jobs, Finish(j) PROVE NoFlagWhenDown'
    BY <2>2 DEF Finish, life, LinkInv
  <2>3. CASE FlagActive
    BY <2>3 DEF FlagActive, life
  <2>4. CASE Down
    BY <2>4 DEF Down
  <2>5. CASE Start \/ Shutdown
    BY <2>5 DEF Start, Shutdown
  <2>6. ASSUME UNCHANGED <<phase, cancel>> PROVE NoFlagWhenDown'
    BY <2>6 DEF LinkInv
  <2>7. ASSUME NEW j \in Jobs, SubmitJob(j) \/ CancelCheck(j) \/ DeleteCheck(j) \/ DeleteFiles(j)
               \/ DeleteRow(j) \/ Dispatch(j) \/ RunJob(j) \/ TrainEnds(j) \/ ArchiveModel(j)
        PROVE  UNCHANGED <<phase, cancel>>
    BY <2>7 DEF SubmitJob, CancelCheck, DeleteCheck, DeleteFiles, DeleteRow, Dispatch, RunJob,
                TrainEnds, ArchiveModel, queue, life
  <2>8. ASSUME NEW u \in Uploads, UploadCheck(u) \/ UploadDrops(u) \/ UploadStep(u)
        PROVE  UNCHANGED <<phase, cancel>>
    BY <2>8 DEF UploadCheck, UploadDrops, UploadStep, UploadOpen, UploadChunk, UploadExtract,
                UploadReady, queue, life
  <2>9. ASSUME UNCHANGED vars PROVE UNCHANGED <<phase, cancel>>
    BY <2>9 DEF vars, queue, life
  <2> QED BY <2>1, <2>2, <2>3, <2>4, <2>5, <2>6, <2>7, <2>8, <2>9 DEF Next, RunStep
<1>3. FlagsOnStarted'
  <2> USE DEF FlagsOnStarted
  <2>1. ASSUME NEW j \in Jobs, SubmitJob(j) PROVE FlagsOnStarted'
    BY <2>1, <1>a, <1>c, <1>f DEF SubmitJob, queue, LinkInv
  <2>2. ASSUME NEW u \in Uploads, UploadReady(u) PROVE FlagsOnStarted'
    <3>1. u[1] \in Jobs
      BY <1>h
    <3> QED BY <2>2, <3>1, <1>a, <1>c, <1>f DEF UploadReady, queue, LinkInv
  <2>3. ASSUME NEW j \in Jobs, RequestCancel(j) PROVE FlagsOnStarted'
    <3>1. CASE status[j] \in {"QUEUED", "AWAITING"}
      BY <2>3, <3>1, <1>a, <1>c, <1>f DEF RequestCancel, LinkInv
    <3>2. CASE status[j] \notin {"QUEUED", "AWAITING"}
      BY <2>3, <3>2, <1>a, <1>c, <1>f DEF RequestCancel, rows, LinkInv
    <3> QED BY <3>1, <3>2
  <2>4. ASSUME NEW j \in Jobs, DeleteRow(j) \/ Dispatch(j) PROVE FlagsOnStarted'
    BY <2>4, <1>a, <1>c, <1>f DEF DeleteRow, Dispatch, queue, LinkInv
  <2>5. ASSUME NEW j \in Jobs, Finish(j) PROVE FlagsOnStarted'
    <3>1. Outcome(j) \in {"COMPLETED", "FAILED", "CANCELED"}
      BY <2>5 DEF Finish, Outcome
    <3> QED BY <2>5, <3>1, <1>a, <1>c, <1>f DEF Finish, LinkInv
  <2>6. CASE FlagActive
    <3>1. \A j \in active : status[j] = "RUNNING"
      BY <2>6 DEF FlagActive, QueueInv, RowsMatchTasks
    <3> QED BY <2>6, <3>1, <1>a, <1>c, <1>f DEF FlagActive, rows, LinkInv
  <2>7. CASE Down
    BY <2>7 DEF Down
  <2>8. CASE Start
    BY <2>8, <1>a, <1>c, <1>f DEF Start, queue, LinkInv
  <2>9. ASSUME NEW j \in Jobs, CancelCheck(j) \/ DeleteCheck(j) \/ DeleteFiles(j) PROVE FlagsOnStarted'
    BY <2>9, <1>a DEF CancelCheck, DeleteCheck, DeleteFiles, rows, queue, LinkInv
  <2>10. ASSUME UNCHANGED <<status, cancel, api>> PROVE FlagsOnStarted'
    BY <2>10 DEF LinkInv
  <2>11. ASSUME NEW j \in Jobs, RunJob(j) \/ TrainEnds(j) \/ ArchiveModel(j)
         PROVE  UNCHANGED <<status, cancel, api>>
    BY <2>11 DEF RunJob, TrainEnds, ArchiveModel, rows
  <2>12. ASSUME NEW u \in Uploads, UploadCheck(u) \/ UploadDrops(u) \/ UploadOpen(u)
                \/ UploadChunk(u) \/ UploadExtract(u)
         PROVE  UNCHANGED <<status, cancel, api>>
    BY <2>12 DEF UploadCheck, UploadDrops, UploadOpen, UploadChunk, UploadExtract, rows, queue
  <2>13. ASSUME Shutdown \/ UNCHANGED vars PROVE UNCHANGED <<status, cancel, api>>
    BY <2>13 DEF Shutdown, vars, rows, queue
  <2> QED BY <2>1, <2>2, <2>3, <2>4, <2>5, <2>6, <2>7, <2>8, <2>9, <2>10, <2>11, <2>12, <2>13
          DEF Next, UploadStep, RunStep
<1>4. CanceledWasTold'
  <2> USE DEF CanceledWasTold, ShouldStop
  <2>1. ASSUME NEW j \in Jobs, TrainEnds(j) PROVE CanceledWasTold'
    <3>1. PICK end : /\ end = "canceled" => ShouldStop(j)
                     /\ run' = [run EXCEPT ![j] = end]
      BY <2>1 DEF TrainEnds
    <3> QED BY <2>1, <3>1, <1>d DEF TrainEnds, life, LinkInv
  <2>2. ASSUME NEW j \in Jobs, ArchiveModel(j) PROVE CanceledWasTold'
    <3>1. PICK end \in {"returned", "failed"} : run' = [run EXCEPT ![j] = end]
      BY <2>2 DEF ArchiveModel
    <3> QED BY <2>2, <3>1, <1>d DEF ArchiveModel, life, LinkInv
  <2>3. ASSUME NEW j \in Jobs, RunJob(j) \/ Finish(j) \/ Dispatch(j) PROVE CanceledWasTold'
    BY <2>3, <1>d DEF RunJob, Finish, Dispatch, life, LinkInv
  <2>4. ASSUME NEW j \in Jobs, RequestCancel(j) PROVE CanceledWasTold'
    BY <2>4 DEF RequestCancel, life, LinkInv
  <2>5. CASE Shutdown \/ FlagActive
    BY <2>5 DEF Shutdown, FlagActive, queue, life, LinkInv
  <2>6. CASE Down
    BY <2>6 DEF Down
  <2>7. CASE Start
    BY <2>7 DEF Start, queue, QueueInv, DownIsIdle
  <2>8. ASSUME UNCHANGED <<run, cancel, phase>> PROVE CanceledWasTold'
    BY <2>8 DEF LinkInv
  <2>9. ASSUME NEW j \in Jobs, SubmitJob(j) \/ CancelCheck(j) \/ DeleteCheck(j) \/ DeleteFiles(j)
               \/ DeleteRow(j)
        PROVE  UNCHANGED <<run, cancel, phase>>
    BY <2>9 DEF SubmitJob, CancelCheck, DeleteCheck, DeleteFiles, DeleteRow, queue, life
  <2>10. ASSUME NEW u \in Uploads, UploadCheck(u) \/ UploadDrops(u) \/ UploadStep(u)
         PROVE  UNCHANGED <<run, cancel, phase>>
    BY <2>10 DEF UploadCheck, UploadDrops, UploadStep, UploadOpen, UploadChunk, UploadExtract,
                 UploadReady, queue, life
  <2>11. ASSUME UNCHANGED vars PROVE UNCHANGED <<run, cancel, phase>>
    BY <2>11 DEF vars, queue, life
  <2> QED BY <2>1, <2>2, <2>3, <2>4, <2>5, <2>6, <2>7, <2>8, <2>9, <2>10, <2>11 DEF Next, RunStep
<1>5. DoomedHasEnded'
  <2>1. ASSUME NEW j \in Jobs, DeleteCheck(j) PROVE DoomedHasEnded'
    BY <2>1 DEF DeleteCheck, rows, DoomedHasEnded, LinkInv
  <2>2. ASSUME UNCHANGED doomed PROVE DoomedHasEnded'
    BY <2>2, <1>c, <1>f, <1>g DEF DoomedHasEnded, TerminalStep, LinkInv
  <2>3. ASSUME NEW j \in Jobs, SubmitJob(j) \/ CancelCheck(j) \/ RequestCancel(j) \/ DeleteFiles(j)
               \/ DeleteRow(j) \/ Dispatch(j) \/ RunStep(j)
        PROVE  UNCHANGED doomed
    BY <2>3 DEF SubmitJob, CancelCheck, RequestCancel, DeleteFiles, DeleteRow, Dispatch, RunStep,
                RunJob, TrainEnds, ArchiveModel, Finish
  <2>4. ASSUME NEW u \in Uploads, UploadCheck(u) \/ UploadDrops(u) \/ UploadStep(u)
        PROVE  UNCHANGED doomed
    BY <2>4 DEF UploadCheck, UploadDrops, UploadStep, UploadOpen, UploadChunk, UploadExtract,
                UploadReady
  <2>5. ASSUME Shutdown \/ FlagActive \/ Down \/ Start \/ UNCHANGED vars PROVE UNCHANGED doomed
    BY <2>5 DEF Shutdown, FlagActive, Down, Start, vars
  <2> QED BY <2>1, <2>2, <2>3, <2>4, <2>5 DEF Next
<1> QED
  BY <1>1, <1>2, <1>3, <1>4, <1>5 DEF LinkInv
-----------------------------------------------------------------------------
(* The abstract state of a TrainerQueue state.                              *)
remoteOf   == [j \in Jobs |-> RemoteState[status[j]]]
artifactOf == {j \in archive : status[j] = "COMPLETED" /\ j \notin doomed}
flaggedOf  == {j \in cancel : status[j] = "RUNNING"}

LEMMA RemoteStates ==
  /\ RemoteState["NONE"] = "absent" /\ RemoteState["AWAITING"] = "awaiting_dataset"
  /\ RemoteState["QUEUED"] = "queued" /\ RemoteState["RUNNING"] = "running"
  /\ RemoteState["COMPLETED"] = "completed" /\ RemoteState["FAILED"] = "failed"
  /\ RemoteState["CANCELED"] = "canceled" /\ RemoteState["DELETED"] = "gone"
  BY DEF RemoteState

(* Changing one row changes one abstract state.                             *)
LEMMA OneRow ==
  ASSUME NEW j \in Jobs, NEW v, status \in [Jobs -> Statuses], status' = [status EXCEPT ![j] = v]
  PROVE  remoteOf' = [remoteOf EXCEPT ![j] = RemoteState[v]]
  BY DEF remoteOf

LEMMA InitImplements == Init => Contract!Init
  BY RemoteStates DEF Init, Contract!Init

(* A row other than a RUNNING or COMPLETED one changes: neither the models  *)
(* nor the flags a Studio sees.                                             *)
LEMMA QuietRow ==
  ASSUME NEW j \in Jobs, NEW v, TypeOK, status' = [status EXCEPT ![j] = v],
         status[j] \notin {"RUNNING", "COMPLETED"}, v \notin {"RUNNING", "COMPLETED"}
  PROVE  /\ UNCHANGED <<archive, doomed>> => artifactOf' = artifactOf
         /\ UNCHANGED cancel => flaggedOf' = flaggedOf
  BY DEF TypeOK, artifactOf, flaggedOf

LEMMA StepImplements ==
  QueueInv /\ ArtifactInv /\ LinkInv /\ [Next]_vars => [Contract!Next]_(Contract!contract)
<1> SUFFICES ASSUME QueueInv, ArtifactInv, LinkInv, [Next]_vars
             PROVE  [Contract!Next]_(Contract!contract)
  OBVIOUS
<1>a. TypeOK /\ status \in [Jobs -> Statuses]
  BY DEF QueueInv, TypeOK
<1>1. ASSUME NEW j \in Jobs, SubmitJob(j) PROVE Contract!Submit(j)
  <2>1. artifactOf' = artifactOf /\ flaggedOf' = flaggedOf
    BY <1>1, <1>a, QuietRow DEF SubmitJob, disk, queue
  <2>2. remoteOf[j] = "absent" /\ remoteOf' = [remoteOf EXCEPT ![j] = "awaiting_dataset"]
    BY <1>1, <1>a, OneRow, RemoteStates DEF SubmitJob, remoteOf
  <2>3. phase = "up" /\ phase' = phase
    BY <1>1 DEF SubmitJob, life
  <2> QED BY <2>1, <2>2, <2>3 DEF Contract!Submit, Contract!Becomes, remoteOf, artifactOf, flaggedOf
<1>2. ASSUME NEW u \in Uploads, UploadReady(u) PROVE Contract!Receive(u[1]) \/ UNCHANGED Contract!contract
  <2> DEFINE j == u[1]
  <2>a. j \in Jobs
    BY DEF Uploads
  <2>b. phase = "up" /\ UNCHANGED <<phase, archive, doomed, cancel>>
    BY <1>2 DEF UploadReady, LinkInv, QuietWhenNotUp, life, queue
  <2>1. CASE status[j] = "AWAITING"
    <3>1. status' = [status EXCEPT ![j] = "QUEUED"]
      BY <1>2, <2>1, <2>a, <1>a DEF UploadReady
    <3>2. artifactOf' = artifactOf /\ flaggedOf' = flaggedOf
      BY <3>1, <2>1, <2>a, <2>b, <1>a DEF artifactOf, flaggedOf, TypeOK
    <3>3. remoteOf[j] = "awaiting_dataset" /\ remoteOf' = [remoteOf EXCEPT ![j] = "queued"]
      BY <3>1, <2>1, <2>a, <1>a, OneRow, RemoteStates DEF remoteOf
    <3> QED BY <3>2, <3>3, <2>b DEF Contract!Receive, Contract!Becomes, remoteOf, artifactOf, flaggedOf
  <2>2. CASE status[j] # "AWAITING"
    <3>1. status' = status
      BY <1>2, <2>2, <2>a, <1>a DEF UploadReady
    <3> QED BY <3>1, <2>b DEF Contract!contract
  <2> QED BY <2>1, <2>2
<1>3. ASSUME NEW j \in Jobs, Dispatch(j) PROVE Contract!Begin(j)
  <2>1. status[j] = "QUEUED" /\ status' = [status EXCEPT ![j] = "RUNNING"]
    BY <1>3 DEF Dispatch
  <2>2. j \notin cancel
    BY <2>1 DEF LinkInv, FlagsOnStarted, Unstarted
  <2>3. phase = "up" /\ UNCHANGED <<phase, archive, doomed, cancel>>
    BY <1>3 DEF Dispatch, life, disk
  <2>4. artifactOf' = artifactOf /\ flaggedOf' = flaggedOf
    BY <2>1, <2>2, <2>3, <1>a DEF artifactOf, flaggedOf, TypeOK
  <2>5. remoteOf[j] = "queued" /\ remoteOf' = [remoteOf EXCEPT ![j] = "running"]
    BY <2>1, <1>a, OneRow, RemoteStates DEF remoteOf
  <2> QED BY <2>3, <2>4, <2>5 DEF Contract!Begin, Contract!Becomes, remoteOf, artifactOf, flaggedOf
<1>4. ASSUME NEW j \in Jobs, RequestCancel(j)
      PROVE  Contract!RequestCancel(j) \/ UNCHANGED Contract!contract
  <2>1. /\ phase = "up" /\ UNCHANGED <<phase, archive, doomed>>
        /\ cancel' = cancel \cup {j}
    BY <1>4 DEF RequestCancel, LinkInv, QuietWhenNotUp, life, disk
  <2>2. CASE status[j] \in {"QUEUED", "AWAITING"}
    <3>1. status' = [status EXCEPT ![j] = "CANCELED"]
      BY <1>4, <2>2 DEF RequestCancel
    <3>2. artifactOf' = artifactOf /\ flaggedOf' = flaggedOf
      BY <3>1, <2>1, <2>2, <1>a DEF artifactOf, flaggedOf, TypeOK
    <3>3. remoteOf[j] \in {"awaiting_dataset", "queued"} /\ remoteOf' = [remoteOf EXCEPT ![j] = "canceled"]
      BY <3>1, <2>2, <1>a, OneRow, RemoteStates DEF remoteOf
    <3> QED BY <3>2, <3>3, <2>1 DEF Contract!RequestCancel, Contract!Becomes, remoteOf, artifactOf, flaggedOf
  <2>3. CASE status[j] = "RUNNING"
    <3>1. status' = status
      BY <1>4, <2>3 DEF RequestCancel, rows
    <3>2. artifactOf' = artifactOf /\ flaggedOf' = flaggedOf \cup {j} /\ remoteOf' = remoteOf
      BY <3>1, <2>1, <2>3 DEF artifactOf, flaggedOf, remoteOf
    <3>3. remoteOf[j] = "running"
      BY <2>3, RemoteStates DEF remoteOf
    <3> QED BY <3>2, <3>3, <2>1 DEF Contract!RequestCancel, remoteOf, artifactOf, flaggedOf
  <2>4. CASE status[j] \notin {"QUEUED", "AWAITING", "RUNNING"}
    <3>1. status' = status
      BY <1>4, <2>4 DEF RequestCancel, rows
    <3>2. flaggedOf' = flaggedOf
      BY <3>1, <2>1, <2>4 DEF flaggedOf
    <3> QED BY <3>1, <3>2, <2>1 DEF Contract!contract, flaggedOf
  <2> QED BY <2>2, <2>3, <2>4
<1>5. ASSUME NEW j \in Jobs, Finish(j) PROVE Contract!Complete(j) \/ Contract!Fail(j) \/ Contract!Cancel(j)
  <2>1. run[j] \in {"returned", "canceled", "failed"} /\ phase # "down"
    BY <1>5 DEF Finish, QueueInv, DownIsIdle
  <2>2. status[j] = "RUNNING" /\ status' = [status EXCEPT ![j] = Outcome(j)]
    BY <1>5, <2>1 DEF Finish, QueueInv, RowsMatchTasks
  <2>3. UNCHANGED <<phase, archive, doomed>> /\ cancel' = cancel \ {j}
    BY <1>5 DEF Finish, life
  <2>4. remoteOf[j] = "running"
    BY <2>2, RemoteStates DEF remoteOf
  <2>5. flaggedOf' = flaggedOf \ {j} /\ (j \in flaggedOf <=> j \in cancel)
    BY <2>2, <2>3, <1>a DEF flaggedOf, TypeOK
  <2>6. CASE run[j] = "returned" /\ j \notin cancel
    <3>1. Outcome(j) = "COMPLETED"
      BY <2>6 DEF Outcome
    <3>2. j \in archive /\ j \notin doomed
      BY <2>2, <2>6 DEF ArtifactInv, LinkInv, DoomedHasEnded, Terminal
    <3>3. artifactOf' = artifactOf \cup {j}
      BY <2>2, <2>3, <3>1, <3>2, <1>a DEF artifactOf, TypeOK
    <3>4. remoteOf' = [remoteOf EXCEPT ![j] = "completed"]
      BY <2>2, <3>1, <1>a, OneRow, RemoteStates DEF remoteOf
    <3>5. flaggedOf' = flaggedOf /\ j \notin flaggedOf
      BY <2>5, <2>6
    <3> QED BY <2>1, <2>3, <2>4, <3>3, <3>4, <3>5
            DEF Contract!Complete, Contract!Becomes, remoteOf, artifactOf, flaggedOf
  <2>7. ASSUME Outcome(j) \in {"FAILED", "CANCELED"} PROVE artifactOf' = artifactOf
    BY <2>7, <2>2, <2>3, <1>a DEF artifactOf, TypeOK
  <2>8. CASE run[j] = "failed" /\ j \notin cancel
    <3>1. Outcome(j) = "FAILED"
      BY <2>8 DEF Outcome
    <3>2. remoteOf' = [remoteOf EXCEPT ![j] = "failed"]
      BY <2>2, <3>1, <1>a, OneRow, RemoteStates DEF remoteOf
    <3>3. flaggedOf' = flaggedOf /\ j \notin flaggedOf
      BY <2>5, <2>8
    <3>4. artifactOf' = artifactOf
      BY <3>1, <2>7
    <3> QED BY <2>1, <2>3, <2>4, <3>2, <3>3, <3>4
            DEF Contract!Fail, Contract!Becomes, remoteOf, artifactOf, flaggedOf
  <2>9. CASE run[j] = "canceled" \/ j \in cancel
    <3>1. Outcome(j) = "CANCELED"
      BY <2>1, <2>9 DEF Outcome
    <3>2. remoteOf' = [remoteOf EXCEPT ![j] = "canceled"]
      BY <2>2, <3>1, <1>a, OneRow, RemoteStates DEF remoteOf
    <3>3. j \in flaggedOf \/ phase = "stopping"
      BY <2>5, <2>9 DEF LinkInv, CanceledWasTold, ShouldStop
    <3>4. artifactOf' = artifactOf
      BY <3>1, <2>7
    <3> QED BY <2>1, <2>3, <2>4, <2>5, <3>2, <3>3, <3>4
            DEF Contract!Cancel, Contract!Becomes, remoteOf, artifactOf, flaggedOf
  <2> QED BY <2>1, <2>6, <2>8, <2>9
<1>6. ASSUME NEW j \in Jobs, DeleteCheck(j) PROVE Contract!Withdraw(j) \/ UNCHANGED Contract!contract
  <2>1. /\ phase = "up" /\ UNCHANGED <<phase, archive, status, cancel>>
        /\ doomed' = doomed \cup {j}
    BY <1>6 DEF DeleteCheck, life, disk, rows, queue
  <2>2. artifactOf' = artifactOf \ {j} /\ flaggedOf' = flaggedOf /\ remoteOf' = remoteOf
    BY <2>1 DEF artifactOf, flaggedOf, remoteOf
  <2>3. CASE j \in artifactOf
    BY <2>1, <2>2, <2>3 DEF Contract!Withdraw, remoteOf, artifactOf, flaggedOf
  <2>4. CASE j \notin artifactOf
    <3>1. artifactOf' = artifactOf
      BY <2>2, <2>4
    <3> QED BY <2>1, <2>2, <3>1 DEF Contract!contract, remoteOf, artifactOf, flaggedOf
  <2> QED BY <2>3, <2>4
<1>7. ASSUME NEW j \in Jobs, DeleteRow(j) PROVE Contract!Remove(j)
  <2>1. /\ api[j] = "delete" /\ status' = [status EXCEPT ![j] = "DELETED"]
        /\ UNCHANGED <<phase, archive, doomed, cancel>>
    BY <1>7 DEF DeleteRow, life, disk, queue
  <2>2. phase # "down" /\ status[j] \in {"COMPLETED", "FAILED", "CANCELED"} /\ j \in doomed
    BY <2>1 DEF QueueInv, DownIsIdle, DeletesTerminal, Terminal
  <2>3. j \notin artifactOf /\ artifactOf' = artifactOf /\ flaggedOf' = flaggedOf
    BY <2>1, <2>2, <1>a DEF artifactOf, flaggedOf, TypeOK
  <2>4. /\ remoteOf[j] \in {"completed", "failed", "canceled"}
        /\ remoteOf' = [remoteOf EXCEPT ![j] = "gone"]
    BY <2>1, <2>2, <1>a, OneRow, RemoteStates DEF remoteOf
  <2> QED BY <2>1, <2>2, <2>3, <2>4
          DEF Contract!Remove, Contract!Becomes, Contract!Ended, remoteOf, artifactOf, flaggedOf
<1>8. ASSUME Shutdown PROVE Contract!Stop
  BY <1>8 DEF Shutdown, Contract!Stop, rows, disk, queue
<1>9. ASSUME FlagActive PROVE Contract!FlagRunning
  <2>1. active = {j \in Jobs : status[j] = "RUNNING"} /\ cancel \subseteq Jobs
    BY <1>9 DEF FlagActive, QueueInv, RowsMatchTasks, TypeOK
  <2>2. /\ phase = "stopping" /\ cancel' = cancel \cup active
        /\ UNCHANGED <<phase, status, archive, doomed>>
    BY <1>9 DEF FlagActive, rows, disk, life
  <2>3. flaggedOf' = {j \in Jobs : status[j] = "RUNNING"}
    BY <2>1, <2>2 DEF flaggedOf
  <2>4. \A j \in Jobs : RemoteState[status[j]] = "running" <=> status[j] = "RUNNING"
    BY <1>a, RemoteStates DEF Statuses, Terminal
  <2>5. flaggedOf' = {j \in Jobs : remoteOf[j] = "running"}
    BY <2>3, <2>4 DEF remoteOf
  <2> QED BY <2>2, <2>5 DEF Contract!FlagRunning, remoteOf, flaggedOf
<1>10. ASSUME Down PROVE Contract!Down
  BY <1>10 DEF Down, Contract!Down, disk
<1>11. ASSUME Start PROVE Contract!Start
  <2>1. /\ phase = "down" /\ phase' = "up" /\ cancel = {} /\ UNCHANGED <<archive, doomed, cancel>>
        /\ status' = [j \in Jobs |->
             IF status[j] \in {"RUNNING", "AWAITING"} THEN "FAILED" ELSE status[j]]
    BY <1>11 DEF Start, disk, queue, LinkInv, NoFlagWhenDown
  <2>2. flaggedOf' = flaggedOf
    BY <2>1 DEF flaggedOf
  <2>3. artifactOf' = artifactOf
    BY <2>1, <1>a DEF artifactOf, TypeOK
  <2>4. \A j \in Jobs : RemoteState[status[j]] \in {"running", "awaiting_dataset"}
                        <=> status[j] \in {"RUNNING", "AWAITING"}
    BY <1>a, RemoteStates DEF Statuses, Terminal
  <2>5. remoteOf' = [j \in Jobs |-> IF remoteOf[j] \in {"running", "awaiting_dataset"}
                                    THEN "failed" ELSE remoteOf[j]]
    BY <2>1, <2>4, RemoteStates DEF remoteOf
  <2> QED BY <2>1, <2>2, <2>3, <2>5 DEF Contract!Start, remoteOf, artifactOf, flaggedOf
<1>12. ASSUME NEW j \in Jobs, ArchiveModel(j) PROVE UNCHANGED Contract!contract
  <2>1. status[j] = "RUNNING"
    BY <1>12 DEF ArchiveModel, QueueInv, DownIsIdle, RowsMatchTasks
  <2>2. UNCHANGED <<status, phase, cancel, doomed>> /\ archive' = archive \cup {j}
    BY <1>12 DEF ArchiveModel, rows, life
  <2>3. artifactOf' = artifactOf
    BY <2>1, <2>2 DEF artifactOf
  <2> QED BY <2>2, <2>3 DEF Contract!contract, artifactOf
<1>13. ASSUME NEW j \in Jobs, DeleteFiles(j) PROVE UNCHANGED Contract!contract
  <2>1. j \in doomed
    BY <1>13 DEF DeleteFiles, QueueInv, DeletesTerminal
  <2>2. UNCHANGED <<status, phase, cancel, doomed>> /\ archive' = archive \ {j}
    BY <1>13 DEF DeleteFiles, rows, queue, life
  <2>3. artifactOf' = artifactOf
    BY <2>1, <2>2 DEF artifactOf
  <2> QED BY <2>2, <2>3 DEF Contract!contract, artifactOf
<1>14. ASSUME UNCHANGED <<status, archive, cancel, phase, doomed>> PROVE UNCHANGED Contract!contract
  BY <1>14 DEF Contract!contract
<1>15. ASSUME NEW j \in Jobs, CancelCheck(j) \/ RunJob(j) \/ TrainEnds(j)
       PROVE  UNCHANGED <<status, archive, cancel, phase, doomed>>
  BY <1>15 DEF CancelCheck, RunJob, TrainEnds, rows, disk, queue, life
<1>16. ASSUME NEW u \in Uploads, UploadCheck(u) \/ UploadDrops(u) \/ UploadOpen(u)
              \/ UploadChunk(u) \/ UploadExtract(u)
       PROVE  UNCHANGED <<status, archive, cancel, phase, doomed>>
  BY <1>16 DEF UploadCheck, UploadDrops, UploadOpen, UploadChunk, UploadExtract, rows, disk, queue, life
<1>17. ASSUME UNCHANGED vars PROVE UNCHANGED <<status, archive, cancel, phase, doomed>>
  BY <1>17 DEF vars, rows, disk, queue, life
<1>18. \A u \in Uploads : u[1] \in Jobs
  BY DEF Uploads
<1>19. CASE \E u \in Uploads : UploadCheck(u) \/ UploadDrops(u) \/ UploadStep(u)
  BY <1>19, <1>2, <1>14, <1>16, <1>18 DEF UploadStep, Contract!Next
<1>20. CASE \E j \in Jobs : SubmitJob(j) \/ CancelCheck(j) \/ RequestCancel(j)
                     \/ DeleteCheck(j) \/ DeleteFiles(j) \/ DeleteRow(j)
                     \/ Dispatch(j) \/ RunStep(j)
  BY <1>20, <1>1, <1>3, <1>4, <1>5, <1>6, <1>7, <1>12, <1>13, <1>14, <1>15 DEF RunStep, Contract!Next
<1>21. CASE Shutdown \/ FlagActive \/ Down \/ Start \/ UNCHANGED vars
  BY <1>21, <1>8, <1>9, <1>10, <1>11, <1>14, <1>17 DEF Contract!Next
<1> QED
  BY <1>19, <1>20, <1>21 DEF Next

(* The trainer service implements its contract with the Studio, for any     *)
(* number of jobs, slots, devices, uploads, chunks and restarts: every step *)
(* of a handler, an upload, the dispatch loop, a run, a crash or a restart  *)
(* is one step of the contract or changes nothing a Studio can see.         *)
THEOREM TrainerImplementsContract == Spec => ImplementsContract
<1> DEFINE Inv == QueueInv /\ ArtifactInv /\ LinkInv
<1>1. Init => Inv
  BY QueueInit, LinkInit DEF Init, ArtifactInv, ArtifactKept
<1>2. Inv /\ [Next]_vars => Inv'
  BY QueueStep, ArtifactStep, LinkStep
<1>3. Inv /\ [Next]_vars => [Contract!Next]_(Contract!contract)
  BY StepImplements
<1> HIDE DEF Inv
<1> QED BY <1>1, <1>2, <1>3, InitImplements, PTL DEF Spec, ImplementsContract, Contract!Spec
=============================================================================
