------------------------- MODULE TrainerQueueProofs -------------------------
(* Theorems about TrainerQueue for any number of jobs, slots, concurrent    *)
(* uploads, chunks and restarts, and any assignment of devices to jobs.     *)
EXTENDS TrainerQueue, FiniteSetTheorems, SequenceTheorems, TLAPS

UploadState == [pc : {"idle", "checked", "stream", "ready"},
                next : Nat \ {0}, append : BOOLEAN, linked : BOOLEAN]

LEMMA NoUploadType == NoUpload \in UploadState
<1>1. FALSE \in BOOLEAN /\ TRUE \in BOOLEAN
  BY Zenon
<1>2. 1 \in Nat \ {0}
  BY ConstantsAssumption DEF ConstantsAssumption
<1> QED BY <1>1, <1>2 DEF NoUpload, UploadState

(* Changing one request, and then unlinking the staged file of its job,     *)
(* leaves every request well formed.                                        *)
LEMMA UnlinkedType ==
  ASSUME NEW up \in [Uploads -> UploadState], NEW j
  PROVE  Unlinked(up, j) \in [Uploads -> UploadState]
<1>1. ASSUME NEW v \in UploadState PROVE [v EXCEPT !.linked = FALSE] \in UploadState
  <2>1. FALSE \in BOOLEAN
    BY Zenon
  <2> QED BY <2>1 DEF UploadState
<1> QED BY <1>1 DEF Unlinked

(* Writing a chunk inside a file, at its end or past it yields a file.      *)
LEMMA WrittenType ==
  ASSUME NEW file \in Seq(Nat), NEW at \in Nat \ {0}, NEW chunk \in Nat
  PROVE  Written(file, at, chunk) \in Seq(Nat)
<1> DEFINE n == IF at > Len(file) THEN at ELSE Len(file)
<1>1. n \in Nat
  OBVIOUS
<1>2. 0 \in Nat
  BY ConstantsAssumption DEF ConstantsAssumption
<1>3. Written(file, at, chunk) = [i \in 1..n |->
        IF i = at THEN chunk ELSE IF i <= Len(file) THEN file[i] ELSE 0]
  BY DEF Written
<1> HIDE DEF n
<1>4. ASSUME NEW i \in 1..n, i <= Len(file) PROVE file[i] \in Nat
  <2>1. i \in 1..Len(file)
    BY <1>1, <1>4
  <2> QED BY <2>1, ElementOfSeq
<1>5. Written(file, at, chunk) \in [1..n -> Nat]
  BY <1>2, <1>3, <1>4
<1> QED BY <1>1, <1>5, SeqDef

LEMMA TypeInit == Init => TypeOK
<1> SUFFICES ASSUME Init PROVE TypeOK
  OBVIOUS
<1>1. upload \in [Uploads -> UploadState]
  BY NoUploadType DEF Init
<1>2. restarts \in 0..MaxRestarts
  BY ConstantsAssumption DEF ConstantsAssumption, Init
<1> QED BY <1>1, <1>2 DEF Init, TypeOK, Statuses, UploadState

(* Every step of the service keeps the types.                               *)
LEMMA TypeStep == TypeOK /\ [Next]_vars => TypeOK'
<1> SUFFICES ASSUME TypeOK, [Next]_vars PROVE TypeOK'
  OBVIOUS
<1> USE ConstantsAssumption DEF ConstantsAssumption
<1>a. {"AWAITING", "QUEUED", "RUNNING", "COMPLETED", "FAILED", "CANCELED", "DELETED"} \subseteq Statuses
  BY DEF Statuses, Terminal
<1>b. \A u \in Uploads : u[1] \in Jobs
  BY DEF Uploads
<1>c. upload \in [Uploads -> UploadState]
  BY DEF TypeOK, UploadState
<1>d. ASSUME upload' \in [Uploads -> UploadState]
      PROVE  upload' \in [Uploads -> [pc : {"idle", "checked", "stream", "ready"},
                             next : Nat \ {0}, append : BOOLEAN, linked : BOOLEAN]]
  BY <1>d DEF UploadState
<1>e. ASSUME NEW u \in Uploads, NEW v \in UploadState
      PROVE  [upload EXCEPT ![u] = v] \in [Uploads -> UploadState]
  BY <1>c
<1>f. ASSUME NEW u \in Uploads
      PROVE  Unlinked([upload EXCEPT ![u] = NoUpload], u[1]) \in [Uploads -> UploadState]
  BY <1>e, NoUploadType, UnlinkedType
<1>g. \A j \in Jobs : [part EXCEPT ![j] = <<>>] \in [Jobs -> Seq(Nat)]
  BY EmptySeq DEF TypeOK
<1>h. part \in [Jobs -> Seq(Nat)] /\ status \in [Jobs -> Statuses]
  BY DEF TypeOK
<1>1. ASSUME NEW j \in Jobs, SubmitJob(j) PROVE TypeOK'
  BY <1>1, <1>a DEF TypeOK, SubmitJob, disk, queue, life
<1>2. ASSUME NEW u \in Uploads, UploadCheck(u) PROVE TypeOK'
  <2>1. upload' \in [Uploads -> UploadState]
    BY <1>2, <1>c DEF UploadCheck, UploadState
  <2>2. overlapped' \in SUBSET Jobs
    BY <1>2, <1>b DEF TypeOK, UploadCheck
  <2> QED BY <1>2, <2>1, <2>2, <1>d DEF TypeOK, UploadCheck, rows, disk, queue, life
<1>3. ASSUME NEW u \in Uploads, UploadOpen(u) PROVE TypeOK'
  <2>1. upload' \in [Uploads -> UploadState]
    <3>1. CASE /\ Len(part[u[1]]) < Chunks[u[1]]
               /\ upload' = [upload EXCEPT ![u] = [pc |-> "stream", next |-> Len(part[u[1]]) + 1,
                                   append |-> part[u[1]] # <<>>, linked |-> TRUE]]
      <4>1. Len(part[u[1]]) + 1 \in Nat \ {0}
        BY <3>1, <1>b DEF TypeOK
      <4>2. (part[u[1]] # <<>>) \in BOOLEAN /\ TRUE \in BOOLEAN
        OBVIOUS
      <4>3. [pc |-> "stream", next |-> Len(part[u[1]]) + 1,
             append |-> part[u[1]] # <<>>, linked |-> TRUE] \in UploadState
        BY <4>1, <4>2 DEF UploadState
      <4> QED BY <3>1, <4>3, <1>e
    <3>2. CASE upload' = Unlinked([upload EXCEPT ![u] = NoUpload], u[1])
      BY <3>2, <1>f
    <3> QED BY <1>3, <3>1, <3>2 DEF UploadOpen
  <2>2. part' \in [Jobs -> Seq(Nat)] /\ dataset' \in SUBSET Jobs
    <3>1. /\ part' = part \/ part' = [part EXCEPT ![u[1]] = <<>>]
          /\ dataset' \in {dataset, dataset \cup {u[1]}, dataset \ {u[1]}}
      BY <1>3 DEF UploadOpen
    <3>2. u[1] \in Jobs
      BY <1>b
    <3>3. part' \in [Jobs -> Seq(Nat)]
      <4>1. [part EXCEPT ![u[1]] = <<>>] \in [Jobs -> Seq(Nat)]
        BY <3>2, <1>g
      <4>2. CASE part' = part
        BY <4>2, <1>h
      <4>3. CASE part' = [part EXCEPT ![u[1]] = <<>>]
        BY <4>1, <4>3
      <4> QED BY <3>1, <4>2, <4>3
    <3>4. dataset' \in SUBSET Jobs
      BY <3>1, <3>2 DEF TypeOK
    <3> QED BY <3>3, <3>4
  <2> QED BY <1>3, <2>1, <2>2, <1>d DEF TypeOK, UploadOpen, rows, queue, life
<1>4. ASSUME NEW u \in Uploads, UploadChunk(u) PROVE TypeOK'
  <2>1. upload[u].next \in Nat \ {0}
    BY <1>4, <1>c DEF UploadChunk, UploadState
  <2>2. upload' \in [Uploads -> UploadState]
    BY <1>4, <1>c, <2>1 DEF UploadChunk, UploadState
  <2>3. ASSUME NEW k \in Nat \ {0}
        PROVE  Written(part[u[1]], k, upload[u].next) \in Seq(Nat)
    <3>1. part[u[1]] \in Seq(Nat) /\ upload[u].next \in Nat
      BY <2>1, <1>b DEF TypeOK
    <3> QED BY <3>1, WrittenType
  <2>4. part' \in [Jobs -> Seq(Nat)]
    <3> DEFINE at == IF upload[u].append THEN Len(part[u[1]]) + 1 ELSE upload[u].next
    <3>1. at \in Nat \ {0}
      BY <2>1, <1>b DEF TypeOK
    <3>2. part' = part \/ part' = [part EXCEPT ![u[1]] = Written(part[u[1]], at, upload[u].next)]
      BY <1>4 DEF UploadChunk
    <3> HIDE DEF at
    <3> QED BY <3>1, <3>2, <2>3, <1>b DEF TypeOK
  <2> QED BY <1>4, <2>2, <2>4, <1>d DEF TypeOK, UploadChunk, rows, queue, life
<1>5. ASSUME NEW u \in Uploads, UploadDrops(u) PROVE TypeOK'
  <2>1. upload' \in [Uploads -> UploadState]
    BY <1>5, <1>e, NoUploadType DEF UploadDrops
  <2> QED BY <1>5, <2>1, <1>d DEF TypeOK, UploadDrops, rows, disk, queue, life
<1>6. ASSUME NEW u \in Uploads, UploadExtract(u) PROVE TypeOK'
  <2>1. [upload EXCEPT ![u] = [NoUpload EXCEPT !.pc = "ready"]] \in [Uploads -> UploadState]
    <3>1. [NoUpload EXCEPT !.pc = "ready"] \in UploadState
      BY NoUploadType DEF UploadState
    <3> QED BY <3>1, <1>c
  <2>2. upload' \in [Uploads -> UploadState]
    BY <1>6, <1>e, <1>f, <2>1, NoUploadType DEF UploadExtract
  <2>3. part' \in [Jobs -> Seq(Nat)] /\ dataset' \in SUBSET Jobs
    <3>1. /\ part' = part \/ part' = [part EXCEPT ![u[1]] = <<>>]
          /\ dataset' \in {dataset, dataset \cup {u[1]}, dataset \ {u[1]}}
      BY <1>6 DEF UploadExtract
    <3>2. u[1] \in Jobs
      BY <1>b
    <3>3. part' \in [Jobs -> Seq(Nat)]
      <4>1. [part EXCEPT ![u[1]] = <<>>] \in [Jobs -> Seq(Nat)]
        BY <3>2, <1>g
      <4>2. CASE part' = part
        BY <4>2, <1>h
      <4>3. CASE part' = [part EXCEPT ![u[1]] = <<>>]
        BY <4>1, <4>3
      <4> QED BY <3>1, <4>2, <4>3
    <3>4. dataset' \in SUBSET Jobs
      BY <3>1, <3>2 DEF TypeOK
    <3> QED BY <3>3, <3>4
  <2> QED BY <1>6, <2>2, <2>3, <1>d DEF TypeOK, UploadExtract, rows, queue, life
<1>7. ASSUME NEW u \in Uploads, UploadReady(u) PROVE TypeOK'
  <2>1. upload' \in [Uploads -> UploadState]
    BY <1>7, <1>f DEF UploadReady
  <2>2. status' \in [Jobs -> Statuses]
    BY <1>7, <1>a, <1>b DEF TypeOK, UploadReady
  <2>3. part' \in [Jobs -> Seq(Nat)] /\ dataset' \in SUBSET Jobs
    BY <1>7, <1>b, <1>g DEF TypeOK, UploadReady
  <2> QED BY <1>7, <2>1, <2>2, <2>3, <1>d DEF TypeOK, UploadReady, queue, life
<1>8. ASSUME NEW j \in Jobs, CancelCheck(j) \/ RequestCancel(j) PROVE TypeOK'
  <2>1. CASE CancelCheck(j)
    BY <2>1 DEF TypeOK, CancelCheck, rows, disk, queue, life
  <2>2. CASE RequestCancel(j)
    <3>1. status' \in [Jobs -> Statuses] /\ secret' \in [Jobs -> {"none", "cached", "taken"}]
      <4>1. \/ status' = [status EXCEPT ![j] = "CANCELED"] /\ secret' = [secret EXCEPT ![j] = "none"]
            \/ status' = status /\ secret' = secret
        BY <2>2 DEF RequestCancel, rows
      <4>2. status' \in [Jobs -> Statuses]
        BY <4>1, <1>a, <1>h
      <4>3. secret' \in [Jobs -> {"none", "cached", "taken"}]
        BY <4>1 DEF TypeOK
      <4> QED BY <4>2, <4>3
    <3>2. cancel' \in SUBSET Jobs /\ api' \in [Jobs -> {"idle", "cancel", "remove", "delete"}]
      BY <2>2 DEF TypeOK, RequestCancel
    <3> QED BY <2>2, <3>1, <3>2 DEF TypeOK, RequestCancel, disk, life
  <2> QED BY <1>8, <2>1, <2>2
<1>9. ASSUME NEW j \in Jobs, DeleteCheck(j) \/ DeleteFiles(j) \/ DeleteRow(j) PROVE TypeOK'
  <2>1. CASE DeleteCheck(j)
    BY <2>1 DEF TypeOK, DeleteCheck, rows, disk, queue, life
  <2>2. CASE DeleteFiles(j)
    BY <2>2 DEF TypeOK, DeleteFiles, rows, queue, life
  <2>3. CASE DeleteRow(j)
    BY <2>3, <1>a DEF TypeOK, DeleteRow, disk, queue, life
  <2> QED BY <1>9, <2>1, <2>2, <2>3
<1>10. ASSUME NEW j \in Jobs, Dispatch(j) PROVE TypeOK'
  BY <1>10, <1>a DEF TypeOK, Dispatch, disk, life
<1>11. ASSUME NEW j \in Jobs, RunJob(j) \/ TrainEnds(j) \/ ArchiveModel(j) PROVE TypeOK'
  <2>1. CASE RunJob(j)
    BY <2>1 DEF TypeOK, RunJob, life
  <2>2. CASE TrainEnds(j)
    BY <2>2 DEF TypeOK, TrainEnds, rows, life
  <2>3. CASE ArchiveModel(j)
    BY <2>3 DEF TypeOK, ArchiveModel, rows, life
  <2> QED BY <1>11, <2>1, <2>2, <2>3
<1>12. ASSUME NEW j \in Jobs, Finish(j) PROVE TypeOK'
  <2>1. Outcome(j) \in Statuses
    BY <1>12, <1>a DEF Finish, Outcome
  <2> QED BY <1>12, <2>1 DEF TypeOK, Finish, life
<1>13. CASE Shutdown \/ FlagActive
  BY <1>13 DEF TypeOK, Shutdown, FlagActive, rows, disk, queue, life
<1>14. CASE Down
  <2>1. upload' \in [Uploads -> UploadState]
    BY <1>14, NoUploadType DEF Down
  <2> QED BY <1>14, <2>1, <1>d DEF TypeOK, Down, disk
<1>15. CASE Start
  BY <1>15, <1>a DEF TypeOK, Start, disk, queue
<1>16. CASE UNCHANGED vars
  BY <1>16 DEF TypeOK, vars, rows, disk, queue, life
<1> QED
  BY <1>1, <1>2, <1>3, <1>4, <1>5, <1>6, <1>7, <1>8, <1>9, <1>10, <1>11, <1>12,
     <1>13, <1>14, <1>15, <1>16 DEF Next, UploadStep, RunStep

(* TypeOK holds always: the rows, requests, files and bookkeeping of the    *)
(* trainer stay in the values the handlers, the loop and the runs expect.   *)
THEOREM TrainerTypeCorrect == Spec => []TypeOK
BY TypeInit, TypeStep, PTL DEF Spec

-----------------------------------------------------------------------------
(* What the rows, the requests and the tasks know of each other.  A service *)
(* that is down has no task, and a deletion in flight is of a job that      *)
(* ended: without the two RowsMatchTasks is not kept by Start and DeleteRow.*)
DownIsIdle == phase = "down" => active = {} /\ \A j \in Jobs : run[j] = "none" /\ api[j] = "idle"

DeletesTerminal ==
  \A j \in Jobs : api[j] \in {"remove", "delete"} => status[j] \in Terminal /\ j \in doomed

QueueInv == TypeOK /\ DownIsIdle /\ DeletesTerminal /\ RowsMatchTasks

LEMMA QueueInit == Init => QueueInv
<1> SUFFICES ASSUME Init PROVE QueueInv
  OBVIOUS
<1>1. DownIsIdle /\ DeletesTerminal /\ RowsMatchTasks
  BY DEF Init, DownIsIdle, DeletesTerminal, RowsMatchTasks
<1> QED BY <1>1, TypeInit DEF QueueInv

LEMMA QueueStep == QueueInv /\ [Next]_vars => QueueInv'
<1> SUFFICES ASSUME QueueInv, [Next]_vars PROVE (DownIsIdle /\ DeletesTerminal /\ RowsMatchTasks)'
  BY TypeStep DEF QueueInv
<1> USE DEF QueueInv, TypeOK, DownIsIdle, DeletesTerminal, RowsMatchTasks
<1>a. {"NONE", "AWAITING", "QUEUED", "RUNNING", "DELETED"} \cap Terminal = {}
  BY DEF Terminal
<1>b. \A u \in Uploads : u[1] \in Jobs
  BY DEF Uploads
<1>1. ASSUME NEW j \in Jobs, SubmitJob(j) PROVE (DownIsIdle /\ DeletesTerminal /\ RowsMatchTasks)'
  BY <1>1, <1>a DEF SubmitJob, queue, life
<1>2. ASSUME NEW u \in Uploads, UploadCheck(u) \/ UploadOpen(u) \/ UploadChunk(u)
             \/ UploadDrops(u) \/ UploadExtract(u)
      PROVE (DownIsIdle /\ DeletesTerminal /\ RowsMatchTasks)'
  <2>1. UNCHANGED <<rows, api, queue, life, doomed>>
    BY <1>2 DEF UploadCheck, UploadOpen, UploadChunk, UploadDrops, UploadExtract
  <2> QED BY <2>1 DEF rows, queue, life
<1>3. ASSUME NEW u \in Uploads, UploadReady(u) PROVE (DownIsIdle /\ DeletesTerminal /\ RowsMatchTasks)'
  <2>1. u[1] \in Jobs
    BY <1>b
  <2> QED BY <1>3, <2>1, <1>a DEF UploadReady, queue, life
<1>4. ASSUME NEW j \in Jobs, CancelCheck(j) PROVE (DownIsIdle /\ DeletesTerminal /\ RowsMatchTasks)'
  BY <1>4 DEF CancelCheck, rows, queue, life
<1>5. ASSUME NEW j \in Jobs, RequestCancel(j) PROVE (DownIsIdle /\ DeletesTerminal /\ RowsMatchTasks)'
  <2>1. CASE status[j] \in {"QUEUED", "AWAITING"}
    BY <1>5, <2>1, <1>a DEF RequestCancel, life
  <2>2. CASE status[j] \notin {"QUEUED", "AWAITING"}
    BY <1>5, <2>2 DEF RequestCancel, rows, life
  <2> QED BY <2>1, <2>2
<1>6. ASSUME NEW j \in Jobs, DeleteCheck(j) PROVE (DownIsIdle /\ DeletesTerminal /\ RowsMatchTasks)'
  BY <1>6 DEF DeleteCheck, rows, queue, life
<1>7. ASSUME NEW j \in Jobs, DeleteFiles(j) PROVE (DownIsIdle /\ DeletesTerminal /\ RowsMatchTasks)'
  BY <1>7 DEF DeleteFiles, rows, queue, life
<1>8. ASSUME NEW j \in Jobs, DeleteRow(j) PROVE (DownIsIdle /\ DeletesTerminal /\ RowsMatchTasks)'
  BY <1>8, <1>a DEF DeleteRow, queue, life
<1>9. ASSUME NEW j \in Jobs, Dispatch(j) PROVE (DownIsIdle /\ DeletesTerminal /\ RowsMatchTasks)'
  BY <1>9, <1>a DEF Dispatch, life
<1>10. ASSUME NEW j \in Jobs, RunJob(j) \/ TrainEnds(j) \/ ArchiveModel(j)
       PROVE (DownIsIdle /\ DeletesTerminal /\ RowsMatchTasks)'
  <2>1. /\ UNCHANGED <<status, api, active, life, doomed>>
        /\ run[j] # "none"
        /\ \E v : v # "none" /\ run' = [run EXCEPT ![j] = v]
    BY <1>10 DEF RunJob, TrainEnds, ArchiveModel, rows
  <2> QED BY <2>1 DEF life
<1>11. ASSUME NEW j \in Jobs, Finish(j) PROVE (DownIsIdle /\ DeletesTerminal /\ RowsMatchTasks)'
  <2>1. Outcome(j) \in Terminal
    BY <1>11 DEF Finish, Outcome, Terminal
  <2> QED BY <1>11, <2>1, <1>a DEF Finish, life
<1>12. CASE Shutdown \/ FlagActive
  BY <1>12 DEF Shutdown, FlagActive, rows, queue, life
<1>13. CASE Down
  BY <1>13 DEF Down
<1>14. CASE Start
  BY <1>14 DEF Start, queue
<1>15. CASE UNCHANGED vars
  BY <1>15 DEF vars, rows, queue, life
<1> QED
  BY <1>1, <1>2, <1>3, <1>4, <1>5, <1>6, <1>7, <1>8, <1>9, <1>10, <1>11, <1>12,
     <1>13, <1>14, <1>15 DEF Next, UploadStep, RunStep

(* While the trainer is up a row is RUNNING exactly when a task of the      *)
(* dispatch loop runs that job, for any number of jobs, uploads, requests   *)
(* and restarts.                                                            *)
THEOREM RowsAlwaysMatchTasks == Spec => []RowsMatchTasks
<1>1. QueueInv => RowsMatchTasks
  BY DEF QueueInv
<1> QED BY <1>1, QueueInit, QueueStep, PTL DEF Spec

-----------------------------------------------------------------------------
(* Any set of jobs is finite, so slots can be counted.                      *)
LEMMA ActiveFinite == TypeOK => IsFiniteSet(active) /\ Cardinality(active) \in Nat
<1> SUFFICES ASSUME TypeOK PROVE IsFiniteSet(active) /\ Cardinality(active) \in Nat
  OBVIOUS
<1>1. IsFiniteSet(1..NumJobs)
  BY FS_Interval, ConstantsAssumption DEF ConstantsAssumption
<1>2. active \in SUBSET (1..NumJobs)
  BY DEF TypeOK, Jobs
<1> QED BY <1>1, <1>2, FS_Subset, FS_CardinalityType

LEMMA DevicesStep == TypeOK /\ DevicesExclusive /\ [Next]_vars => DevicesExclusive'
<1> SUFFICES ASSUME TypeOK, DevicesExclusive, [Next]_vars PROVE DevicesExclusive'
  OBVIOUS
<1>a. IsFiniteSet(active) /\ Cardinality(active) \in Nat /\ MaxConcurrent \in Nat
  BY ActiveFinite, ConstantsAssumption DEF ConstantsAssumption
<1>1. ASSUME NEW j \in Jobs, Dispatch(j) PROVE DevicesExclusive'
  <2>1. Cardinality(active') <= MaxConcurrent
    <3>1. Cardinality(active \cup {j}) =
            IF j \in active THEN Cardinality(active) ELSE Cardinality(active) + 1
      BY <1>a, FS_AddElement
    <3> QED BY <1>1, <1>a, <3>1 DEF Dispatch
  <2>2. ASSUME NEW a \in active', NEW b \in active', a # b
        PROVE  Device[a] # Device[b] /\ AnyDevice \notin {Device[a], Device[b]}
    <3>1. active' = active \cup {j} /\ ~Reserved(j)
      BY <1>1 DEF Dispatch
    <3>2. CASE a \in active /\ b \in active
      BY <3>2, <2>2 DEF DevicesExclusive
    <3>3. CASE a = j \/ b = j
      BY <3>1, <3>3, <2>2 DEF Reserved
    <3> QED BY <3>1, <3>2, <3>3
  <2> QED BY <2>1, <2>2 DEF DevicesExclusive
<1>2. ASSUME NEW j \in Jobs, Finish(j) PROVE DevicesExclusive'
  <2>1. active' = active \ {j}
    BY <1>2 DEF Finish
  <2>2. Cardinality(active') <= Cardinality(active) /\ Cardinality(active') \in Nat
    BY <2>1, <1>a, FS_Subset, FS_CardinalityType
  <2> QED BY <2>1, <2>2, <1>a DEF DevicesExclusive
<1>3. CASE Down
  BY <1>3, <1>a, FS_EmptySet DEF Down, DevicesExclusive
<1>4. CASE UNCHANGED active
  BY <1>4 DEF DevicesExclusive
<1>5. ASSUME NEW u \in Uploads, UploadCheck(u) \/ UploadDrops(u) \/ UploadStep(u)
      PROVE  UNCHANGED active
  BY <1>5 DEF UploadCheck, UploadDrops, UploadStep, UploadOpen, UploadChunk, UploadExtract,
     UploadReady, queue
<1>6. ASSUME NEW j \in Jobs, SubmitJob(j) \/ CancelCheck(j) \/ RequestCancel(j)
             \/ DeleteCheck(j) \/ DeleteFiles(j) \/ DeleteRow(j)
             \/ RunJob(j) \/ TrainEnds(j) \/ ArchiveModel(j)
      PROVE  UNCHANGED active
  BY <1>6 DEF SubmitJob, CancelCheck, RequestCancel, DeleteCheck, DeleteFiles, DeleteRow,
     RunJob, TrainEnds, ArchiveModel, queue
<1>7. ASSUME Shutdown \/ FlagActive \/ Start \/ UNCHANGED vars PROVE UNCHANGED active
  BY <1>7 DEF Shutdown, FlagActive, Start, vars, queue
<1> QED BY <1>1, <1>2, <1>3, <1>4, <1>5, <1>6, <1>7 DEF Next, RunStep

(* Concurrent runs never share a device, a run on an automatic device has   *)
(* the trainer to itself and the slots are never exceeded, for any number   *)
(* of jobs and slots and any devices.                                       *)
THEOREM DevicesAlwaysExclusive == Spec => []DevicesExclusive
<1>1. Init => DevicesExclusive
  BY FS_EmptySet, ConstantsAssumption DEF ConstantsAssumption, Init, DevicesExclusive
<1> QED BY <1>1, DevicesStep, TypeInit, TypeStep, PTL DEF Spec

-----------------------------------------------------------------------------
(* The steps that write rows: which they write, and to what.                *)
TerminalStep ==
  \A j \in Jobs : status[j] \in Terminal \cup {"DELETED"} => status'[j] \in {status[j], "DELETED"}

LEMMA TerminalKept == QueueInv /\ [Next]_vars => TerminalStep
<1> SUFFICES ASSUME QueueInv, [Next]_vars PROVE TerminalStep
  OBVIOUS
<1> USE DEF TerminalStep
<1>a. {"NONE", "AWAITING", "QUEUED", "RUNNING"} \cap (Terminal \cup {"DELETED"}) = {}
  BY DEF Terminal
<1>b. status \in [Jobs -> Statuses]
  BY DEF QueueInv, TypeOK
<1>1. ASSUME NEW j \in Jobs, SubmitJob(j) \/ Dispatch(j) PROVE TerminalStep
  BY <1>1, <1>a, <1>b DEF SubmitJob, Dispatch
<1>2. ASSUME NEW u \in Uploads, UploadReady(u) PROVE TerminalStep
  <2>1. u[1] \in Jobs
    BY DEF Uploads
  <2> QED BY <1>2, <2>1, <1>a, <1>b DEF UploadReady
<1>3. ASSUME NEW j \in Jobs, RequestCancel(j) PROVE TerminalStep
  BY <1>3, <1>a, <1>b DEF RequestCancel, rows
<1>4. ASSUME NEW j \in Jobs, DeleteRow(j) PROVE TerminalStep
  BY <1>4, <1>b DEF DeleteRow
<1>5. ASSUME NEW j \in Jobs, Finish(j) PROVE TerminalStep
  <2>1. run[j] # "none"
    BY <1>5 DEF Finish
  <2>2. phase # "down"
    BY <2>1 DEF QueueInv, DownIsIdle
  <2>3. status[j] = "RUNNING"
    BY <2>1, <2>2 DEF QueueInv, RowsMatchTasks
  <2> QED BY <1>5, <2>3, <1>a, <1>b DEF Finish
<1>6. CASE Start
  BY <1>6, <1>a, <1>b DEF Start
<1>7. ASSUME UNCHANGED status PROVE TerminalStep
  BY <1>7
<1>8. ASSUME NEW u \in Uploads, UploadCheck(u) \/ UploadDrops(u) \/ UploadOpen(u)
             \/ UploadChunk(u) \/ UploadExtract(u)
      PROVE  UNCHANGED status
  BY <1>8 DEF UploadCheck, UploadDrops, UploadOpen, UploadChunk, UploadExtract, rows
<1>9. ASSUME NEW j \in Jobs, CancelCheck(j) \/ DeleteCheck(j) \/ DeleteFiles(j)
             \/ RunJob(j) \/ TrainEnds(j) \/ ArchiveModel(j)
      PROVE  UNCHANGED status
  BY <1>9 DEF CancelCheck, DeleteCheck, DeleteFiles, RunJob, TrainEnds, ArchiveModel, rows
<1>10. ASSUME Shutdown \/ FlagActive \/ Down \/ UNCHANGED vars PROVE UNCHANGED status
  BY <1>10 DEF Shutdown, FlagActive, Down, vars, rows
<1> QED
  BY <1>1, <1>2, <1>3, <1>4, <1>5, <1>6, <1>7, <1>8, <1>9, <1>10
  DEF Next, UploadStep, RunStep

(* A job that ended stays as it ended until it is deleted: neither a late   *)
(* upload nor a late cancellation, run or restart writes its row again.     *)
THEOREM TerminalRowsAreFinal == Spec => TerminalIsFinal
<1>1. QueueInv /\ [Next]_vars => [TerminalStep]_vars
  BY TerminalKept
<1> QED BY <1>1, QueueInit, QueueStep, PTL DEF Spec, TerminalIsFinal, TerminalStep

-----------------------------------------------------------------------------
(* The archive of a run that returned is on disk before its row says so.    *)
ArtifactInv == ArtifactKept /\ \A j \in Jobs : run[j] = "returned" => j \in archive

LEMMA ArtifactStep == QueueInv /\ ArtifactInv /\ [Next]_vars => ArtifactInv'
<1> SUFFICES ASSUME QueueInv, ArtifactInv, [Next]_vars PROVE ArtifactInv'
  OBVIOUS
<1>a. status \in [Jobs -> Statuses] /\ doomed \subseteq Jobs /\ archive \subseteq Jobs
  BY DEF QueueInv, TypeOK
<1>b. run \in [Jobs -> {"none", "start", "train", "archive", "returned", "canceled", "failed"}]
  BY DEF QueueInv, TypeOK
<1> USE DEF ArtifactInv, ArtifactKept
<1>1. ASSUME NEW j \in Jobs, SubmitJob(j) PROVE ArtifactInv'
  BY <1>1, <1>a DEF SubmitJob, disk, queue
<1>2. ASSUME NEW u \in Uploads, UploadCheck(u) \/ UploadDrops(u) \/ UploadOpen(u)
             \/ UploadChunk(u) \/ UploadExtract(u)
      PROVE ArtifactInv'
  <2>1. UNCHANGED <<status, archive, run, doomed>>
    BY <1>2 DEF UploadCheck, UploadDrops, UploadOpen, UploadChunk, UploadExtract, rows, disk, queue
  <2> QED BY <2>1
<1>3. ASSUME NEW u \in Uploads, UploadReady(u) PROVE ArtifactInv'
  <2>1. u[1] \in Jobs
    BY DEF Uploads
  <2> QED BY <1>3, <2>1, <1>a DEF UploadReady, queue
<1>4. ASSUME NEW j \in Jobs, CancelCheck(j) \/ DeleteCheck(j) PROVE ArtifactInv'
  BY <1>4 DEF CancelCheck, DeleteCheck, rows, disk, queue
<1>5. ASSUME NEW j \in Jobs, RequestCancel(j) PROVE ArtifactInv'
  BY <1>5, <1>a DEF RequestCancel, rows, disk
<1>6. ASSUME NEW j \in Jobs, DeleteFiles(j) PROVE ArtifactInv'
  <2>1. j \in doomed /\ status[j] \in Terminal /\ phase # "down"
    BY <1>6 DEF DeleteFiles, QueueInv, DeletesTerminal, DownIsIdle
  <2>2. run[j] = "none"
    BY <2>1 DEF QueueInv, RowsMatchTasks, Terminal
  <2> QED BY <1>6, <2>1, <2>2 DEF DeleteFiles, rows, queue
<1>7. ASSUME NEW j \in Jobs, DeleteRow(j) PROVE ArtifactInv'
  BY <1>7, <1>a DEF DeleteRow, disk, queue
<1>8. ASSUME NEW j \in Jobs, Dispatch(j) PROVE ArtifactInv'
  BY <1>8, <1>a, <1>b DEF Dispatch, disk
<1>9. ASSUME NEW j \in Jobs, RunJob(j) PROVE ArtifactInv'
  BY <1>9, <1>b DEF RunJob
<1>10. ASSUME NEW j \in Jobs, TrainEnds(j) PROVE ArtifactInv'
  BY <1>10, <1>b DEF TrainEnds, rows
<1>11. ASSUME NEW j \in Jobs, ArchiveModel(j) PROVE ArtifactInv'
  BY <1>11, <1>b DEF ArchiveModel, rows
<1>12. ASSUME NEW j \in Jobs, Finish(j) PROVE ArtifactInv'
  <2>1. Outcome(j) = "COMPLETED" => run[j] = "returned"
    BY <1>12 DEF Finish, Outcome
  <2> QED BY <1>12, <2>1, <1>a, <1>b DEF Finish
<1>13. CASE Shutdown \/ FlagActive
  BY <1>13 DEF Shutdown, FlagActive, rows, disk, queue
<1>14. CASE Down
  BY <1>14 DEF Down, disk
<1>15. CASE Start
  BY <1>15, <1>a DEF Start, disk, queue
<1>16. CASE UNCHANGED vars
  BY <1>16 DEF vars, rows, disk, queue
<1> QED
  BY <1>1, <1>2, <1>3, <1>4, <1>5, <1>6, <1>7, <1>8, <1>9, <1>10, <1>11, <1>12,
     <1>13, <1>14, <1>15, <1>16 DEF Next, UploadStep, RunStep

(* A COMPLETED job whose deletion nobody asked for has its model archive,   *)
(* whatever uploads, cancellations, crashes and restarts came after.        *)
THEOREM ArtifactsAreKept == Spec => []ArtifactKept
<1>1. Init => ArtifactInv
  BY DEF Init, ArtifactInv, ArtifactKept
<1>2. ArtifactInv => ArtifactKept
  BY DEF ArtifactInv
<1> QED BY <1>1, <1>2, ArtifactStep, QueueInit, QueueStep, PTL DEF Spec

-----------------------------------------------------------------------------
CancelStep ==
  \A j \in Jobs : j \in cancel /\ status[j] = "RUNNING" => status'[j] # "COMPLETED"

(* Only the end of a run writes COMPLETED, and it looks at the flag last.   *)
LEMMA CancelKept == TypeOK /\ [Next]_vars => CancelStep
<1> SUFFICES ASSUME TypeOK, [Next]_vars PROVE CancelStep
  OBVIOUS
<1>a. status \in [Jobs -> Statuses]
  BY DEF TypeOK
<1>1. ASSUME NEW j \in Jobs, Finish(j) PROVE CancelStep
  <2>1. j \in cancel => Outcome(j) # "COMPLETED"
    BY <1>1 DEF Finish, Outcome
  <2> QED BY <1>1, <2>1, <1>a DEF Finish, CancelStep
<1>2. ASSUME NEW j \in Jobs, SubmitJob(j) \/ DeleteRow(j) \/ Dispatch(j) PROVE CancelStep
  BY <1>2, <1>a DEF SubmitJob, DeleteRow, Dispatch, CancelStep
<1>3. ASSUME NEW j \in Jobs, RequestCancel(j) PROVE CancelStep
  BY <1>3, <1>a DEF RequestCancel, rows, CancelStep
<1>4. ASSUME NEW u \in Uploads, UploadReady(u) PROVE CancelStep
  <2>1. u[1] \in Jobs
    BY DEF Uploads
  <2> QED BY <1>4, <2>1, <1>a DEF UploadReady, CancelStep
<1>5. CASE Start
  BY <1>5, <1>a DEF Start, CancelStep
<1>6. ASSUME UNCHANGED status PROVE CancelStep
  BY <1>6 DEF CancelStep
<1>7. ASSUME NEW u \in Uploads, UploadCheck(u) \/ UploadDrops(u) \/ UploadOpen(u)
             \/ UploadChunk(u) \/ UploadExtract(u)
      PROVE  UNCHANGED status
  BY <1>7 DEF UploadCheck, UploadDrops, UploadOpen, UploadChunk, UploadExtract, rows
<1>8. ASSUME NEW j \in Jobs, CancelCheck(j) \/ DeleteCheck(j) \/ DeleteFiles(j)
             \/ RunJob(j) \/ TrainEnds(j) \/ ArchiveModel(j)
      PROVE  UNCHANGED status
  BY <1>8 DEF CancelCheck, DeleteCheck, DeleteFiles, RunJob, TrainEnds, ArchiveModel, rows
<1>9. ASSUME Shutdown \/ FlagActive \/ Down \/ UNCHANGED vars PROVE UNCHANGED status
  BY <1>9 DEF Shutdown, FlagActive, Down, vars, rows
<1> QED
  BY <1>1, <1>2, <1>3, <1>4, <1>5, <1>6, <1>7, <1>8, <1>9 DEF Next, UploadStep, RunStep

(* A cancellation accepted while the job runs is never overtaken by         *)
(* COMPLETED, not even when the request came during archiving.              *)
THEOREM CancellationWins == Spec => CancelWins
<1>1. TypeOK /\ [Next]_vars => [CancelStep]_vars
  BY CancelKept
<1> QED BY <1>1, TypeInit, TypeStep, PTL DEF Spec, CancelWins, CancelStep

-----------------------------------------------------------------------------
(* Of a job whose PUTs never overlapped: one is in flight at a time, its    *)
(* job is then not queued and does not run, and one that was extracted and  *)
(* not yet acknowledged is on disk.  With two in flight the one that fails  *)
(* discards the dataset the other has queued the job for.                   *)
SoleUpload ==
  \A u, v \in Uploads :
    u[1] = v[1] /\ u[1] \notin overlapped /\ upload[u].pc # "idle" /\ upload[v].pc # "idle" => u = v

UploadsAwait ==
  \A u \in Uploads : u[1] \notin overlapped /\ upload[u].pc # "idle" =>
                       status[u[1]] \notin {"NONE", "QUEUED", "RUNNING"}

ReadyHasDataset ==
  \A u \in Uploads : u[1] \notin overlapped /\ upload[u].pc = "ready" /\ status[u[1]] = "AWAITING"
                       => u[1] \in dataset

DatasetInv == SoleUpload /\ UploadsAwait /\ ReadyHasDataset /\ DatasetKept

(* Losing the staged file does not move a request.                          *)
LEMMA UnlinkedKeepsPlace ==
  ASSUME NEW up \in [Uploads -> UploadState], NEW j, NEW v \in Uploads
  PROVE  Unlinked(up, j)[v].pc = up[v].pc
<1>1. up[v] \in UploadState
  OBVIOUS
<1>2. [up[v] EXCEPT !.linked = FALSE].pc = up[v].pc
  BY <1>1 DEF UploadState
<1> QED BY <1>2 DEF Unlinked

LEMMA DatasetStep ==
  ASSUME QueueInv, DatasetInv, [Next]_vars
  PROVE  DatasetInv'
<1>a. \A u \in Uploads : u[1] \in Jobs
  BY DEF Uploads
<1>b. /\ status \in [Jobs -> Statuses] /\ dataset \subseteq Jobs
      /\ run \in [Jobs -> {"none", "start", "train", "archive", "returned", "canceled", "failed"}]
  BY DEF QueueInv, TypeOK
<1>c. upload \in [Uploads -> UploadState]
  BY DEF QueueInv, TypeOK, UploadState
<1>e. ASSUME NEW u \in Uploads, upload' = Unlinked([upload EXCEPT ![u] = NoUpload], u[1])
      PROVE  \A v \in Uploads : upload'[v].pc = IF v = u THEN "idle" ELSE upload[v].pc
  <2> DEFINE up == [upload EXCEPT ![u] = NoUpload]
  <2>1. up \in [Uploads -> UploadState]
    BY <1>c, NoUploadType
  <2>2. \A v \in Uploads : up[v].pc = IF v = u THEN "idle" ELSE upload[v].pc
    BY <1>c DEF NoUpload
  <2>3. upload' = Unlinked(up, u[1])
    BY <1>e
  <2> HIDE DEF up
  <2> QED BY <2>1, <2>2, <2>3, UnlinkedKeepsPlace
(* A request that is in flight when it discards or drops its upload: its    *)
(* job is neither queued nor training.                                      *)
<1>f. ASSUME NEW u \in Uploads, upload[u].pc # "idle", u[1] \notin overlapped
      PROVE  status[u[1]] \notin {"QUEUED", "RUNNING"} /\ run[u[1]] \notin {"start", "train"}
  <2>1. status[u[1]] \notin {"QUEUED", "RUNNING"}
    BY <1>f DEF DatasetInv, UploadsAwait
  <2>2. run[u[1]] = "none"
    BY <2>1, <1>a DEF QueueInv, DownIsIdle, RowsMatchTasks
  <2> QED BY <2>1, <2>2
<1> USE DEF DatasetInv, SoleUpload, UploadsAwait, ReadyHasDataset, DatasetKept
<1>1. ASSUME NEW j \in Jobs, SubmitJob(j) PROVE DatasetInv'
  BY <1>1, <1>a, <1>b DEF SubmitJob, disk, queue
<1>2. ASSUME NEW u \in Uploads, UploadCheck(u) PROVE DatasetInv'
  <2>1. \A v \in Uploads : upload'[v].pc = IF v = u THEN "checked" ELSE upload[v].pc
    BY <1>2, <1>c DEF UploadCheck, UploadState
  <2>2. /\ UNCHANGED <<status, run, dataset>> /\ status[u[1]] = "AWAITING"
        /\ overlapped \subseteq overlapped'
        /\ \A v \in Uploads : v[1] = u[1] /\ upload[v].pc # "idle" => u[1] \in overlapped'
    BY <1>2 DEF UploadCheck, rows, disk, queue
  <2>3. SoleUpload'
    BY <2>1, <2>2
  <2> QED BY <2>1, <2>2, <2>3
(* A request goes back to idle: every other one is where it was.            *)
<1>g. ASSUME NEW u \in Uploads, UNCHANGED <<status, run, overlapped>>, upload[u].pc # "idle",
             \A v \in Uploads : upload'[v].pc = IF v = u THEN "idle" ELSE upload[v].pc,
             dataset' = dataset \/ dataset' = dataset \ {u[1]}
      PROVE  DatasetInv'
  <2>1. SoleUpload' /\ UploadsAwait'
    BY <1>g
  <2>2. ReadyHasDataset'
    <3> SUFFICES ASSUME NEW v \in Uploads, (v[1] \notin overlapped)', (upload[v].pc = "ready")',
                        (status[v[1]] = "AWAITING")'
                 PROVE  v[1] \in dataset'
      OBVIOUS
    <3>1. v # u /\ upload[v].pc = "ready" /\ v[1] \notin overlapped /\ v[1] \in dataset
      BY <1>g
    <3>2. v[1] # u[1]
      BY <3>1, <1>g
    <3> QED BY <1>g, <3>1, <3>2
  <2>3. DatasetKept'
    BY <1>g, <1>f
  <2> QED BY <2>1, <2>2, <2>3
(* A request stays in flight and takes no dataset.                          *)
<1>h. ASSUME NEW u \in Uploads, NEW pc, UNCHANGED <<status, run, overlapped>>, upload[u].pc # "idle",
             \A v \in Uploads : upload'[v].pc = IF v = u THEN pc ELSE upload[v].pc,
             dataset \subseteq dataset', pc = "ready" => u[1] \in dataset'
      PROVE  DatasetInv'
  BY <1>h
<1>3. ASSUME NEW u \in Uploads, UploadOpen(u) PROVE DatasetInv'
  <2>1. upload[u].pc = "checked" /\ UNCHANGED <<status, run, overlapped>>
    BY <1>3 DEF UploadOpen, rows, queue
  <2>2. CASE /\ upload' = [upload EXCEPT ![u] = [pc |-> "stream", next |-> Len(part[u[1]]) + 1,
                                           append |-> part[u[1]] # <<>>, linked |-> TRUE]]
             /\ dataset' = dataset
    <3>1. \A v \in Uploads : upload'[v].pc = IF v = u THEN "stream" ELSE upload[v].pc
      BY <2>2, <1>c
    <3> QED BY <2>1, <2>2, <3>1, <1>h
  <2>3. CASE /\ upload' = Unlinked([upload EXCEPT ![u] = NoUpload], u[1])
             /\ dataset' = dataset \ {u[1]}
    <3>1. \A v \in Uploads : upload'[v].pc = IF v = u THEN "idle" ELSE upload[v].pc
      BY <2>3, <1>e
    <3> QED BY <2>1, <2>3, <3>1, <1>g
  <2> QED BY <1>3, <2>2, <2>3 DEF UploadOpen
<1>4. ASSUME NEW u \in Uploads, UploadChunk(u) PROVE DatasetInv'
  <2>1. \A v \in Uploads : upload'[v].pc = upload[v].pc
    BY <1>4, <1>c DEF UploadChunk, UploadState
  <2>2. UNCHANGED <<status, run, dataset, overlapped>>
    BY <1>4 DEF UploadChunk, rows, queue
  <2> QED BY <2>1, <2>2
<1>5. ASSUME NEW u \in Uploads, UploadDrops(u) PROVE DatasetInv'
  <2>1. \A v \in Uploads : upload'[v].pc = IF v = u THEN "idle" ELSE upload[v].pc
    <3>1. \A v \in Uploads : upload'[v] = IF v = u THEN NoUpload ELSE upload[v]
      BY <1>5, <1>c DEF UploadDrops
    <3>2. NoUpload.pc = "idle"
      BY DEF NoUpload
    <3> QED BY <3>1, <3>2
  <2>2. upload[u].pc # "idle" /\ UNCHANGED <<status, run, dataset, overlapped>>
    BY <1>5 DEF UploadDrops, rows, disk, queue
  <2> QED BY <2>1, <2>2, <1>g
<1>6. ASSUME NEW u \in Uploads, UploadExtract(u) PROVE DatasetInv'
  <2>1. upload[u].pc = "stream" /\ UNCHANGED <<status, run, overlapped>>
    BY <1>6 DEF UploadExtract, rows, queue
  <2>2. CASE /\ dataset' = dataset \cup {u[1]}
             /\ upload' = [upload EXCEPT ![u] = [NoUpload EXCEPT !.pc = "ready"]]
    <3>1. \A v \in Uploads : upload'[v].pc = IF v = u THEN "ready" ELSE upload[v].pc
      <4>1. [NoUpload EXCEPT !.pc = "ready"].pc = "ready"
        BY DEF NoUpload
      <4> QED BY <2>2, <4>1, <1>c
    <3> QED BY <2>1, <2>2, <3>1, <1>h
  <2>3. CASE /\ dataset' = dataset \ {u[1]}
             /\ upload' = Unlinked([upload EXCEPT ![u] = NoUpload], u[1])
    <3>1. \A v \in Uploads : upload'[v].pc = IF v = u THEN "idle" ELSE upload[v].pc
      BY <2>3, <1>e
    <3> QED BY <2>1, <2>3, <3>1, <1>g
  <2>4. CASE dataset' = dataset /\ upload' = [upload EXCEPT ![u] = NoUpload]
    <3>1. \A v \in Uploads : upload'[v].pc = IF v = u THEN "idle" ELSE upload[v].pc
      <4>1. \A v \in Uploads : upload'[v] = IF v = u THEN NoUpload ELSE upload[v]
        BY <2>4, <1>c
      <4>2. NoUpload.pc = "idle"
        BY DEF NoUpload
      <4> QED BY <4>1, <4>2
    <3> QED BY <2>1, <2>4, <3>1, <1>g
  <2> QED BY <1>6, <2>2, <2>3, <2>4 DEF UploadExtract
<1>7. ASSUME NEW u \in Uploads, UploadReady(u) PROVE DatasetInv'
  <2>1. \A v \in Uploads : upload'[v].pc = IF v = u THEN "idle" ELSE upload[v].pc
    BY <1>7, <1>e DEF UploadReady
  <2>2. /\ upload[u].pc = "ready" /\ UNCHANGED <<run, overlapped>> /\ u[1] \in Jobs
        /\ status' = [status EXCEPT ![u[1]] = IF @ = "AWAITING" THEN "QUEUED" ELSE @]
        /\ dataset' = IF status'[u[1]] \in {"QUEUED", "DELETED"} THEN dataset ELSE dataset \ {u[1]}
    BY <1>7, <1>a DEF UploadReady, queue
  <2>3. \A i \in Jobs : i # u[1] => status'[i] = status[i] /\ (i \in dataset' <=> i \in dataset)
    BY <2>2, <1>b
  <2>4. ASSUME NEW v \in Uploads, upload'[v].pc # "idle", v[1] \notin overlapped'
        PROVE  v[1] \in Jobs /\ v[1] # u[1] /\ upload'[v].pc = upload[v].pc /\ v[1] \notin overlapped
    BY <2>1, <2>2, <2>4, <1>a
  <2>5. SoleUpload'
    BY <2>1, <2>2
  <2>6. UploadsAwait' /\ ReadyHasDataset'
    BY <2>3, <2>4
  <2>7. DatasetKept'
    <3>1. status[u[1]] = "AWAITING" /\ u[1] \notin overlapped => status'[u[1]] = "QUEUED" /\ u[1] \in dataset'
      BY <2>2, <1>a, <1>b
    <3>2. status[u[1]] # "AWAITING" /\ u[1] \notin overlapped => status'[u[1]] # "QUEUED"
      BY <2>2, <1>a, <1>b, <1>f
    <3>3. u[1] \notin overlapped => run'[u[1]] \notin {"start", "train"}
      BY <2>2, <1>f
    <3> QED BY <2>2, <2>3, <3>1, <3>2, <3>3
  <2> QED BY <2>5, <2>6, <2>7
<1>8. ASSUME NEW j \in Jobs, CancelCheck(j) \/ DeleteCheck(j) PROVE DatasetInv'
  BY <1>8 DEF CancelCheck, DeleteCheck, rows, disk, queue
<1>9. ASSUME NEW j \in Jobs, RequestCancel(j) PROVE DatasetInv'
  BY <1>9, <1>a, <1>b DEF RequestCancel, rows, disk
<1>10. ASSUME NEW j \in Jobs, DeleteFiles(j) PROVE DatasetInv'
  <2>1. status[j] \in Terminal
    BY <1>10 DEF DeleteFiles, QueueInv, DeletesTerminal
  <2>2. run[j] = "none"
    BY <2>1 DEF QueueInv, DownIsIdle, RowsMatchTasks, Terminal
  <2> QED BY <1>10, <2>1, <2>2, <1>a DEF DeleteFiles, rows, queue, Terminal
<1>11. ASSUME NEW j \in Jobs, DeleteRow(j) PROVE DatasetInv'
  BY <1>11, <1>a, <1>b DEF DeleteRow, disk, queue
<1>12. ASSUME NEW j \in Jobs, Dispatch(j) PROVE DatasetInv'
  BY <1>12, <1>a, <1>b DEF Dispatch, disk
<1>13. ASSUME NEW j \in Jobs, RunJob(j) PROVE DatasetInv'
  BY <1>13, <1>b DEF RunJob
<1>14. ASSUME NEW j \in Jobs, TrainEnds(j) PROVE DatasetInv'
  <2>1. status[j] = "RUNNING"
    BY <1>14 DEF TrainEnds, QueueInv, DownIsIdle, RowsMatchTasks
  <2> QED BY <1>14, <2>1, <1>b DEF TrainEnds, rows
<1>15. ASSUME NEW j \in Jobs, ArchiveModel(j) PROVE DatasetInv'
  BY <1>15, <1>b DEF ArchiveModel, rows
<1>16. ASSUME NEW j \in Jobs, Finish(j) PROVE DatasetInv'
  <2>1. Outcome(j) \in Terminal
    BY <1>16 DEF Finish, Outcome, Terminal
  <2> QED BY <1>16, <2>1, <1>a, <1>b DEF Finish, Terminal
<1>17. CASE Shutdown \/ FlagActive
  BY <1>17 DEF Shutdown, FlagActive, rows, disk, queue
<1>18. CASE Down
  BY <1>18 DEF Down, disk, NoUpload
<1>19. CASE Start
  BY <1>19, <1>a, <1>b DEF Start, disk, queue
<1>20. CASE UNCHANGED vars
  BY <1>20 DEF vars, rows, disk, queue
<1> QED
  BY <1>1, <1>2, <1>3, <1>4, <1>5, <1>6, <1>7, <1>8, <1>9, <1>10, <1>11, <1>12, <1>13,
     <1>14, <1>15, <1>16, <1>17, <1>18, <1>19, <1>20 DEF Next, UploadStep, RunStep

(* A job that is queued or trains has its dataset, whatever drops, failed   *)
(* extractions, retries, cancellations, deletions and restarts there are and*)
(* whatever other jobs' PUTs do, unless two PUTs of this very job were in   *)
(* flight together: upload_dataset admits that, and then it is false.       *)
THEOREM QueuedJobsHaveDataset == Spec => []DatasetKept
<1>1. Init => DatasetInv
  BY DEF Init, NoUpload, DatasetInv, SoleUpload, UploadsAwait, ReadyHasDataset, DatasetKept
<1>2. QueueInv /\ DatasetInv /\ [Next]_vars => DatasetInv'
  BY DatasetStep
<1>3. DatasetInv => DatasetKept
  BY DEF DatasetInv
<1> QED BY <1>1, <1>2, <1>3, QueueInit, QueueStep, PTL DEF Spec

-----------------------------------------------------------------------------
(* The tokens of stash_secret: kept for the jobs that wait for their run,   *)
(* and for no other; before the first restart, for each of them.            *)
Waiting(j) == status[j] \in {"AWAITING", "QUEUED"} \/ run[j] = "start"

TokenOfWaiting == \A j \in Jobs : secret[j] = "cached" => phase # "down" /\ Waiting(j)

TokenHeld ==
  restarts = 0 /\ phase # "down" =>
    \A j \in Jobs : (Waiting(j) => secret[j] = "cached") /\ (run[j] = "train" => secret[j] = "taken")

TokenInv == TokenOfWaiting /\ TokenHeld

LEMMA TokenStep == QueueInv /\ TokenInv /\ [Next]_vars => TokenInv'
<1> SUFFICES ASSUME QueueInv, TokenInv, [Next]_vars PROVE TokenInv'
  OBVIOUS
<1>t. /\ status \in [Jobs -> Statuses] /\ secret \in [Jobs -> {"none", "cached", "taken"}]
      /\ run \in [Jobs -> {"none", "start", "train", "archive", "returned", "canceled", "failed"}]
      /\ restarts \in Nat
  BY ConstantsAssumption DEF QueueInv, TypeOK, ConstantsAssumption
<1>r. \A j \in Jobs : run[j] # "none" => status[j] = "RUNNING"
  BY <1>t DEF QueueInv, RowsMatchTasks, DownIsIdle
<1> USE DEF TokenInv, TokenOfWaiting, TokenHeld, Waiting
<1>f. ASSUME UNCHANGED <<secret, restarts>>, phase' = "down" <=> phase = "down",
             \A i \in Jobs : Waiting(i)' <=> Waiting(i),
             \A i \in Jobs : run'[i] = "train" => run[i] = "train"
      PROVE  TokenInv'
  BY <1>f
<1>1. ASSUME NEW j \in Jobs, SubmitJob(j) PROVE TokenInv'
  BY <1>1, <1>t, <1>r DEF SubmitJob, queue, life
<1>2. ASSUME NEW u \in Uploads, UploadCheck(u) \/ UploadOpen(u) \/ UploadChunk(u)
             \/ UploadDrops(u) \/ UploadExtract(u)
      PROVE  TokenInv'
  <2>1. UNCHANGED <<status, secret, run, phase, restarts>>
    BY <1>2 DEF UploadCheck, UploadOpen, UploadChunk, UploadDrops, UploadExtract, rows, queue, life
  <2> QED BY <1>f, <2>1
<1>3. ASSUME NEW u \in Uploads, UploadReady(u) PROVE TokenInv'
  <2>1. u[1] \in Jobs
    BY DEF Uploads
  <2>2. /\ UNCHANGED <<secret, run, phase, restarts>>
        /\ \A i \in Jobs : status'[i] = status[i] \/ (status[i] = "AWAITING" /\ status'[i] = "QUEUED")
    BY <1>3, <1>t, <2>1 DEF UploadReady, queue, life
  <2> QED BY <1>f, <2>2
<1>4. ASSUME NEW j \in Jobs, CancelCheck(j) \/ DeleteCheck(j) \/ DeleteFiles(j) PROVE TokenInv'
  BY <1>4, <1>f DEF CancelCheck, DeleteCheck, DeleteFiles, rows, queue, life
<1>5. ASSUME NEW j \in Jobs, RequestCancel(j) PROVE TokenInv'
  <2>1. CASE status[j] \in {"QUEUED", "AWAITING"}
    BY <1>5, <1>t, <1>r, <2>1 DEF RequestCancel, life
  <2>2. CASE status[j] \notin {"QUEUED", "AWAITING"}
    BY <1>5, <1>f, <2>2 DEF RequestCancel, rows, life
  <2> QED BY <2>1, <2>2
<1>6. ASSUME NEW j \in Jobs, DeleteRow(j) PROVE TokenInv'
  <2>1. run[j] = "none"
    BY <1>6, <1>r, <1>t DEF DeleteRow, QueueInv, DeletesTerminal, Terminal
  <2> QED BY <1>6, <1>t, <2>1 DEF DeleteRow, queue, life
<1>7. ASSUME NEW j \in Jobs, Dispatch(j) PROVE TokenInv'
  <2>1. /\ UNCHANGED <<secret, phase, restarts>> /\ status[j] = "QUEUED" /\ run'[j] = "start"
        /\ \A i \in Jobs \ {j} : status'[i] = status[i] /\ run'[i] = run[i]
    BY <1>7, <1>t DEF Dispatch, life
  <2> QED BY <1>f, <2>1
<1>8. ASSUME NEW j \in Jobs, RunJob(j) PROVE TokenInv'
  <2>1. /\ UNCHANGED <<status, phase, restarts>> /\ run[j] = "start" /\ run'[j] = "train"
        /\ secret'[j] = IF secret[j] = "cached" THEN "taken" ELSE secret[j]
        /\ \A i \in Jobs \ {j} : secret'[i] = secret[i] /\ run'[i] = run[i]
    BY <1>8, <1>t DEF RunJob, life
  <2> QED BY <1>r, <2>1
<1>9. ASSUME NEW j \in Jobs, TrainEnds(j) \/ ArchiveModel(j) PROVE TokenInv'
  <2>1. /\ UNCHANGED <<status, secret, phase, restarts>> /\ run[j] # "start" /\ run'[j] \notin {"start", "train"}
        /\ \A i \in Jobs \ {j} : run'[i] = run[i]
    BY <1>9, <1>t DEF TrainEnds, ArchiveModel, rows, life
  <2> QED BY <1>f, <2>1
<1>10. ASSUME NEW j \in Jobs, Finish(j) PROVE TokenInv'
  <2>0. Outcome(j) \in Terminal
    BY <1>10 DEF Finish, Outcome, Terminal
  <2>1. /\ UNCHANGED <<phase, restarts>> /\ run'[j] = "none"
        /\ status'[j] \in Terminal /\ secret'[j] = "none"
        /\ \A i \in Jobs \ {j} : status'[i] = status[i] /\ run'[i] = run[i] /\ secret'[i] = secret[i]
    BY <1>10, <1>t, <2>0 DEF Finish, life
  <2> QED BY <2>1 DEF Terminal
<1>11. CASE Shutdown \/ FlagActive
  BY <1>11, <1>f DEF Shutdown, FlagActive, rows, queue, life
<1>12. CASE Down
  BY <1>12, <1>t DEF Down
<1>13. CASE Start
  <2>1. phase = "down" /\ UNCHANGED secret /\ restarts' = restarts + 1
    BY <1>13 DEF Start
  <2>2. restarts' # 0
    BY <1>t, <2>1
  <2>3. \A j \in Jobs : secret'[j] # "cached"
    BY <2>1
  <2> QED BY <2>2, <2>3
<1>14. CASE UNCHANGED vars
  BY <1>14, <1>f DEF vars, rows, queue, life
<1> QED
  BY <1>1, <1>2, <1>3, <1>4, <1>5, <1>6, <1>7, <1>8, <1>9, <1>10, <1>11, <1>12, <1>13, <1>14
     DEF Next, UploadStep, RunStep

LEMMA TokenAlways == Spec => [](QueueInv /\ TokenInv)
<1>1. Init => TokenInv
  BY DEF Init, TokenInv, TokenOfWaiting, TokenHeld, Waiting
<1> QED
  BY <1>1, QueueInit, QueueStep, TokenStep, PTL DEF Spec

(* The token a job was submitted with reaches its training unless the       *)
(* service restarts in between: cancellations, late uploads, deletions and  *)
(* the runs of other jobs never take it.  (The restart does: TLC.)          *)
THEOREM TokensReachTraining == Spec => [](restarts = 0 => TokenReachesTraining)
<1>1. QueueInv /\ TokenInv => (restarts = 0 => TokenReachesTraining)
  BY DEF QueueInv, DownIsIdle, TokenInv, TokenHeld, TokenReachesTraining
<1> QED
  BY <1>1, TokenAlways, PTL

(* JobStore keeps a token in memory no longer than its job waits for it:    *)
(* a job that was cancelled, failed, deleted or has started has none left.  *)
THEOREM TokensAreDropped == Spec => []TokenOfWaiting
<1>1. QueueInv /\ TokenInv => TokenOfWaiting
  BY DEF TokenInv
<1> QED
  BY <1>1, TokenAlways, PTL
=============================================================================
