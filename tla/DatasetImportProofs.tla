------------------------ MODULE DatasetImportProofs ------------------------
(* Theorems about DatasetImport for any set of import jobs, any number of   *)
(* requests in flight and any number of crashes.                            *)
EXTENDS DatasetImport, TLAPS

(* What the slot of a backend and a request in flight hold.                 *)
Processes == [job : Jobs \union {None}, step : Steps,
              pc : {"none", "load", "detect", "select", "draft", "fail", "commit",
                    "import", "complete", "cleanup", "exited"}]
Reads == [job : Jobs \union {None}, row : Rows,
          kind : {"none", "upload", "attach", "attaching", "finalize", "cancel", "interrupt"}]

USE DEF None, Processes, Reads

(* A request that was read, and a process that was started, are about a     *)
(* job; the backends to come have no process yet.                           *)
RequestsNameJobs == \A r \in Requests : req[r].kind # "none" => req[r].job \in Jobs
WorkersNameJobs == \A g \in Backends : proc[g].pc # "none" => proc[g].job \in Jobs
BackendsAhead == gen <= crashes /\ \A g \in Backends : g > gen => proc[g] = Idle

TypeInv == TypeOK /\ RequestsNameJobs /\ WorkersNameJobs /\ BackendsAhead

LEMMA RowTyped ==
  ASSUME NEW status \in Statuses, NEW step \in Steps
  PROVE  Row(status, step) \in Rows
BY DEF Row, Rows

LEMMA IdleTyped == Idle \in Processes /\ Idle.pc = "none" /\ Idle.job = None
BY DEF Idle, Steps

LEMMA BackendsTyped == Backends \subseteq Nat /\ 0 \in Backends /\ MaxCrashes \in Nat
BY ConstantsAssumption DEF ConstantsAssumption, Backends

LEMMA TypeInit == Init => TypeInv
<1> SUFFICES ASSUME Init PROVE TypeInv
  OBVIOUS
<1>1. Row("NONE", "none") \in Rows
  BY RowTyped DEF Statuses, Steps
<1>2. req \in [Requests -> Reads]
  BY <1>1 DEF Init, NoRequest
<1>3. /\ proc \in [Backends -> Processes] /\ gen \in Backends /\ crashes \in Backends
      /\ WorkersNameJobs /\ BackendsAhead
  BY IdleTyped, BackendsTyped DEF Init, WorkersNameJobs, BackendsAhead
<1> QED
  BY <1>1, <1>2, <1>3 DEF Init, TypeInv, TypeOK, RequestsNameJobs, NoRequest

(* What a step of one process leaves alone: the other processes, the other  *)
(* rows and everything that belongs to the scheduler.                       *)
LEMMA WorkerShape ==
  ASSUME TypeInv, NEW g \in Backends, WorkerStep(g) \/ WorkerDies(g)
  PROVE  /\ proc' \in [Backends -> Processes]
         /\ \A h \in Backends \ {g} : proc'[h] = proc[h]
         /\ proc'[g].job = proc[g].job /\ proc[g].job \in Jobs
         /\ proc[g].pc \notin {"none", "exited"} /\ proc'[g].pc # "none"
         /\ row' \in [Jobs -> Rows]
         /\ \A j \in Jobs \ {proc[g].job} : row'[j] = row[j]
         /\ UNCHANGED <<req, claim, gen, sched, abandoned, confirmed, shared, requests>>
<1> DEFINE Good == /\ proc' \in [Backends -> Processes]
                   /\ \A h \in Backends \ {g} : proc'[h] = proc[h]
                   /\ proc'[g].job = proc[g].job /\ proc[g].job \in Jobs
                   /\ proc[g].pc \notin {"none", "exited"} /\ proc'[g].pc # "none"
                   /\ row' \in [Jobs -> Rows]
                   /\ \A j \in Jobs \ {proc[g].job} : row'[j] = row[j]
<1>a. /\ row \in [Jobs -> Rows] /\ proc \in [Backends -> Processes]
      /\ proc[g].pc # "none" => proc[g].job \in Jobs
  BY DEF TypeInv, TypeOK, WorkersNameJobs
<1>b. {"RUNNING", "FAILED", "CANCELED", "PENDING", "COMPLETED"} \subseteq Statuses
  BY DEF Statuses
<1>w. ASSUME proc[g].pc \notin {"none", "exited"}, NEW status \in Statuses, NEW step \in Steps,
             NEW to \in {"select", "draft", "exited", "import", "cleanup"}, Write(g, status, step, to)
      PROVE  Good
  <2>1. Row(status, step) \in Rows
    BY <1>w, RowTyped
  <2>2. row' \in [Jobs -> Rows] /\ \A j \in Jobs \ {proc[g].job} : row'[j] = row[j]
    BY <1>a, <1>w, <2>1 DEF Write, W
  <2>3. /\ [proc[g] EXCEPT !.pc = to, !.step = step] \in Processes
        /\ proc' = [proc EXCEPT ![g] = [proc[g] EXCEPT !.pc = to, !.step = step]]
    BY <1>a, <1>w DEF Write
  <2> QED BY <1>a, <1>w, <2>2, <2>3
<1>m. ASSUME proc[g].pc \notin {"none", "exited"}, UNCHANGED row,
             NEW to \in {"fail", "complete", "exited"}, Goto(g, to)
      PROVE  Good
  BY <1>a, <1>m DEF Goto
<1>1. CASE Load(g)
  <2>1. proc[g].job \in Jobs /\ row[proc[g].job].step \in Steps
    BY <1>1, <1>a DEF Load, Rows
  <2>2. PICK to \in {"exited", "detect", "commit"} :
             proc' = [proc EXCEPT ![g].pc = to, ![g].step = row[proc[g].job].step]
    BY <1>1 DEF Load, W
  <2>3. UNCHANGED row /\ proc[g].pc = "load" /\ WorkerOnly
    BY <1>1 DEF Load
  <2> QED BY <1>a, <2>1, <2>2, <2>3 DEF WorkerOnly, history
<1>2. CASE Detect(g)
  BY <1>2, <1>b, <1>w DEF Detect, WorkerOnly, history, Steps
<1>3. CASE Select(g)
  BY <1>3, <1>b, <1>w, <1>m DEF Select, WorkerOnly, history, Steps
<1>4. CASE Draft(g)
  BY <1>4, <1>b, <1>w, <1>m DEF Draft, WorkerOnly, history, Steps
<1>5. CASE FailJob(g)
  <2>1. proc[g].step \in Steps
    BY <1>a
  <2> QED BY <1>5, <1>b, <1>w, <2>1 DEF FailJob, WorkerOnly, history
<1>6. CASE CommitBegin(g)
  BY <1>6, <1>b, <1>w, <1>m DEF CommitBegin, WorkerOnly, history, Steps
<1>7. CASE Import(g)
  BY <1>7, <1>m DEF Import, WorkerOnly, history
<1>8. CASE Complete(g)
  BY <1>8, <1>b, <1>w DEF Complete, WorkerOnly, history, Steps
<1>9. CASE Cleanup(g)
  BY <1>9, <1>m DEF Cleanup, WorkerOnly, history
<1>10. CASE WorkerDies(g)
  BY <1>10, <1>m DEF WorkerDies, Alive
<1> QED
  BY <1>1, <1>2, <1>3, <1>4, <1>5, <1>6, <1>7, <1>8, <1>9, <1>10 DEF WorkerStep

LEMMA TypeStep == TypeInv /\ [Next]_vars => TypeInv'
<1> SUFFICES ASSUME TypeInv, [Next]_vars PROVE TypeInv'
  OBVIOUS
<1> USE DEF TypeInv, TypeOK, RequestsNameJobs
<1>a. NoRequest \in Reads /\ NoRequest.kind = "none"
  BY RowTyped DEF NoRequest, Statuses, Steps
<1>c. /\ Row("PENDING", "awaiting_archive_upload") \in Rows
      /\ Row("PENDING", "queued_for_detection") \in Rows
      /\ Row("PENDING", "queued_for_import") \in Rows
  BY RowTyped DEF Statuses, Steps
<1>d. ASSUME NEW r \in Requests, Answered(r) PROVE req' \in [Requests -> Reads] /\ RequestsNameJobs'
  BY <1>a, <1>d DEF Answered
<1>e. {"RUNNING", "FAILED", "CANCELED", "PENDING", "COMPLETED"} \subseteq Statuses
  BY DEF Statuses
<1>f. ASSUME UNCHANGED <<gen, proc, crashes>> PROVE WorkersNameJobs' /\ BackendsAhead'
  BY <1>f DEF WorkersNameJobs, BackendsAhead
<1>g. gen \in Backends /\ gen \in Nat /\ crashes \in Nat /\ proc \in [Backends -> Processes] /\ gen <= crashes
  BY BackendsTyped DEF BackendsAhead
<1>1. ASSUME NEW j \in Jobs, Prepare(j) PROVE TypeInv'
  BY <1>1, <1>c, <1>f DEF Prepare, history
<1>2. ASSUME NEW r \in Requests, NEW j \in Jobs, NEW kind \in {"upload", "finalize", "cancel", "interrupt"},
             Read(r, j, kind)
      PROVE TypeInv'
  <2>1. req' \in [Requests -> Reads] /\ RequestsNameJobs'
    BY <1>2 DEF Read
  <2> QED BY <1>2, <2>1, <1>f DEF Read, history
<1>h. ASSUME NEW r \in Requests, req[r].kind # "none", NEW kind \in {"attach", "attaching"},
             req' = [req EXCEPT ![r].kind = kind]
      PROVE  req' \in [Requests -> Reads] /\ RequestsNameJobs'
  <2>1. req \in [Requests -> Reads] /\ [req[r] EXCEPT !.kind = kind] \in Reads
    OBVIOUS
  <2>2. \A q \in Requests : req'[q].job = req[q].job /\ (q # r => req'[q] = req[q])
    BY <1>h, <2>1
  <2>3. req[r].job \in Jobs
    BY <1>h
  <2> QED BY <1>h, <2>1, <2>2, <2>3
<1>3. ASSUME NEW r \in Requests, NEW valid \in BOOLEAN, Upload(r, valid) PROVE TypeInv'
  <2>1. req' \in [Requests -> Reads] /\ RequestsNameJobs'
    BY <1>3, <1>d, <1>h DEF Upload
  <2>2. archive' \subseteq Jobs
    BY <1>3 DEF Upload
  <2> QED BY <1>3, <2>1, <2>2, <1>f DEF Upload, history
<1>4. ASSUME NEW r \in Requests, CheckAttach(r) PROVE TypeInv'
  <2>1. req' \in [Requests -> Reads] /\ RequestsNameJobs'
    BY <1>4, <1>d, <1>h DEF CheckAttach
  <2> QED BY <1>4, <2>1, <1>f DEF CheckAttach, history
<1>5. ASSUME NEW r \in Requests, Attach(r) \/ Interrupt(r) PROVE TypeInv'
  <2>1. row' \in [Jobs -> Rows]
    <3>1. CASE Attach(r)
      BY <3>1, <1>c DEF Attach
    <3>2. CASE Interrupt(r)
      BY <3>2, <1>e DEF Interrupt, Rows
    <3> QED BY <1>5, <3>1, <3>2
  <2> QED BY <1>5, <2>1, <1>d, <1>f DEF Attach, Interrupt, history
<1>6. ASSUME NEW r \in Requests, Finalize(r) PROVE TypeInv'
  <2>1. row' \in [Jobs -> Rows] /\ confirmed' \in [Jobs -> Nat]
    BY <1>6, <1>c DEF Finalize
  <2> QED BY <1>6, <2>1, <1>d, <1>f DEF Finalize
<1>7. ASSUME NEW r \in Requests, Cancel(r) PROVE TypeInv'
  <2>1. req[r].row.step \in Steps
    BY DEF Rows
  <2>2. row' \in [Jobs -> Rows]
    BY <1>7, <1>e, <2>1, RowTyped DEF Cancel
  <2> QED BY <1>7, <2>2, <1>d, <1>f DEF Cancel, history
<1>8. ASSUME NEW j \in Jobs, ClaimSelect(j) \/ FailAbandoned(j) PROVE TypeInv'
  <2>1. row' \in [Jobs -> Rows]
    BY <1>8, <1>e DEF ClaimSelect, FailAbandoned, Rows
  <2> QED BY <1>8, <2>1, <1>f DEF ClaimSelect, FailAbandoned, history
<1>9. CASE ClaimUpdate
  <2>1. row' \in [Jobs -> Rows]
    BY <1>9, <1>e DEF ClaimUpdate, Rows
  <2>2. claim \in Jobs /\ [job |-> claim, pc |-> "load", step |-> "none"] \in Processes
    BY <1>9 DEF ClaimUpdate, Steps
  <2>3. /\ proc' \in [Backends -> Processes] /\ UNCHANGED <<gen, crashes>>
        /\ proc'[gen].job = claim /\ \A h \in Backends \ {gen} : proc'[h] = proc[h]
    BY <1>9, <1>g, <2>2 DEF ClaimUpdate
  <2>4. WorkersNameJobs' /\ BackendsAhead'
    BY <2>2, <2>3, <1>g, BackendsTyped DEF WorkersNameJobs, BackendsAhead
  <2> QED BY <1>9, <2>1, <2>2, <2>3, <2>4 DEF ClaimUpdate
<1>10. CASE Recover \/ Recovered
  BY <1>10, <1>f DEF Recover, Recovered, history
<1>11. CASE Reap
  <2>1. /\ proc' \in [Backends -> Processes] /\ UNCHANGED <<gen, crashes>>
        /\ proc'[gen] = Idle /\ \A h \in Backends \ {gen} : proc'[h] = proc[h]
    BY <1>11, <1>g, IdleTyped DEF Reap
  <2>2. WorkersNameJobs' /\ BackendsAhead'
    BY <2>1, <1>g, IdleTyped, BackendsTyped DEF WorkersNameJobs, BackendsAhead
  <2> QED BY <1>11, <2>1, <2>2 DEF Reap, history
<1>12. ASSUME NewBackend
       PROVE  /\ crashes' \in Backends /\ crashes' = crashes + 1 /\ gen + 1 \in Backends
              /\ UNCHANGED <<row, archive, dataset, confirmed, shared, lost>>
              /\ claim' = None /\ sched' = "recover" /\ abandoned' = {}
              /\ req' \in [Requests -> Reads] /\ RequestsNameJobs'
  <2>1. req' \in [Requests -> Reads] /\ RequestsNameJobs'
    BY <1>12, <1>a DEF NewBackend
  <2>2. crashes' = crashes + 1 /\ crashes < MaxCrashes
    BY <1>12 DEF NewBackend
  <2>3. crashes' \in Backends /\ gen + 1 \in Backends
    BY <2>2, <1>g, BackendsTyped DEF Backends
  <2> QED BY <1>12, <2>1, <2>2, <2>3 DEF NewBackend, history
<1>13. CASE Restart
  <2>1. /\ proc' \in [Backends -> Processes] /\ UNCHANGED gen
        /\ proc'[gen] = Idle /\ \A h \in Backends \ {gen} : proc'[h] = proc[h]
    BY <1>13, <1>g, IdleTyped DEF Restart
  <2>2. WorkersNameJobs' /\ BackendsAhead'
    BY <1>13, <2>1, <1>g, <1>12, IdleTyped, BackendsTyped DEF Restart, WorkersNameJobs, BackendsAhead
  <2> QED BY <1>13, <1>12, <2>1, <2>2 DEF Restart
<1>14. CASE Kill
  <2>1. WorkersNameJobs' /\ BackendsAhead'
    BY <1>14, <1>g, <1>12, BackendsTyped DEF Kill, WorkersNameJobs, BackendsAhead
  <2> QED BY <1>14, <1>12, <2>1 DEF Kill
<1>15. ASSUME NEW g \in Backends, WorkerStep(g) \/ WorkerDies(g) PROVE TypeInv'
  <2>1. /\ proc' \in [Backends -> Processes] /\ row' \in [Jobs -> Rows]
        /\ \A h \in Backends \ {g} : proc'[h] = proc[h]
        /\ proc'[g].job \in Jobs /\ proc[g].pc # "none"
        /\ UNCHANGED <<req, claim, gen, sched, abandoned, confirmed, shared, requests>>
        /\ proc[g].job \in Jobs
    BY <1>15, WorkerShape
  <2>2. g <= gen
    BY <2>1, <1>g, IdleTyped, BackendsTyped DEF BackendsAhead
  <2>3. crashes' \in Backends /\ gen' <= crashes'
    <3>1. CASE crashes' = crashes
      BY <3>1, <2>1, <1>g
    <3>2. CASE crashes < MaxCrashes /\ crashes' = crashes + 1
      BY <3>2, <2>1, <1>g, BackendsTyped DEF Backends
    <3> QED BY <1>15, <3>1, <3>2 DEF WorkerStep, Load, Detect, Select, Draft, FailJob, CommitBegin,
       Import, Complete, Cleanup, WorkerOnly, WorkerDies
  <2>4. WorkersNameJobs' /\ BackendsAhead'
    BY <2>1, <2>2, <2>3, <1>g, BackendsTyped DEF WorkersNameJobs, BackendsAhead
  <2>5. dataset' \in [Jobs -> Nat] /\ archive' \subseteq Jobs
    BY <1>15 DEF WorkerStep, Load, Detect, Select, Draft, FailJob, CommitBegin, Import, Complete,
       Cleanup, WorkerDies
  <2>6. lost' \subseteq Jobs
    BY <1>15, <2>1 DEF WorkerStep, Load, Detect, Select, Draft, FailJob, CommitBegin, Import, Complete,
       Cleanup, WorkerOnly, history, WorkerDies, W
  <2> QED BY <2>1, <2>3, <2>4, <2>5, <2>6
<1>16. CASE UNCHANGED vars
  BY <1>16, <1>f DEF vars, history
<1> QED
  BY <1>1, <1>2, <1>3, <1>4, <1>5, <1>6, <1>7, <1>8, <1>9, <1>10, <1>11, <1>13, <1>14, <1>15, <1>16
     DEF Next, Respond, SchedulerStep

(* Rows, requests and processes keep their shape: whatever a late write     *)
(* merges, no row leaves the statuses and steps of the import.              *)
THEOREM TypeCorrect == Spec => []TypeOK
<1>1. TypeInv => TypeOK
  BY DEF TypeInv
<1> QED
  BY TypeInit, TypeStep, <1>1, PTL DEF Spec

(***************************************************************************)
(* COMPLETED is written by a worker whose commit created the dataset.       *)
(***************************************************************************)
CompleteHasDataset == \A g \in Backends : proc[g].pc = "complete" => dataset[proc[g].job] > 0

CompletedInv == TypeInv /\ CompleteHasDataset /\ CompletedHasDataset

LEMMA CompletedStep == CompletedInv /\ [Next]_vars => CompletedInv'
<1> SUFFICES ASSUME CompletedInv, [Next]_vars PROVE CompletedInv'
  OBVIOUS
<1>a. TypeInv /\ TypeInv'
  BY TypeStep DEF CompletedInv
<1>b. /\ row \in [Jobs -> Rows] /\ dataset \in [Jobs -> Nat] /\ proc \in [Backends -> Processes]
      /\ gen \in Backends
  BY <1>a DEF TypeInv, TypeOK
<1>c. /\ \A r \in Requests : req[r].kind # "none" => req[r].job \in Jobs
      /\ \A g \in Backends : proc[g].pc # "none" => proc[g].job \in Jobs
  BY <1>a DEF TypeInv, RequestsNameJobs, WorkersNameJobs
<1> SUFFICES CompleteHasDataset' /\ CompletedHasDataset'
  BY <1>a DEF CompletedInv
<1> DEFINE Good == CompleteHasDataset' /\ CompletedHasDataset'
<1> USE DEF CompletedInv, CompleteHasDataset, CompletedHasDataset, Rows, Row
\* A step that completes nothing.
<1>d. ASSUME UNCHANGED dataset,
             \A g \in Backends : proc'[g] = proc[g] \/ proc'[g].pc # "complete",
             \A j \in Jobs : row'[j].status = "COMPLETED" => row[j].status = "COMPLETED"
      PROVE  Good
  BY <1>d
<1>1. ASSUME NEW j \in Jobs, Prepare(j) PROVE Good
  BY <1>1, <1>b DEF Prepare
<1>2. ASSUME NEW r \in Requests, NEW j \in Jobs, NEW kind \in {"upload", "finalize", "cancel", "interrupt"},
             Read(r, j, kind)
      PROVE Good
  BY <1>2 DEF Read
<1>3. ASSUME NEW r \in Requests, Respond(r) PROVE Good
  <2>1. UNCHANGED <<dataset, proc>>
    BY <1>3 DEF Respond, Upload, CheckAttach, Attach, Finalize, Cancel, Interrupt
  <2>2. \A j \in Jobs : row'[j].status = "COMPLETED" => row[j].status = "COMPLETED"
    BY <1>3, <1>b, <1>c DEF Respond, Upload, CheckAttach, Attach, Finalize, Cancel, Interrupt
  <2> QED BY <2>1, <2>2, <1>d
<1>4. CASE SchedulerStep
  <2>1. UNCHANGED dataset
    BY <1>4 DEF SchedulerStep, ClaimSelect, ClaimUpdate, Reap, Recover, FailAbandoned, Recovered
  <2>2. \A g \in Backends : proc'[g] = proc[g] \/ proc'[g].pc # "complete"
    BY <1>4, <1>b DEF SchedulerStep, ClaimSelect, ClaimUpdate, Reap, Recover, FailAbandoned, Recovered, Idle
  <2>3. \A j \in Jobs : row'[j].status = "COMPLETED" => row[j].status = "COMPLETED"
    BY <1>4, <1>b DEF SchedulerStep, ClaimSelect, ClaimUpdate, Reap, Recover, FailAbandoned, Recovered
  <2> QED BY <2>1, <2>2, <2>3, <1>d
<1>5. CASE Restart \/ Kill
  <2>1. UNCHANGED <<row, dataset>>
    BY <1>5 DEF Restart, Kill, NewBackend
  <2>2. \A g \in Backends : proc'[g] = proc[g] \/ proc'[g].pc # "complete"
    BY <1>5, <1>b DEF Restart, Kill, Idle
  <2> QED BY <2>1, <2>2, <1>d
<1>6. ASSUME NEW g \in Backends, WorkerStep(g) \/ WorkerDies(g) PROVE Good
  <2>a. /\ \A h \in Backends \ {g} : proc'[h] = proc[h]
        /\ proc'[g].job = proc[g].job /\ proc[g].job \in Jobs
        /\ \A j \in Jobs \ {proc[g].job} : row'[j] = row[j]
    BY <1>6, <1>a, WorkerShape
  <2>1. CASE Load(g) \/ Detect(g) \/ Select(g) \/ Draft(g) \/ FailJob(g) \/ CommitBegin(g) \/ Cleanup(g)
             \/ WorkerDies(g)
    <3>1. UNCHANGED dataset /\ proc'[g].pc # "complete"
      BY <2>1, <1>b DEF Load, Detect, Select, Draft, FailJob, CommitBegin, Cleanup, WorkerDies, Write, Goto
    <3>2. row'[proc[g].job].status = "COMPLETED" => row[proc[g].job].status = "COMPLETED"
      BY <2>1, <2>a, <1>b DEF Load, Detect, Select, Draft, FailJob, CommitBegin, Cleanup, WorkerDies, Write, W
    <3> QED BY <2>a, <3>1, <3>2, <1>d
  <2>2. CASE Import(g)
    <3>1. UNCHANGED row /\ \A j \in Jobs : dataset'[j] >= dataset[j] /\ dataset'[j] \in Nat
      BY <2>2, <1>b DEF Import
    <3>2. proc'[g].pc = "complete" => dataset'[proc[g].job] > 0
      BY <2>2, <2>a, <1>b DEF Import, Goto, W
    <3>3. CompletedHasDataset'
      BY <3>1, <1>b
    <3>4. ASSUME NEW h \in Backends, proc'[h].pc = "complete", h # g PROVE dataset'[proc'[h].job] > 0
      <4>1. proc'[h] = proc[h] /\ proc[h].job \in Jobs /\ dataset[proc[h].job] > 0
        BY <3>4, <2>a, <1>c
      <4> QED BY <4>1, <3>1, <1>b
    <3> QED BY <2>a, <3>2, <3>3, <3>4
  <2>3. CASE Complete(g)
    <3>1. dataset[proc[g].job] > 0
      BY <2>3 DEF Complete
    <3>2. UNCHANGED dataset /\ proc'[g].pc = "cleanup"
      BY <2>3, <1>b DEF Complete, Write
    <3> QED BY <2>a, <3>1, <3>2
  <2> QED BY <1>6, <2>1, <2>2, <2>3 DEF WorkerStep
<1>7. CASE UNCHANGED vars
  BY <1>7 DEF vars
<1> QED
  BY <1>1, <1>2, <1>3, <1>4, <1>5, <1>6, <1>7 DEF Next

(* An import that says COMPLETED has its dataset, whichever requests wrote  *)
(* the row from an older read, whichever process died on the way, and while *)
(* the processes of killed backends go on beside the current one.           *)
THEOREM CompletedIsReal == Spec => []CompletedHasDataset
<1>1. Init => CompletedInv
  <2> SUFFICES ASSUME Init PROVE CompletedInv
    OBVIOUS
  <2>1. \A g \in Backends : proc[g].pc = "none"
    BY IdleTyped DEF Init
  <2> QED BY <2>1, TypeInit DEF Init, CompletedInv, CompleteHasDataset, CompletedHasDataset, Row
<1>2. CompletedInv => CompletedHasDataset
  BY DEF CompletedInv
<1> QED
  BY <1>1, CompletedStep, <1>2, PTL DEF Spec

(***************************************************************************)
(* A confirmation is spent by the commit it leads to.  It is held by the    *)
(* row while the row waits for the slot, or for the process claimed for it  *)
(* to look at it, and by the process from there until the dataset is made.  *)
(* A row that stays RUNNING after its process is gone holds none, and       *)
(* cannot be claimed again: the slot stays closed until the recovery failed *)
(* it.  Two processes are on one job only after it was shared.              *)
(***************************************************************************)
HeldByRow(j) ==
  /\ row[j].step = "queued_for_import"
  /\ \/ row[j].status = "PENDING"
     \/ row[j].status = "RUNNING" /\ \E g \in Backends : proc[g].job = j /\ proc[g].pc = "load"

HeldByWorker(j) == \E g \in Backends : proc[g].job = j /\ proc[g].pc \in {"commit", "import"}

Held(j) == (IF HeldByRow(j) THEN 1 ELSE 0) + (IF HeldByWorker(j) THEN 1 ELSE 0)

Accounted == \A j \in Jobs \ shared : dataset[j] + Held(j) <= confirmed[j]

OneProcess ==
  \A j \in Jobs \ shared : \A g, h \in Backends :
    Alive(g) /\ Alive(h) /\ proc[g].job = j /\ proc[h].job = j => g = h

ClaimNeedsSlot == claim # None => worker = Idle /\ sched = "poll"

RecoveryNeedsSlot == sched # "poll" => worker = Idle

(* A process that writes the row of its job once more before it exits.      *)
WillWrite(g, j) ==
  /\ proc[g].job = j
  /\ proc[g].pc \in {"detect", "select", "draft", "fail", "commit", "import", "complete"}

(* A RUNNING import has its process in the slot, or the recovery has still  *)
(* to look at it, or the process of a killed backend is past its claim and  *)
(* will write the row again, or that process died since recovery looked.    *)
RunningIsWatched ==
  \A j \in Jobs : row[j].status = "RUNNING" =>
    \/ worker.job = j
    \/ sched = "recover"
    \/ sched = "fail" /\ j \in abandoned
    \/ row[j].step \notin Queued /\ ((\E g \in Backends : WillWrite(g, j)) \/ j \in lost)

CommitInv ==
  TypeInv /\ ClaimNeedsSlot /\ RecoveryNeedsSlot /\ RunningIsWatched /\ OneProcess /\ Accounted

(* The slot is never shared, and no RUNNING row is forgotten.               *)
LEMMA SlotStep ==
  CommitInv /\ [Next]_vars => ClaimNeedsSlot' /\ RecoveryNeedsSlot' /\ RunningIsWatched'
<1> SUFFICES ASSUME CommitInv, [Next]_vars
             PROVE  ClaimNeedsSlot' /\ RecoveryNeedsSlot' /\ RunningIsWatched'
  OBVIOUS
<1>a. TypeInv
  BY DEF CommitInv
<1>b. /\ row \in [Jobs -> Rows] /\ proc \in [Backends -> Processes] /\ claim \in Jobs \union {None}
      /\ sched \in {"recover", "fail", "poll"} /\ abandoned \subseteq Jobs /\ gen \in Backends
  BY <1>a DEF TypeInv, TypeOK
<1>c. \A r \in Requests : req[r].kind # "none" => req[r].job \in Jobs
  BY <1>a DEF TypeInv, RequestsNameJobs
<1>d. None \notin Jobs /\ Idle.pc = "none" /\ Idle.job = None
  BY ConstantsAssumption, IdleTyped DEF ConstantsAssumption
<1> DEFINE Good == ClaimNeedsSlot' /\ RecoveryNeedsSlot' /\ RunningIsWatched'
<1> USE DEF CommitInv, ClaimNeedsSlot, RecoveryNeedsSlot, RunningIsWatched, worker
\* A step of no process that makes no row RUNNING.
<1>e. ASSUME UNCHANGED <<claim, gen, proc, sched, abandoned, lost>>,
             \A j \in Jobs : row'[j] = row[j] \/ row'[j].status # "RUNNING"
      PROVE Good
  BY <1>e DEF WillWrite
<1>1. ASSUME NEW j \in Jobs, Prepare(j) PROVE Good
  BY <1>1, <1>b, <1>e DEF Prepare, Row, history
<1>2. ASSUME NEW r \in Requests, NEW j \in Jobs, NEW kind \in {"upload", "finalize", "cancel", "interrupt"},
             Read(r, j, kind)
      PROVE Good
  BY <1>2, <1>e DEF Read, history
<1>3. ASSUME NEW r \in Requests, Respond(r) PROVE Good
  <2>1. UNCHANGED <<claim, gen, proc, sched, abandoned, lost>>
    BY <1>3 DEF Respond, Upload, CheckAttach, Attach, Finalize, Cancel, Interrupt, history
  <2>2. \A j \in Jobs : row'[j] = row[j] \/ row'[j].status # "RUNNING"
    BY <1>3, <1>b, <1>c DEF Respond, Upload, CheckAttach, Attach, Finalize, Cancel, Interrupt, Rows, Row
  <2> QED BY <2>1, <2>2, <1>e
<1>4. ASSUME NEW j \in Jobs, ClaimSelect(j) PROVE Good
  BY <1>4, <1>d DEF ClaimSelect, WillWrite, history
<1>5. CASE ClaimUpdate
  <2>1. /\ claim \in Jobs /\ claim' = None /\ sched' = "poll" /\ sched = "poll"
        /\ UNCHANGED <<gen, lost>> /\ worker = Idle
    BY <1>5, <1>b DEF ClaimUpdate
  <2>2. \A j \in Jobs \ {claim} : row'[j] = row[j]
    BY <1>5, <1>b DEF ClaimUpdate
  <2>3. proc'[gen].job = claim /\ \A h \in Backends \ {gen} : proc'[h] = proc[h]
    BY <1>5, <1>b DEF ClaimUpdate
  <2>4. \A j \in Jobs \ {claim} : \A h \in Backends : WillWrite(h, j) => WillWrite(h, j)'
    BY <2>1, <2>3, <1>d DEF WillWrite
  <2>5. ASSUME NEW j \in Jobs \ {claim}, row'[j].status = "RUNNING"
        PROVE  row'[j].step \notin Queued /\ ((\E g \in Backends : WillWrite(g, j)') \/ j \in lost')
    BY <2>1, <2>2, <2>4, <2>5, <1>d
  <2> QED BY <2>1, <2>3, <2>5
<1>6. CASE Reap
  BY <1>6, <1>b, <1>d DEF Reap
<1>7. CASE Recover
  BY <1>7 DEF Recover
<1>8. ASSUME NEW j \in Jobs, FailAbandoned(j) PROVE Good
  <2>1. row'[j].status = "FAILED" /\ \A k \in Jobs \ {j} : row'[k] = row[k]
    BY <1>8, <1>b DEF FailAbandoned, Rows
  <2>2. UNCHANGED <<claim, gen, proc, sched, lost>> /\ abandoned' = abandoned \ {j}
    BY <1>8 DEF FailAbandoned, history
  <2> QED BY <2>1, <2>2 DEF WillWrite
<1>9. CASE Recovered
  BY <1>9 DEF Recovered, WillWrite, history
<1>10. CASE Restart \/ Kill
  <2>1. claim' = None /\ sched' = "recover"
    BY <1>10 DEF Restart, Kill, NewBackend
  <2>2. worker' = Idle
    <3>1. CASE Restart
      BY <3>1, <1>b DEF Restart
    <3>2. CASE Kill
      <4>1. gen + 1 \in Backends /\ gen + 1 > gen
        BY <3>2, <1>a, BackendsTyped DEF Kill, NewBackend, TypeInv, TypeOK, BackendsAhead, Backends
      <4> QED BY <3>2, <4>1, <1>a DEF Kill, TypeInv, BackendsAhead
    <3> QED BY <1>10, <3>1, <3>2
  <2> QED BY <2>1, <2>2
<1>11. ASSUME NEW g \in Backends, WorkerStep(g) \/ WorkerDies(g) PROVE Good
  <2>1. /\ \A h \in Backends \ {g} : proc'[h] = proc[h]
        /\ proc'[g].job = proc[g].job /\ proc[g].job \in Jobs
        /\ proc[g].pc # "none" /\ proc'[g].pc # "none"
        /\ \A j \in Jobs \ {proc[g].job} : row'[j] = row[j]
        /\ UNCHANGED <<claim, gen, sched, abandoned>>
    BY <1>11, <1>a, WorkerShape
  <2>2. lost \subseteq lost'
    BY <1>11 DEF WorkerStep, Load, Detect, Select, Draft, FailJob, CommitBegin, Import, Complete,
       Cleanup, WorkerOnly, history, WorkerDies
  <2>3. ClaimNeedsSlot' /\ RecoveryNeedsSlot'
    <3>1. CASE g = gen
      BY <3>1, <2>1, <1>d
    <3>2. CASE g # gen
      BY <3>2, <2>1, <1>b
    <3> QED BY <3>1, <3>2
  <2>4. worker'.job = worker.job
    BY <2>1, <1>b
  \* What becomes of the row of a process that a killed backend left.
  <2>5. ASSUME g # gen, row'[proc[g].job].status = "RUNNING"
        PROVE  \/ row'[proc[g].job].step \notin Queued /\ WillWrite(g, proc[g].job)'
               \/ /\ row'[proc[g].job] = row[proc[g].job]
                  /\ WillWrite(g, proc[g].job) => WillWrite(g, proc[g].job)' \/ proc[g].job \in lost'
    <3>1. CASE Load(g) \/ Cleanup(g)
      BY <3>1 DEF Load, Cleanup, WillWrite
    <3>2. CASE WorkerDies(g)
      BY <3>2, <2>5 DEF WorkerDies, W
    <3>3. CASE Detect(g) \/ Select(g) \/ CommitBegin(g)
      <4>1. CASE row'[proc[g].job] = row[proc[g].job] /\ proc'[g].pc = "fail"
        BY <4>1, <2>1 DEF WillWrite
      <4>2. CASE /\ row'[proc[g].job].step \in {"detecting_format", "building_manifest_draft", "importing_dataset"}
                 /\ proc'[g].pc \in {"select", "draft", "import"}
        BY <4>2, <2>1 DEF WillWrite, Queued
      <4> QED BY <3>3, <4>1, <4>2, <2>1, <1>b DEF Detect, Select, CommitBegin, Write, Goto, W, Row
    <3>4. CASE Draft(g) \/ FailJob(g) \/ Complete(g)
      <4>1. row' = row /\ proc'[g].pc = "fail"
        BY <3>4, <2>5, <2>1, <1>b DEF Draft, FailJob, Complete, Write, Goto, W, Row
      <4> QED BY <4>1, <2>1 DEF WillWrite
    <3>5. CASE Import(g)
      <4>1. row' = row /\ proc'[g].pc \in {"complete", "fail"}
        BY <3>5, <1>b DEF Import, Goto
      <4> QED BY <4>1, <2>1 DEF WillWrite
    <3> QED BY <1>11, <3>1, <3>2, <3>3, <3>4, <3>5 DEF WorkerStep
  <2>6. \A j \in Jobs, h \in Backends : WillWrite(h, j) /\ (h # g \/ j # proc[g].job) => WillWrite(h, j)'
    BY <2>1 DEF WillWrite
  <2>7. ASSUME NEW j \in Jobs, row'[j].status = "RUNNING"
        PROVE  \/ worker'.job = j
               \/ sched' = "recover"
               \/ sched' = "fail" /\ j \in abandoned'
               \/ row'[j].step \notin Queued /\ ((\E h \in Backends : WillWrite(h, j)') \/ j \in lost')
    <3>1. CASE j # proc[g].job
      BY <3>1, <2>7, <2>1, <2>2, <2>4, <2>6
    <3>2. CASE j = proc[g].job /\ g = gen
      BY <3>2, <2>1
    <3>3. CASE j = proc[g].job /\ g # gen
      BY <3>3, <2>7, <2>1, <2>2, <2>4, <2>5, <2>6
    <3> QED BY <3>1, <3>2, <3>3
  <2> QED BY <2>3, <2>7
<1>12. CASE UNCHANGED vars
  BY <1>12, <1>e DEF vars, history
<1> QED
  BY <1>1, <1>2, <1>3, <1>4, <1>5, <1>6, <1>7, <1>8, <1>9, <1>10, <1>11, <1>12 DEF Next, SchedulerStep

(* Only a claim puts a second process on a job, and then the job is shared. *)
LEMMA OneProcessStep == CommitInv /\ [Next]_vars => OneProcess' /\ shared \subseteq shared'
<1> SUFFICES ASSUME CommitInv, [Next]_vars PROVE OneProcess' /\ shared \subseteq shared'
  OBVIOUS
<1>a. TypeInv
  BY DEF CommitInv
<1>b. proc \in [Backends -> Processes] /\ gen \in Backends /\ claim \in Jobs \union {None}
  BY <1>a DEF TypeInv, TypeOK
<1>d. Idle.pc = "none"
  BY IdleTyped
<1> DEFINE Good == OneProcess' /\ shared \subseteq shared'
<1> USE DEF CommitInv, OneProcess, Alive
<1>e. ASSUME UNCHANGED <<proc, shared>> PROVE Good
  BY <1>e
<1>1. ASSUME NEW r \in Requests, Respond(r) PROVE Good
  BY <1>1, <1>e DEF Respond, Upload, CheckAttach, Attach, Finalize, Cancel, Interrupt, history
<1>2. CASE ClaimUpdate
  <2>1. claim \in Jobs /\ proc[gen].pc = "none"
    BY <1>2, <1>b, <1>d DEF ClaimUpdate, ClaimNeedsSlot, worker
  <2>2. /\ proc'[gen].job = claim /\ \A h \in Backends \ {gen} : proc'[h] = proc[h]
        /\ shared \subseteq shared' /\ (LeftOn(claim) => claim \in shared')
    BY <1>2, <1>b DEF ClaimUpdate
  <2> QED BY <2>1, <2>2, <1>b DEF LeftOn
<1>3. CASE Reap \/ Restart
  <2>1. UNCHANGED shared /\ proc'[gen].pc = "none" /\ \A h \in Backends \ {gen} : proc'[h] = proc[h]
    BY <1>3, <1>b, <1>d DEF Reap, Restart, NewBackend, history
  <2> QED BY <2>1, <1>b
<1>4. ASSUME NEW g \in Backends, WorkerStep(g) \/ WorkerDies(g) PROVE Good
  <2>1. /\ \A h \in Backends \ {g} : proc'[h] = proc[h]
        /\ proc'[g].job = proc[g].job /\ proc[g].pc \notin {"none", "exited"} /\ UNCHANGED shared
    BY <1>4, <1>a, WorkerShape
  <2> QED BY <2>1
<1> QED
  BY <1>e, <1>1, <1>2, <1>3, <1>4 DEF Next, Prepare, Read, SchedulerStep, ClaimSelect, Recover, FailAbandoned,
     Recovered, Kill, NewBackend, vars, history

(* Every step keeps the account of each job that was not shared.            *)
LEMMA AccountedStep == CommitInv /\ [Next]_vars => Accounted'
<1> SUFFICES ASSUME CommitInv, [Next]_vars, NEW j \in Jobs, j \notin shared'
             PROVE  dataset'[j] + Held(j)' <= confirmed'[j]
  BY DEF Accounted
<1>a. TypeInv
  BY DEF CommitInv
<1>b. /\ row \in [Jobs -> Rows] /\ proc \in [Backends -> Processes] /\ claim \in Jobs \union {None}
      /\ dataset \in [Jobs -> Nat] /\ confirmed \in [Jobs -> Nat] /\ gen \in Backends
  BY <1>a DEF TypeInv, TypeOK
<1>c. \A r \in Requests : req[r].kind # "none" => req[r].job \in Jobs
  BY <1>a DEF TypeInv, RequestsNameJobs
<1>d. None \notin Jobs /\ Idle.pc = "none" /\ Idle.job = None
  BY ConstantsAssumption, IdleTyped DEF ConstantsAssumption
<1>s. j \notin shared
  BY OneProcessStep
<1>e. dataset[j] + Held(j) <= confirmed[j] /\ dataset[j] \in Nat /\ confirmed[j] \in Nat
  BY <1>b, <1>s DEF CommitInv, Accounted
<1>o. \A g, h \in Backends : /\ proc[g].job = j /\ proc[g].pc \notin {"none", "exited"}
                             /\ proc[h].job = j /\ proc[h].pc \notin {"none", "exited"}
                             => g = h
  BY <1>s DEF CommitInv, OneProcess, Alive
<1> DEFINE Good == dataset'[j] + Held(j)' <= confirmed'[j]
\* A step that spends nothing and creates no holder.
<1>f. ASSUME UNCHANGED <<dataset, confirmed>>,
             HeldByRow(j)' => HeldByRow(j), HeldByWorker(j)' => HeldByWorker(j)
      PROVE Good
  BY <1>e, <1>f DEF Held
<1>1. ASSUME NEW k \in Jobs, Prepare(k) PROVE Good
  BY <1>1, <1>b, <1>f DEF Prepare, HeldByRow, HeldByWorker, Row, history
<1>2. ASSUME NEW r \in Requests, NEW k \in Jobs, NEW kind \in {"upload", "finalize", "cancel", "interrupt"},
             Read(r, k, kind)
      PROVE Good
  BY <1>2, <1>f DEF Read, HeldByRow, HeldByWorker, history
<1>3. ASSUME NEW r \in Requests, NEW valid \in BOOLEAN, Upload(r, valid) \/ CheckAttach(r) PROVE Good
  BY <1>3, <1>f DEF Upload, CheckAttach, HeldByRow, HeldByWorker, history
<1>4. ASSUME NEW r \in Requests, Attach(r) \/ Cancel(r) \/ Interrupt(r) PROVE Good
  <2>1. UNCHANGED <<dataset, confirmed, proc>>
    BY <1>4 DEF Attach, Cancel, Interrupt, history
  <2>2. \/ row'[j] = row[j]
        \/ row'[j].step = "queued_for_detection"
        \/ row'[j].status = "CANCELED"
    BY <1>4, <1>b, <1>c DEF Attach, Cancel, Interrupt, Row, Rows
  <2> QED BY <2>1, <2>2, <1>f DEF HeldByRow, HeldByWorker
<1>5. ASSUME NEW r \in Requests, Finalize(r) PROVE Good
  <2>1. UNCHANGED <<dataset, proc>>
    BY <1>5 DEF Finalize
  <2>2. CASE req[r].job = j
    <3>1. confirmed'[j] = confirmed[j] + 1
      BY <1>5, <2>2, <1>b DEF Finalize
    <3>2. HeldByWorker(j)' = HeldByWorker(j)
      BY <2>1 DEF HeldByWorker
    <3> QED BY <2>1, <3>1, <3>2, <1>e DEF Held
  <2>3. CASE req[r].job # j
    <3>1. confirmed'[j] = confirmed[j] /\ row'[j] = row[j]
      BY <1>5, <2>3, <1>b DEF Finalize
    <3>2. HeldByWorker(j)' = HeldByWorker(j) /\ HeldByRow(j)' = HeldByRow(j)
      BY <2>1, <3>1 DEF HeldByWorker, HeldByRow
    <3> QED BY <2>1, <3>1, <3>2, <1>e DEF Held
  <2> QED BY <2>2, <2>3
<1>6. ASSUME NEW k \in Jobs, ClaimSelect(k) PROVE Good
  BY <1>6, <1>f DEF ClaimSelect, HeldByRow, HeldByWorker, history
<1>7. CASE ClaimUpdate
  <2>1. worker = Idle /\ sched = "poll" /\ (row[j].status = "RUNNING" => row[j].step # "queued_for_import")
    BY <1>7, <1>d DEF ClaimUpdate, CommitInv, ClaimNeedsSlot, RunningIsWatched, Queued
  <2>2. /\ UNCHANGED <<dataset, confirmed>> /\ proc'[gen].pc = "load"
        /\ \A h \in Backends \ {gen} : proc'[h] = proc[h]
    BY <1>7, <1>b DEF ClaimUpdate
  <2>3. row'[j] = row[j] \/ (row[j].status = "PENDING" /\ row'[j].step = row[j].step)
    BY <1>7, <1>b DEF ClaimUpdate, Claimable, Rows
  <2>4. HeldByRow(j)' => HeldByRow(j)
    BY <2>1, <2>3 DEF HeldByRow
  <2>5. HeldByWorker(j)' => HeldByWorker(j)
    BY <2>2 DEF HeldByWorker
  <2> QED BY <2>2, <2>4, <2>5, <1>f
<1>8. CASE Reap \/ Restart
  <2>1. /\ UNCHANGED <<dataset, confirmed, row>> /\ proc'[gen].pc = "none"
        /\ \A h \in Backends \ {gen} : proc'[h] = proc[h]
    BY <1>8, <1>b, <1>d DEF Reap, Restart, NewBackend, history
  <2> QED BY <2>1, <1>f DEF HeldByRow, HeldByWorker
<1>9. CASE Recover \/ Recovered \/ Kill
  BY <1>9, <1>f DEF Recover, Recovered, Kill, NewBackend, HeldByRow, HeldByWorker, history
<1>10. ASSUME NEW k \in Jobs, FailAbandoned(k) PROVE Good
  <2>1. row'[j] = row[j] \/ row'[j].status = "FAILED"
    BY <1>10, <1>b DEF FailAbandoned, Rows
  <2> QED BY <1>10, <2>1, <1>f DEF FailAbandoned, HeldByRow, HeldByWorker, history
<1>11. ASSUME NEW g \in Backends, WorkerStep(g) \/ WorkerDies(g) PROVE Good
  <2>a. /\ \A h \in Backends \ {g} : proc'[h] = proc[h]
        /\ proc'[g].job = proc[g].job /\ proc[g].job \in Jobs
        /\ proc[g].pc \notin {"none", "exited"}
        /\ \A k \in Jobs \ {proc[g].job} : row'[k] = row[k]
        /\ UNCHANGED confirmed
    BY <1>11, <1>a, WorkerShape
  <2>1. CASE proc[g].job # j
    <3>1. row'[j] = row[j] /\ dataset'[j] = dataset[j]
      BY <1>11, <2>a, <2>1, <1>b DEF WorkerStep, Load, Detect, Select, Draft, FailJob, CommitBegin, Import,
         Complete, Cleanup, WorkerDies, W
    <3>2. HeldByRow(j)' = HeldByRow(j) /\ HeldByWorker(j)' = HeldByWorker(j)
      BY <3>1, <2>a, <2>1 DEF HeldByRow, HeldByWorker
    <3> QED BY <3>1, <3>2, <2>a, <1>e DEF Held
  <2>2. CASE proc[g].job = j /\ Load(g)
    <3>1. /\ UNCHANGED <<dataset, row>> /\ proc[g].pc = "load" /\ proc'[g].pc \notin {"load", "import"}
          /\ proc'[g].pc = "commit" => row[j].status = "RUNNING" /\ row[j].step = "queued_for_import"
      BY <2>2, <1>b DEF Load, W
    <3>2. \A h \in Backends \ {g} : proc[h].job = j => proc[h].pc \in {"none", "exited"}
      BY <2>2, <3>1, <1>o
    <3>3. HeldByRow(j)' => row[j].status = "PENDING" /\ HeldByRow(j)
      BY <3>1, <3>2, <2>a DEF HeldByRow
    <3>4. HeldByWorker(j)' => HeldByRow(j) /\ row[j].status = "RUNNING"
      BY <3>1, <3>2, <2>a, <2>2 DEF HeldByRow, HeldByWorker
    <3>5. ~HeldByWorker(j)
      BY <3>1, <3>2 DEF HeldByWorker
    <3> QED BY <2>a, <3>1, <3>3, <3>4, <3>5, <1>e DEF Held
  <2>3. CASE proc[g].job = j /\ Import(g)
    <3>1. UNCHANGED row /\ proc'[g].pc \in {"complete", "fail"} /\ proc[g].pc = "import"
      BY <2>3, <1>b DEF Import, Goto
    <3>2. dataset'[j] = dataset[j] \/ dataset'[j] = dataset[j] + 1
      BY <2>3, <1>b DEF Import, W
    <3>3. \A h \in Backends \ {g} : proc[h].job = j => proc[h].pc \in {"none", "exited"}
      BY <2>3, <3>1, <1>o
    <3>4. ~HeldByWorker(j)' /\ HeldByWorker(j)
      BY <3>1, <3>3, <2>a, <2>3 DEF HeldByWorker
    <3>5. HeldByRow(j)' => HeldByRow(j)
      BY <3>1, <2>a DEF HeldByRow
    <3> QED BY <2>a, <3>2, <3>4, <3>5, <1>e DEF Held
  <2>4. CASE proc[g].job = j /\ (Detect(g) \/ Select(g) \/ Draft(g) \/ FailJob(g) \/ CommitBegin(g)
                                 \/ Complete(g) \/ Cleanup(g) \/ WorkerDies(g))
    <3>1. /\ UNCHANGED dataset /\ proc'[g].pc \notin {"load", "commit"}
          /\ proc'[g].pc = "import" => proc[g].pc = "commit"
      BY <2>4, <1>b DEF Detect, Select, Draft, FailJob, CommitBegin, Complete, Cleanup, WorkerDies, Write, Goto
    <3>2. \/ row'[j] = row[j]
          \/ row'[j].step # "queued_for_import"
          \/ row'[j].status = "FAILED"
      BY <2>4, <1>b DEF Detect, Select, Draft, FailJob, CommitBegin, Complete, Cleanup, WorkerDies,
         Write, W, Row, Rows
    <3>3. HeldByRow(j)' => HeldByRow(j)
      BY <3>1, <3>2, <2>a DEF HeldByRow
    <3>4. HeldByWorker(j)' => HeldByWorker(j)
      BY <3>1, <2>a, <2>4 DEF HeldByWorker
    <3> QED BY <2>a, <3>1, <3>3, <3>4, <1>f
  <2> QED BY <1>11, <2>1, <2>2, <2>3, <2>4 DEF WorkerStep
<1>12. CASE UNCHANGED vars
  BY <1>12, <1>f DEF vars, HeldByRow, HeldByWorker, history
<1> QED
  BY <1>1, <1>2, <1>3, <1>4, <1>5, <1>6, <1>7, <1>8, <1>9, <1>10, <1>11, <1>12
     DEF Next, Respond, SchedulerStep

LEMMA CommitInit == Init => CommitInv
<1> SUFFICES ASSUME Init PROVE CommitInv
  OBVIOUS
<1>1. TypeInv
  BY TypeInit
<1>2. /\ row \in [Jobs -> Rows] /\ dataset \in [Jobs -> Nat] /\ confirmed \in [Jobs -> Nat]
      /\ \A j \in Jobs : row[j].status = "NONE" /\ dataset[j] = 0 /\ confirmed[j] = 0
  BY <1>1 DEF TypeInv, TypeOK, Init, Row
<1>3. worker = Idle /\ \A g \in Backends : proc[g].pc = "none"
  BY IdleTyped, BackendsTyped DEF Init, worker
<1>4. ASSUME NEW j \in Jobs PROVE dataset[j] + Held(j) <= confirmed[j]
  <2>1. ~HeldByRow(j) /\ ~HeldByWorker(j)
    BY <1>2, <1>3 DEF HeldByRow, HeldByWorker
  <2> QED BY <2>1, <1>2 DEF Held
<1> QED
  BY <1>1, <1>2, <1>3, <1>4 DEF Init, CommitInv, ClaimNeedsSlot, RecoveryNeedsSlot, RunningIsWatched,
     OneProcess, Alive, Accounted

LEMMA CommitStep == CommitInv /\ [Next]_vars => CommitInv'
BY TypeStep, SlotStep, OneProcessStep, AccountedStep DEF CommitInv

(* A dataset is created at most once for each confirmation of the user:     *)
(* neither a dead worker, a restart, a kill of the backend, the recovery    *)
(* nor a request that writes an old row makes a worker commit again on a    *)
(* spent one, as long as no claim puts a second process on the job beside   *)
(* the one a killed backend left there.                                     *)
THEOREM CommitsAreConfirmed == Spec => []CommitIsConfirmed
<1>1. CommitInv => CommitIsConfirmed
  <2> SUFFICES ASSUME CommitInv, NEW j \in Jobs \ shared PROVE dataset[j] <= confirmed[j]
    BY DEF CommitIsConfirmed
  <2>1. dataset[j] \in Nat /\ confirmed[j] \in Nat /\ dataset[j] + Held(j) <= confirmed[j]
    BY DEF CommitInv, TypeInv, TypeOK, Accounted
  <2> QED BY <2>1 DEF Held
<1> QED
  BY CommitInit, CommitStep, <1>1, PTL DEF Spec

(* What keeps the slot safe, as a fact of its own: an import that is        *)
(* RUNNING has its process in the slot, or the recovery has still to look   *)
(* at it, or the process of a killed backend goes on and will write the row *)
(* again.  The only row left RUNNING unseen is that of such a process that  *)
(* died itself after the recovery had looked.                               *)
THEOREM NoRunningForgotten == Spec => [](RunningIsWatched /\ RecoveryNeedsSlot)
<1>1. CommitInv => RunningIsWatched /\ RecoveryNeedsSlot
  BY DEF CommitInv
<1> QED
  BY CommitInit, CommitStep, <1>1, PTL DEF Spec

=============================================================================
