-------------------------- MODULE RecordingSession --------------------------
(***************************************************************************)
(* Recording of episodes by one runtime session: RecordingState, shared    *)
(* under a lock by the control thread (ticks, start commands) and by the   *)
(* command worker, which runs load, save, discard and finalize one at a    *)
(* time; the worker's queue and shutdown; and the session's teardown.      *)
(*                                                                         *)
(* A recording mutation is a cache dataset with an open episode buffer.    *)
(* The frames of a buffer are abstracted to the recordings (start          *)
(* commands) they were taken for.  Mutation 0 stands for None.  All loads  *)
(* name one dataset; its files and those of the caches outlive the session *)
(* process, which may be killed at any step.                               *)
(***************************************************************************)
EXTENDS Naturals, Sequences, FiniteSets

CONSTANTS
  MaxLoads,   \* bound on the number of recording mutations
  MaxStarts,  \* bound on the number of start commands
  MaxQueue,   \* bound on the length of the command queue
  JoinCanTimeOut  \* whether the join of the command worker may expire

ASSUME ConstantsAssumption ==
  /\ MaxLoads \in Nat /\ MaxStarts \in Nat /\ MaxQueue \in Nat
  /\ JoinCanTimeOut \in BOOLEAN

Mutations  == 1..MaxLoads
Recordings == 1..MaxStarts

VARIABLES
  current,    \* RecordingState._mutation
  recording,  \* RecordingState._is_recording
  closed,     \* RecordingState._closed
  recorded,   \* RecordingState._episodes_recorded
  starts,     \* start commands accepted so far
  loads,      \* mutations created so far
  buffer,     \* recordings with frames in the open buffer of each mutation
  saved,      \* episodes saved into each mutation
  mutated,    \* mutations with RecordingMutation.has_mutation
  base,       \* episodes each cache was created with
  finalized,  \* mutations whose cache was closed
  lost,       \* mutations whose cache could not be closed
  caches,     \* mutations whose cache directory is on disk
  dataset,    \* episodes in the dataset directory
  broken,     \* an overwrite of the dataset was begun and not completed
  queue,      \* CommandWorker._jobs
  accepting,  \* ~CommandWorker._closed
  thread,     \* CommandWorker._thread
  job,        \* the job being run: its name, where it is, its mutation
  phase       \* what the session's main thread does

recVars == <<current, recording, closed, recorded, starts, loads>>
diskVars == <<base, finalized, lost, caches, dataset, broken>>
mutVars == <<buffer, saved, mutated, diskVars>>
cmdVars == <<queue, accepting, thread, job>>
vars == <<recVars, mutVars, cmdVars, phase>>

Commands == {"load", "save", "discard", "finalize"}
Idle == [name |-> "none", at |-> "idle", mut |-> 0, taken |-> {}]

Init ==
  /\ current = 0 /\ recording = FALSE /\ closed = FALSE /\ recorded = 0
  /\ starts = 0 /\ loads = 0
  /\ buffer = [m \in Mutations |-> {}]
  /\ saved = [m \in Mutations |-> {}]
  /\ mutated = {}
  /\ base = [m \in Mutations |-> {}]
  /\ finalized = {} /\ lost = {} /\ caches = {}
  /\ dataset = {} /\ broken = FALSE
  /\ queue = <<>> /\ accepting = TRUE /\ thread = "none" /\ job = Idle
  /\ phase = "running"

-----------------------------------------------------------------------------
(* The control thread, between two ticks or in one. *)

(* StartRecordingCommand, drained from the mailbox: RecordingState.start.   *)
(* While an episode is open it only changes the task.                       *)
Start ==
  /\ phase = "running"
  /\ current # 0 /\ ~closed
  /\ ~recording
  /\ starts < MaxStarts
  /\ recording' = TRUE
  /\ starts' = starts + 1
  /\ UNCHANGED <<current, closed, recorded, loads, mutVars, cmdVars, phase>>

(* RecordingCallback.on_tick: add_frame under the state lock.               *)
Tick ==
  /\ phase = "running"
  /\ ~closed /\ recording /\ current # 0
  /\ buffer' = [buffer EXCEPT ![current] = @ \cup {starts}]
  /\ UNCHANGED <<recVars, saved, mutated, diskVars, cmdVars, phase>>

-----------------------------------------------------------------------------
(* Transport and watcher threads: commands for the worker. *)

(* mutant: the closed flag is not checked under the lock *)
SubmitUnlocked(name) ==
  /\ Len(queue) < MaxQueue
  /\ name = "finalize" => current # 0
  /\ queue' = Append(queue, name)
  /\ thread' = IF thread = "none" THEN "alive" ELSE thread
  /\ UNCHANGED <<recVars, mutVars, accepting, job, phase>>

(* CommandWorker.submit: closed check, thread start and put under one lock. *)
Submit(name) ==
  /\ accepting
  /\ Len(queue) < MaxQueue
  /\ name = "finalize" => current # 0
  /\ queue' = Append(queue, name)
  /\ thread' = "alive"
  /\ UNCHANGED <<recVars, mutVars, accepting, job, phase>>

-----------------------------------------------------------------------------
(* The command worker. *)

At(name, where) == job.name = name /\ job.at = where
Goto(where) == job' = [job EXCEPT !.at = where]

(* mutant: the count survives the detached mutation *)
TakeMutationKeepsCount(where) ==
  /\ current' = 0 /\ recording' = FALSE
  /\ job' = IF current = 0
            THEN IF job.name = "load" THEN [job EXCEPT !.at = "attach"] ELSE Idle
            ELSE [job EXCEPT !.at = where, !.mut = current]
  /\ UNCHANGED <<closed, recorded, starts, loads, mutVars>>

(* take_mutation: detach, and forget the count of unsaved-to-dataset        *)
(* episodes.                                                                *)
TakeMutation(where) ==
  /\ current' = 0 /\ recording' = FALSE /\ recorded' = 0
  /\ job' = IF current = 0
            THEN IF job.name = "load" THEN [job EXCEPT !.at = "attach"] ELSE Idle
            ELSE [job EXCEPT !.at = where, !.mut = current]
  /\ UNCHANGED <<closed, starts, loads, mutVars>>

Dequeue ==
  /\ thread = "alive"
  /\ job = Idle
  /\ queue # <<>>
  /\ queue' = Tail(queue)
  /\ IF Head(queue) = "shutdown"
     THEN thread' = "exited" /\ UNCHANGED job
     ELSE job' = [Idle EXCEPT !.name = Head(queue), !.at = "begin"] /\ UNCHANGED thread
  /\ UNCHANGED <<recVars, mutVars, accepting, phase>>

jobOnly == <<queue, accepting, thread, phase>>

(* _save_episode: stop_episode raises unless an episode is open; entering   *)
(* save_episode sets has_mutation, whatever comes of the encoder.           *)
SaveBegin ==
  /\ At("save", "begin")
  /\ IF recording /\ current # 0
     THEN /\ recording' = FALSE
          /\ job' = [job EXCEPT !.at = "encode", !.mut = current, !.taken = buffer[current]]
          /\ mutated' = mutated \cup {current}
     ELSE job' = Idle /\ UNCHANGED <<recording, mutated>>
  /\ UNCHANGED <<jobOnly, current, closed, recorded, starts, loads, buffer, saved, diskVars>>

(* The encoder wrote the episode and the buffer is a fresh one.  Frames     *)
(* that arrived meanwhile are in the episode or lost.                       *)
SaveEncode ==
  /\ At("save", "encode")
  /\ job.taken # {}
  /\ \E e \in SUBSET buffer[job.mut] :
       job.taken \subseteq e /\ saved' = [saved EXCEPT ![job.mut] = @ \cup {e}]
  /\ buffer' = [buffer EXCEPT ![job.mut] = {}]
  /\ Goto("mark")
  /\ UNCHANGED <<jobOnly, recVars, mutated, diskVars>>

(* The encoder raised (always, for an empty buffer): the buffer stays.      *)
SaveFails ==
  /\ At("save", "encode")
  /\ job' = Idle
  /\ UNCHANGED <<jobOnly, recVars, mutVars>>

SaveMark ==
  /\ At("save", "mark")
  /\ recording' = FALSE /\ recorded' = recorded + 1
  /\ job' = Idle
  /\ UNCHANGED <<jobOnly, current, closed, starts, loads, mutVars>>

(* _discard_episode: current_mutation clears the flag.                      *)
DiscardBegin ==
  /\ At("discard", "begin")
  /\ recording' = FALSE
  /\ job' = IF current = 0 THEN Idle ELSE [job EXCEPT !.at = "drop", !.mut = current]
  /\ UNCHANGED <<jobOnly, current, closed, recorded, starts, loads, mutVars>>

(* discard_buffer; a failure is raised (discard) or logged (finalize).      *)
DropBuffer ==
  /\ At("discard", "drop") \/ At("finalize", "drop")
  /\ \/ buffer' = [buffer EXCEPT ![job.mut] = {}] /\ Goto("mark")
     \/ /\ UNCHANGED buffer
        /\ IF job.name = "discard" THEN job' = Idle ELSE Goto("mark")
  /\ UNCHANGED <<jobOnly, recVars, saved, mutated, diskVars>>

(* mark_discarded *)
DiscardMark ==
  /\ At("discard", "mark") \/ At("finalize", "mark")
  /\ recording' = FALSE
  /\ IF job.name = "discard" THEN job' = Idle ELSE Goto("take")
  /\ UNCHANGED <<jobOnly, current, closed, recorded, starts, loads, mutVars>>

(* _finalize_recording: _discard_open_episode first.                        *)
FinalizeBegin ==
  /\ At("finalize", "begin")
  /\ IF recording
     THEN recording' = FALSE /\ job' = [job EXCEPT !.at = "drop", !.mut = current]
     ELSE Goto("take") /\ UNCHANGED recording
  /\ UNCHANGED <<jobOnly, current, closed, recorded, starts, loads, mutVars>>

FinalizeTake == At("finalize", "take") /\ TakeMutation("close") /\ UNCHANGED jobOnly

(* _load_dataset: detach the previous mutation once the devices are ready.  *)
LoadBegin ==
  /\ At("load", "begin")
  /\ loads < MaxLoads
  /\ TakeMutation("close")
  /\ UNCHANGED jobOnly

(* The devices never became ready, or the dataset cannot be opened.         *)
LoadFails ==
  /\ At("load", "begin") \/ At("load", "attach")
  /\ job' = Idle
  /\ UNCHANGED <<jobOnly, recVars, mutVars>>

(* RecordingMutation.teardown, up to its first error: close the cache,      *)
(* overwrite the dataset if an episode was saved, delete the cache.  An     *)
(* error is logged (finalize) or fails the load, and nothing undoes it.     *)
Tearing(where) == At("load", where) \/ At("finalize", where)

Content(m) == base[m] \cup saved[m]

(* cache_dataset.finalize                                                   *)
CloseCache ==
  /\ Tearing("close")
  /\ \/ /\ finalized' = finalized \cup {job.mut} /\ UNCHANGED lost
        /\ Goto(IF job.mut \in mutated THEN "clear" ELSE "delete")
     \/ lost' = lost \cup {job.mut} /\ job' = Idle /\ UNCHANGED finalized
  /\ UNCHANGED <<jobOnly, recVars, buffer, saved, mutated, base, caches, dataset, broken>>

(* overwrite, rmtree of the dataset: it may raise halfway.                  *)
ClearDataset ==
  /\ Tearing("clear")
  /\ broken' = TRUE
  /\ \/ dataset' = {} /\ Goto("copy")
     \/ dataset' \in SUBSET dataset /\ job' = Idle
  /\ UNCHANGED <<jobOnly, recVars, buffer, saved, mutated, base, finalized, lost, caches>>

(* mutant: the cache is deleted although the copy raised *)
CopyCacheDeletesAnyway ==
  /\ Tearing("copy")
  /\ Goto("delete")
  /\ dataset' \in SUBSET Content(job.mut)
  /\ broken' = (dataset' # Content(job.mut))
  /\ UNCHANGED <<jobOnly, recVars, buffer, saved, mutated, base, finalized, lost, caches>>

(* overwrite, copytree of the cache and load_dataset: either may raise.     *)
CopyCache ==
  /\ Tearing("copy")
  /\ \/ dataset' = Content(job.mut) /\ broken' = FALSE /\ Goto("delete")
     \/ dataset' \in SUBSET Content(job.mut) /\ job' = Idle /\ UNCHANGED broken
  /\ UNCHANGED <<jobOnly, recVars, buffer, saved, mutated, base, finalized, lost, caches>>

(* cache_dataset.delete: an rmtree, which may raise halfway too.            *)
DeleteCache ==
  /\ Tearing("delete")
  /\ caches' = caches \ {job.mut}
  /\ job' = Idle \/ (job.name = "load" /\ Goto("attach"))
  /\ UNCHANGED <<jobOnly, recVars, buffer, saved, mutated, base, finalized, lost, dataset, broken>>

(* start_recording_mutation, then attach_mutation: the cache starts as a    *)
(* copy of the dataset, or empty where no dataset is found, which may be so *)
(* once an overwrite has failed.                                            *)
Attach ==
  /\ At("load", "attach")
  /\ loads < MaxLoads
  /\ loads' = loads + 1
  /\ current' = loads + 1 /\ recording' = FALSE
  /\ caches' = caches \cup {loads + 1}
  /\ \E found \in {dataset} \cup IF broken THEN {{}} ELSE {} :
       base' = [base EXCEPT ![loads + 1] = found]
  /\ job' = Idle
  /\ UNCHANGED <<jobOnly, closed, recorded, starts, buffer, saved, mutated, finalized, lost, dataset, broken>>

-----------------------------------------------------------------------------
(* The session's main thread, after the control loop returned. *)

(* mutant: no sentinel is put *)
TeardownWithoutSentinel ==
  /\ phase = "running"
  /\ accepting' = FALSE
  /\ phase' = "draining"
  /\ UNCHANGED <<recVars, mutVars, queue, thread, job>>

(* CommandWorker.shutdown: close and put the sentinel under the lock.       *)
Teardown ==
  /\ phase = "running"
  /\ accepting' = FALSE
  /\ queue' = IF thread = "alive" THEN Append(queue, "shutdown") ELSE queue
  /\ phase' = "draining"
  /\ UNCHANGED <<recVars, mutVars, thread, job>>

(* The worker drained (or never ran): finalize on this thread.              *)
Drained ==
  /\ phase = "draining"
  /\ thread # "alive"
  /\ job = Idle
  /\ job' = [Idle EXCEPT !.name = "finalize", !.at = "begin"]
  /\ phase' = "finalizing"
  /\ UNCHANGED <<recVars, mutVars, queue, accepting, thread>>

(* The join expired: the recording is left to the job in flight.            *)
JoinExpires ==
  /\ phase = "draining"
  /\ JoinCanTimeOut
  /\ thread = "alive"
  /\ closed' = TRUE
  /\ phase' = "abandoned"
  /\ UNCHANGED <<current, recording, recorded, starts, loads, mutVars, cmdVars>>

(* RecordingCallback.close, then the devices are released.                  *)
Close ==
  /\ phase = "finalizing"
  /\ job = Idle
  /\ closed' = TRUE
  /\ phase' = "ended"
  /\ UNCHANGED <<current, recording, recorded, starts, loads, mutVars, cmdVars>>

(* The process and its memory are gone, at any step: SIGKILL by             *)
(* stop_runtime_session, or its exit after an expired join, which takes the *)
(* daemon thread along.                                                     *)
Kill ==
  /\ phase \notin {"ended", "killed"}
  /\ phase' = "killed"
  /\ current' = 0 /\ recording' = FALSE /\ recorded' = 0
  /\ queue' = <<>> /\ accepting' = FALSE /\ thread' = "killed" /\ job' = Idle
  /\ UNCHANGED <<closed, starts, loads, mutVars>>

JobStep ==
  \/ Dequeue \/ SaveBegin \/ SaveEncode \/ SaveFails \/ SaveMark
  \/ DiscardBegin \/ DropBuffer \/ DiscardMark
  \/ FinalizeBegin \/ FinalizeTake \/ LoadBegin \/ LoadFails
  \/ CloseCache \/ ClearDataset \/ CopyCache \/ DeleteCache \/ Attach

Next ==
  \/ Start \/ Tick
  \/ \E name \in Commands : Submit(name)
  \/ JobStep
  \/ Teardown \/ Drained \/ JoinExpires \/ Close \/ Kill

Spec == Init /\ [][Next]_vars

(* The worker and main threads are scheduled; encoders and copies return.   *)
FairSpec == Spec /\ WF_vars(JobStep) /\ WF_vars(Drained) /\ WF_vars(Close)

-----------------------------------------------------------------------------
TypeOK ==
  /\ current \in 0..MaxLoads
  /\ recording \in BOOLEAN /\ closed \in BOOLEAN /\ accepting \in BOOLEAN
  /\ recorded \in Nat
  /\ starts \in 0..MaxStarts /\ loads \in 0..MaxLoads
  /\ buffer \in [Mutations -> SUBSET Recordings]
  /\ saved \in [Mutations -> SUBSET SUBSET Recordings]
  /\ base \in [Mutations -> SUBSET SUBSET Recordings]
  /\ mutated \in SUBSET Mutations /\ finalized \in SUBSET Mutations
  /\ lost \in SUBSET Mutations /\ caches \in SUBSET Mutations
  /\ dataset \in SUBSET SUBSET Recordings /\ broken \in BOOLEAN
  /\ queue \in Seq(Commands \cup {"shutdown"})
  /\ thread \in {"none", "alive", "exited", "killed"}
  /\ job \in [name : Commands \cup {"none"},
              at : {"idle", "begin", "encode", "mark", "drop", "take", "close",
                    "clear", "copy", "delete", "attach"},
              mut : 0..MaxLoads, taken : SUBSET Recordings]
  /\ phase \in {"running", "draining", "finalizing", "ended", "abandoned", "killed"}

(* "_episodes_recorded counts episodes saved into the attached mutation and *)
(* not yet copied into the dataset": the count published to the UI never    *)
(* double-counts a copied episode nor misses one, across loads, failed      *)
(* saves, finalization by the watcher and reattachment.                     *)
CountIsUncopied ==
  ~At("save", "mark") =>
    recorded = IF current = 0 THEN 0 ELSE Cardinality(saved[current])

(* An episode outlives everything after the closing of its cache: failed    *)
(* removals and copies, later loads over a damaged dataset, a kill at any   *)
(* step.  It is in the dataset or in a closed cache on disk.  A session     *)
(* that ended orderly closed every cache with episodes it could close.      *)
SavedIsKept ==
  /\ \A m \in finalized :
       saved[m] \subseteq dataset \cup UNION {Content(n) : n \in caches \cap finalized}
  /\ phase = "ended" =>
       \A m \in Mutations : saved[m] # {} => m \in finalized \cup lost

(* CommandWorker.submit: a command that passed the closed check is run;     *)
(* the worker never exits in front of it.                                   *)
AcceptedCommandsRun == thread = "exited" => queue = <<>>

(* Teardown comes to an end once it began, whatever was queued.             *)
TeardownEnds == phase = "draining" ~> phase \in {"ended", "abandoned", "killed"}

(* Ticks skip while an episode is encoded: after stop_episode "later ticks  *)
(* see is_recording is false and skip, then video encode can run".          *)
NoFrameDuringEncode ==
  [][At("save", "encode") /\ At("save", "encode")' => UNCHANGED buffer]_vars

(* A saved episode holds frames of one recording only: no frame is appended *)
(* to a buffer whose write failed.                                          *)
EpisodesArePure ==
  \A m \in Mutations : \A e \in saved[m] : Cardinality(e) = 1

(* Refuted: an episode that was copied back, its cache deleted, is in the   *)
(* dataset from then on.  A later overwrite removes the dataset first, and  *)
(* its copy may raise or be killed.                                         *)
CopiedStaysInDataset ==
  \A m \in finalized \ caches : Tearing("copy") \/ saved[m] \subseteq dataset

(* Refuted: "process exit cannot kill a copytree that has already deleted   *)
(* its destination" (finalize_recording): it can once the join expired.     *)
ExitSparesCopy == [][phase = "abandoned" /\ phase' = "killed" => ~Tearing("copy")]_vars
=============================================================================
