----------------------- MODULE RecordingSessionProofs -----------------------
(* Theorems about RecordingSession for any number of mutations, start       *)
(* commands and queued commands, with or without an expiring join.          *)
EXTENDS RecordingSession, FiniteSetTheorems, SequenceTheorems, TLAPS

(***************************************************************************)
(* Types, with what the job in progress knows: a job that is named is never *)
(* idle, an episode being encoded or counted belongs to the attached        *)
(* mutation, and a mutation being copied back is attached no more.          *)
(***************************************************************************)
JobRecords ==
  [name : Commands \cup {"none"},
   at : {"idle", "begin", "encode", "mark", "drop", "take", "close", "clear", "copy", "delete",
         "attach"},
   mut : 0..MaxLoads, taken : SUBSET Recordings]

JobKnows ==
  /\ job.name = "none" => job = Idle
  /\ At("save", "encode") \/ At("save", "mark") => job.mut = current /\ current # 0
  /\ job.at \in {"close", "clear", "copy", "delete"} => job.mut # 0 /\ current = 0
  /\ job.at = "attach" => current = 0

RecordingStarted == recording => starts > 0

StateType ==
  /\ current \in 0..MaxLoads /\ recorded \in Nat
  /\ starts \in 0..MaxStarts /\ loads \in 0..MaxLoads
  /\ thread \in {"none", "alive", "exited", "killed"}
  /\ phase \in {"running", "draining", "finalizing", "ended", "abandoned", "killed"}

FlagType == recording \in BOOLEAN /\ closed \in BOOLEAN /\ accepting \in BOOLEAN

EpisodeType ==
  /\ buffer \in [Mutations -> SUBSET Recordings]
  /\ saved \in [Mutations -> SUBSET SUBSET Recordings]
  /\ base \in [Mutations -> SUBSET SUBSET Recordings]
  /\ mutated \in SUBSET Mutations /\ finalized \in SUBSET Mutations
  /\ lost \in SUBSET Mutations /\ caches \in SUBSET Mutations
  /\ dataset \in SUBSET SUBSET Recordings /\ broken \in BOOLEAN

QueueType == queue \in Seq(Commands \cup {"shutdown"})

TypeInv ==
  /\ StateType /\ FlagType /\ EpisodeType /\ QueueType /\ job \in JobRecords
  /\ JobKnows /\ RecordingStarted

LEMMA TypeInvImplies == TypeInv => TypeOK
BY DEF TypeInv, TypeOK, StateType, FlagType, EpisodeType, QueueType, JobRecords

LEMMA IdleTyped ==
  /\ Idle \in JobRecords
  /\ Idle.name = "none" /\ Idle.at = "idle"
BY ConstantsAssumption DEF ConstantsAssumption, Idle, JobRecords

LEMMA TypeInit == Init => TypeInv
<1> SUFFICES ASSUME Init PROVE TypeInv
  OBVIOUS
<1>1. FlagType
  BY Zenon DEF Init, FlagType
<1>2. StateType
  BY ConstantsAssumption DEF ConstantsAssumption, Init, StateType
<1>3. EpisodeType
  BY DEF Init, EpisodeType
<1>4. QueueType
  BY EmptySeq DEF Init, QueueType
<1>5. job \in JobRecords /\ JobKnows
  BY IdleTyped DEF Init, JobKnows, At
<1>6. RecordingStarted
  BY DEF Init, RecordingStarted
<1> QED
  BY <1>1, <1>2, <1>3, <1>4, <1>5, <1>6 DEF TypeInv

(* The mutations are the attached ones, 0 apart.                            *)
LEMMA MutationFacts ==
  /\ \A m \in 0..MaxLoads : m # 0 <=> m \in Mutations
  /\ Mutations \subseteq Nat /\ Recordings \subseteq Nat
BY ConstantsAssumption DEF ConstantsAssumption, Mutations, Recordings

(* What a job may become, without its content.                              *)
LEMMA GotoTyped ==
  ASSUME job \in JobRecords,
         NEW where \in {"begin", "encode", "mark", "drop", "take", "close", "clear", "copy", "delete",
                       "attach"}, Goto(where)
  PROVE  /\ job' \in JobRecords
         /\ job'.name = job.name /\ job'.at = where /\ job'.mut = job.mut /\ job'.taken = job.taken
BY DEF Goto, JobRecords

LEMMA TakeTyped ==
  ASSUME TypeInv, job.name \in {"load", "finalize"}, TakeMutation("close")
  PROVE  /\ job' \in JobRecords /\ JobKnows'
         /\ current' = 0 /\ recorded' = 0 /\ recording' = FALSE
         /\ UNCHANGED <<closed, starts, loads, buffer, saved, mutated, base, finalized, lost, caches, dataset, broken>>
         /\ current # 0 => job'.at = "close" /\ job'.mut = current
         /\ current = 0 => job' = Idle \/ job'.at = "attach"
         /\ job'.name \in {job.name, "none"}
         /\ job'.at \in {"idle", "close", "attach"}
<1>1. job \in JobRecords /\ current \in 0..MaxLoads
  BY DEF TypeInv, StateType
<1>2. /\ [job EXCEPT !.at = "attach"] \in JobRecords
      /\ [job EXCEPT !.at = "close", !.mut = current] \in JobRecords
  BY <1>1 DEF JobRecords
<1>3. job' \in JobRecords
  BY <1>2, IdleTyped DEF TakeMutation
<1>4. JobKnows'
  BY <1>1, <1>2, IdleTyped DEF TakeMutation, JobKnows, At, JobRecords
<1>5. /\ current # 0 => job'.at = "close" /\ job'.mut = current /\ job'.name = job.name
      /\ current = 0 => job' = Idle \/ (job'.at = "attach" /\ job'.name = job.name)
  BY <1>1 DEF TakeMutation, JobRecords
<1> QED
  BY <1>3, <1>4, <1>5, IdleTyped DEF TakeMutation, mutVars, diskVars

(* The frame: steps that leave the episodes, the queue or the job alone.    *)
LEMMA TypeFrames ==
  /\ EpisodeType /\ UNCHANGED <<buffer, saved, mutated, base, finalized, lost, caches, dataset, broken>> => EpisodeType'
  /\ QueueType /\ UNCHANGED queue => QueueType'
  /\ job \in JobRecords /\ JobKnows /\ UNCHANGED <<job, current>>
       => (job \in JobRecords)' /\ JobKnows'
  /\ RecordingStarted /\ UNCHANGED <<recording, starts>> => RecordingStarted'
  /\ (recording' = FALSE) => RecordingStarted'
BY DEF EpisodeType, QueueType, JobKnows, At, RecordingStarted

(* A job that ends knows nothing any more.                                  *)
LEMMA JobEnds ==
  ASSUME job' = Idle PROVE (job \in JobRecords)' /\ JobKnows'
BY IdleTyped DEF JobKnows, At

LEMMA TypeStep == TypeInv /\ [Next]_vars => TypeInv'
<1> SUFFICES ASSUME TypeInv, [Next]_vars PROVE TypeInv'
  OBVIOUS
<1> USE DEF vars, recVars, mutVars, diskVars, cmdVars, jobOnly
<1>a. TRUE \in BOOLEAN /\ FALSE \in BOOLEAN
  BY Zenon
<1>b. StateType /\ FlagType /\ EpisodeType /\ QueueType /\ job \in JobRecords
      /\ JobKnows /\ RecordingStarted
  BY DEF TypeInv
<1>c. ASSUME StateType', FlagType', EpisodeType', QueueType', (job \in JobRecords)',
             JobKnows', RecordingStarted'
      PROVE  TypeInv'
  BY <1>c DEF TypeInv
(* A job step that only clears the flag, moves the job or changes buffers.  *)
<1>d. ASSUME UNCHANGED <<current, closed, recorded, starts, loads, queue, accepting, thread, phase>>,
             recording' \in {recording, FALSE}, EpisodeType', (job \in JobRecords)', JobKnows'
      PROVE  TypeInv'
  <2>1. StateType'
    BY <1>b, <1>d DEF StateType
  <2>2. FlagType'
    <3>1. CASE recording' = recording
      BY <1>b, <1>d, <3>1 DEF FlagType
    <3>2. CASE recording' = FALSE
      BY <1>a, <1>b, <1>d, <3>2 DEF FlagType
    <3> QED
      BY <1>d, <3>1, <3>2
  <2>3. QueueType'
    BY <1>b, <1>d, TypeFrames
  <2>4. RecordingStarted'
    BY <1>b, <1>d, TypeFrames
  <2> QED
    BY <1>c, <1>d, <2>1, <2>2, <2>3, <2>4
<1>e. UNCHANGED <<buffer, saved, mutated, base, finalized, lost, caches, dataset, broken>> => EpisodeType'
  BY <1>b, TypeFrames
<1>f. current # 0 => current \in Mutations
  BY <1>b, MutationFacts DEF StateType
<1>1. CASE Start
  <2>1. StateType'
    BY <1>1, <1>b, ConstantsAssumption DEF StateType, Start, ConstantsAssumption
  <2>2. FlagType'
    BY <1>1, <1>a, <1>b DEF FlagType, Start
  <2>3. EpisodeType' /\ QueueType' /\ (job \in JobRecords)' /\ JobKnows'
    BY <1>1, <1>b, TypeFrames DEF Start
  <2>4. RecordingStarted'
    BY <1>1, <1>b DEF Start, RecordingStarted, StateType
  <2> QED
    BY <1>c, <2>1, <2>2, <2>3, <2>4
<1>2. CASE Tick
  <2>1. starts \in Recordings
    BY <1>2, <1>b, ConstantsAssumption
       DEF Tick, RecordingStarted, StateType, Recordings, ConstantsAssumption
  <2>2. EpisodeType'
    BY <1>2, <1>b, <1>f, <2>1 DEF Tick, EpisodeType
  <2>3. (job \in JobRecords)' /\ JobKnows'
    BY <1>2, <1>b, TypeFrames DEF Tick
  <2> QED
    BY <1>2, <1>d, <2>2, <2>3 DEF Tick
<1>3. ASSUME NEW name \in Commands, Submit(name) PROVE TypeInv'
  <2>1. QueueType'
    BY <1>3, <1>b, AppendProperties DEF Submit, QueueType
  <2>2. StateType'
    BY <1>3, <1>b DEF Submit, StateType
  <2>3. FlagType'
    BY <1>3, <1>b DEF Submit, FlagType
  <2>4. EpisodeType' /\ (job \in JobRecords)' /\ JobKnows' /\ RecordingStarted'
    BY <1>3, <1>b, TypeFrames DEF Submit
  <2> QED
    BY <1>c, <2>1, <2>2, <2>3, <2>4
<1>4. CASE Dequeue
  <2>1. /\ Head(queue) \in Commands \cup {"shutdown"}
        /\ Tail(queue) \in Seq(Commands \cup {"shutdown"})
    BY <1>4, <1>b, HeadTailProperties DEF Dequeue, QueueType
  <2>2. QueueType'
    BY <1>4, <2>1 DEF Dequeue, QueueType
  <2>3. StateType'
    BY <1>4, <1>b DEF Dequeue, StateType
  <2>4. FlagType'
    BY <1>4, <1>b DEF Dequeue, FlagType
  <2>5. EpisodeType' /\ RecordingStarted'
    BY <1>4, <1>b, TypeFrames DEF Dequeue
  <2>6. (job \in JobRecords)' /\ JobKnows'
    <3>1. CASE Head(queue) = "shutdown"
      BY <1>4, <1>b, <3>1, TypeFrames DEF Dequeue
    <3>2. CASE Head(queue) # "shutdown"
      <4>1. Head(queue) \in Commands /\ "none" \notin Commands
        BY <2>1, <3>2 DEF Commands
      <4>2. job' = [name |-> Head(queue), at |-> "begin", mut |-> 0, taken |-> {}]
        BY <1>4, <3>2 DEF Dequeue, Idle
      <4>3. (job \in JobRecords)'
        BY <4>1, <4>2, ConstantsAssumption DEF JobRecords, ConstantsAssumption
      <4>4. JobKnows'
        BY <4>1, <4>2 DEF JobKnows, At
      <4> QED
        BY <4>3, <4>4
    <3> QED
      BY <3>1, <3>2
  <2> QED
    BY <1>c, <2>2, <2>3, <2>4, <2>5, <2>6
<1>5. CASE SaveBegin
  <2>1. CASE recording /\ current # 0
    <3>1. buffer[current] \in SUBSET Recordings
      BY <1>b, <1>f, <2>1 DEF EpisodeType
    <3>2. job' = [job EXCEPT !.at = "encode", !.mut = current, !.taken = buffer[current]]
      BY <1>5, <2>1 DEF SaveBegin
    <3>3. (job \in JobRecords)'
      BY <1>b, <3>1, <3>2 DEF JobRecords, StateType
    <3>4. JobKnows'
      BY <1>5, <1>b, <2>1, <3>2 DEF SaveBegin, JobKnows, At, JobRecords
    <3>5. recording' = FALSE /\ mutated' = mutated \cup {current}
      BY <1>5, <2>1 DEF SaveBegin
    <3>6. EpisodeType'
      BY <1>5, <1>b, <1>f, <2>1, <3>5 DEF SaveBegin, EpisodeType
    <3> QED
      BY <1>5, <1>d, <3>3, <3>4, <3>5, <3>6 DEF SaveBegin
  <2>2. CASE ~(recording /\ current # 0)
    BY <1>5, <1>d, <1>e, <2>2, JobEnds DEF SaveBegin
  <2> QED
    BY <2>1, <2>2
<1>6. CASE SaveEncode
  <2>1. job.mut = current /\ current # 0
    BY <1>6, <1>b DEF SaveEncode, JobKnows
  <2>2. /\ (job \in JobRecords)'
        /\ job'.name = job.name /\ job'.at = "mark" /\ job'.mut = job.mut
    BY <1>6, <1>b, GotoTyped DEF SaveEncode
  <2>3. JobKnows'
    BY <1>6, <2>1, <2>2 DEF SaveEncode, JobKnows, At
  <2>4. PICK e \in SUBSET buffer[job.mut] :
          saved' = [saved EXCEPT ![job.mut] = @ \cup {e}]
    BY <1>6 DEF SaveEncode
  <2>5. current \in Mutations
    BY <1>f, <2>1
  <2>6. e \in SUBSET Recordings
    BY <1>b, <2>1, <2>4, <2>5 DEF EpisodeType
  <2>7. saved' \in [Mutations -> SUBSET SUBSET Recordings]
    BY <1>b, <2>1, <2>4, <2>5, <2>6 DEF EpisodeType
  <2>8. EpisodeType'
    BY <1>6, <1>b, <2>1, <2>5, <2>7 DEF SaveEncode, EpisodeType
  <2> QED
    BY <1>6, <1>d, <2>2, <2>3, <2>8 DEF SaveEncode
<1>7. CASE SaveFails \/ LoadFails
  BY <1>7, <1>d, <1>e, JobEnds DEF SaveFails, LoadFails
<1>8. CASE SaveMark
  <2>1. FlagType'
    BY <1>8, <1>a, <1>b DEF SaveMark, FlagType
  <2>2. StateType'
    BY <1>8, <1>b DEF SaveMark, StateType
  <2>3. EpisodeType' /\ QueueType' /\ RecordingStarted'
    BY <1>8, <1>b, TypeFrames DEF SaveMark
  <2> QED
    BY <1>8, <1>c, <2>1, <2>2, <2>3, JobEnds DEF SaveMark
<1>9. CASE DiscardBegin
  <2>1. CASE current = 0
    BY <1>9, <1>d, <1>e, <2>1, JobEnds DEF DiscardBegin
  <2>2. CASE current # 0
    <3>1. job' = [job EXCEPT !.at = "drop", !.mut = current]
      BY <1>9, <2>2 DEF DiscardBegin
    <3>2. (job \in JobRecords)'
      BY <1>b, <3>1 DEF JobRecords, StateType
    <3>3. JobKnows'
      BY <1>9, <1>b, <3>1 DEF DiscardBegin, JobKnows, At, JobRecords
    <3> QED
      BY <1>9, <1>d, <1>e, <3>2, <3>3 DEF DiscardBegin
  <2> QED
    BY <2>1, <2>2
<1>10. CASE DropBuffer
  <2>1. EpisodeType'
    BY <1>10, <1>b DEF DropBuffer, EpisodeType
  <2>2. CASE job' = Idle
    BY <1>10, <1>d, <2>1, <2>2, JobEnds DEF DropBuffer
  <2>3. CASE Goto("mark")
    <3>1. /\ (job \in JobRecords)'
          /\ job'.name = job.name /\ job'.at = "mark"
      BY <1>b, <2>3, GotoTyped
    <3>2. CASE job.name = "discard"
      BY <1>10, <1>d, <2>1, <3>1, <3>2 DEF DropBuffer, JobKnows, At
    <3>3. CASE job.name = "finalize"
      BY <1>10, <1>d, <2>1, <3>1, <3>3 DEF DropBuffer, JobKnows, At
    <3> QED
      BY <1>10, <3>2, <3>3 DEF DropBuffer, At
  <2> QED
    BY <1>10, <2>2, <2>3 DEF DropBuffer
<1>11. CASE DiscardMark
  <2>1. CASE job' = Idle
    BY <1>11, <1>d, <1>e, <2>1, JobEnds DEF DiscardMark
  <2>2. CASE Goto("take")
    <3>1. /\ (job \in JobRecords)'
          /\ job'.name = job.name /\ job'.at = "take"
      BY <1>b, <2>2, GotoTyped
    <3>2. JobKnows'
      BY <1>11, <3>1 DEF DiscardMark, JobKnows, At
    <3> QED
      BY <1>11, <1>d, <1>e, <3>1, <3>2 DEF DiscardMark
  <2> QED
    BY <1>11, <2>1, <2>2 DEF DiscardMark
<1>12. CASE FinalizeBegin
  <2>1. (job \in JobRecords)' /\ JobKnows'
    BY <1>12, <1>b DEF FinalizeBegin, Goto, JobRecords, StateType, JobKnows, At
  <2>2. recording' \in {recording, FALSE}
    BY <1>12 DEF FinalizeBegin
  <2> QED
    BY <1>12, <1>d, <1>e, <2>1, <2>2 DEF FinalizeBegin
<1>13. CASE FinalizeTake \/ LoadBegin
  <2>1. job.name \in {"load", "finalize"} /\ TakeMutation("close") /\ UNCHANGED jobOnly
    BY <1>13 DEF FinalizeTake, LoadBegin, At
  <2>2. /\ (job \in JobRecords)' /\ JobKnows'
        /\ current' = 0 /\ recorded' = 0 /\ recording' = FALSE
        /\ UNCHANGED <<closed, starts, loads, buffer, saved, mutated, base, finalized, lost, caches, dataset, broken>>
    BY <2>1, TakeTyped
  <2>3. StateType'
    BY <1>b, <2>1, <2>2, ConstantsAssumption DEF StateType, ConstantsAssumption
  <2>4. FlagType'
    BY <1>a, <1>b, <2>1, <2>2 DEF FlagType
  <2> QED
    BY <1>b, <1>c, <2>1, <2>2, <2>3, <2>4, TypeFrames
<1>14. CASE CloseCache \/ ClearDataset \/ CopyCache \/ DeleteCache
  <2>1. /\ job.at \in {"close", "clear", "copy", "delete"} /\ job.name \in {"load", "finalize"}
        /\ UNCHANGED <<recVars, queue, accepting, thread, phase>>
    BY <1>14 DEF CloseCache, ClearDataset, CopyCache, DeleteCache, Tearing, At
  <2>2. job.mut \in Mutations /\ current = 0
    BY <1>b, <2>1, MutationFacts DEF JobKnows, JobRecords
  <2>3. Content(job.mut) \in SUBSET SUBSET Recordings
    BY <1>b, <2>2 DEF EpisodeType, Content
  <2>4. EpisodeType'
    <3>1. CASE CloseCache
      BY <1>b, <2>2, <3>1 DEF CloseCache, EpisodeType
    <3>2. CASE ClearDataset
      BY <1>a, <1>b, <3>2 DEF ClearDataset, EpisodeType
    <3>3. CASE CopyCache
      BY <1>a, <1>b, <2>3, <3>3 DEF CopyCache, EpisodeType
    <3>4. CASE DeleteCache
      BY <1>b, <3>4 DEF DeleteCache, EpisodeType
    <3> QED
      BY <1>14, <3>1, <3>2, <3>3, <3>4
  <2>5. \/ job' = Idle
        \/ \E where \in {"clear", "copy", "delete", "attach"} : Goto(where)
    BY <1>14 DEF CloseCache, ClearDataset, CopyCache, DeleteCache
  <2>6. (job \in JobRecords)' /\ JobKnows'
    <3>1. CASE job' = Idle
      BY <3>1, JobEnds
    <3>2. ASSUME NEW where \in {"clear", "copy", "delete", "attach"}, Goto(where)
          PROVE  (job \in JobRecords)' /\ JobKnows'
      <4>1. /\ (job \in JobRecords)' /\ job'.name = job.name /\ job'.at = where
            /\ job'.mut = job.mut
        BY <1>b, <3>2, GotoTyped
      <4>2. job'.mut # 0 /\ current' = 0 /\ job'.name \in {"load", "finalize"}
        BY <2>1, <2>2, <4>1, MutationFacts DEF Mutations
      <4> QED
        BY <4>1, <4>2 DEF JobKnows, At
    <3> QED
      BY <2>5, <3>1, <3>2
  <2> QED
    BY <1>d, <2>1, <2>4, <2>6
<1>15. CASE Attach
  <2>1. StateType'
    BY <1>15, <1>b, ConstantsAssumption DEF Attach, StateType, ConstantsAssumption
  <2>2. FlagType'
    BY <1>15, <1>a, <1>b DEF Attach, FlagType
  <2>3. QueueType' /\ RecordingStarted'
    BY <1>15, <1>b, TypeFrames DEF Attach
  <2>4. EpisodeType'
    <3>1. loads + 1 \in Mutations
      BY <1>15, <1>b, ConstantsAssumption DEF Attach, StateType, Mutations, ConstantsAssumption
    <3>2. PICK found \in {dataset} \cup IF broken THEN {{}} ELSE {} :
            base' = [base EXCEPT ![loads + 1] = found]
      BY <1>15 DEF Attach
    <3>3. found \in SUBSET SUBSET Recordings
      BY <1>b, <3>2 DEF EpisodeType
    <3>4. base' \in [Mutations -> SUBSET SUBSET Recordings]
      BY <1>b, <3>1, <3>2, <3>3 DEF EpisodeType
    <3> QED
      BY <1>15, <1>b, <3>1, <3>4 DEF Attach, EpisodeType
  <2> QED
    BY <1>15, <1>c, <2>1, <2>2, <2>3, <2>4, JobEnds DEF Attach
<1>16. CASE Teardown
  <2>1. QueueType'
    BY <1>16, <1>b, AppendProperties DEF Teardown, QueueType
  <2>2. FlagType'
    BY <1>16, <1>a, <1>b DEF Teardown, FlagType
  <2>3. StateType'
    BY <1>16, <1>b DEF Teardown, StateType
  <2>4. EpisodeType' /\ (job \in JobRecords)' /\ JobKnows' /\ RecordingStarted'
    BY <1>16, <1>b, TypeFrames DEF Teardown
  <2> QED
    BY <1>c, <2>1, <2>2, <2>3, <2>4
<1>17. CASE Drained
  <2>1. job' = [name |-> "finalize", at |-> "begin", mut |-> 0, taken |-> {}]
    BY <1>17 DEF Drained, Idle
  <2>2. (job \in JobRecords)'
    BY <2>1, ConstantsAssumption DEF JobRecords, Commands, ConstantsAssumption
  <2>3. JobKnows'
    BY <2>1 DEF JobKnows, At
  <2>4. StateType'
    BY <1>17, <1>b DEF Drained, StateType
  <2>5. FlagType'
    BY <1>17, <1>b DEF Drained, FlagType
  <2>6. EpisodeType' /\ QueueType' /\ RecordingStarted'
    BY <1>17, <1>b, TypeFrames DEF Drained
  <2> QED
    BY <1>c, <2>2, <2>3, <2>4, <2>5, <2>6
<1>18. CASE JoinExpires \/ Close
  <2>1. FlagType'
    BY <1>18, <1>a, <1>b DEF JoinExpires, Close, FlagType
  <2>2. StateType'
    BY <1>18, <1>b DEF JoinExpires, Close, StateType
  <2>3. EpisodeType' /\ QueueType' /\ (job \in JobRecords)' /\ JobKnows' /\ RecordingStarted'
    BY <1>18, <1>b, TypeFrames DEF JoinExpires, Close
  <2> QED
    BY <1>c, <2>1, <2>2, <2>3
<1>19. CASE Kill
  <2>1. StateType'
    BY <1>19, <1>b, ConstantsAssumption DEF Kill, StateType, ConstantsAssumption
  <2>2. FlagType'
    BY <1>19, <1>a, <1>b DEF Kill, FlagType
  <2>3. QueueType'
    BY <1>19, EmptySeq DEF Kill, QueueType
  <2>4. EpisodeType' /\ RecordingStarted'
    BY <1>19, <1>b, TypeFrames DEF Kill
  <2> QED
    BY <1>19, <1>c, <2>1, <2>2, <2>3, <2>4, JobEnds DEF Kill
<1>20. CASE UNCHANGED vars
  BY <1>20, <1>b, <1>d, <1>e, TypeFrames
<1> QED
  BY <1>1, <1>2, <1>3, <1>4, <1>5, <1>6, <1>7, <1>8, <1>9, <1>10, <1>11, <1>12, <1>13, <1>14,
     <1>15, <1>16, <1>17, <1>18, <1>19, <1>20 DEF Next, JobStep

(* RecordingState, the command worker and its jobs keep to their types; a   *)
(* job writes only to the mutation it took under the state lock.            *)
THEOREM TypeCorrect == Spec => []TypeOK
<1>1. Spec => []TypeInv
  BY TypeInit, TypeStep, PTL DEF Spec
<1> QED
  BY <1>1, TypeInvImplies, PTL

-----------------------------------------------------------------------------
(***************************************************************************)
(* The queue: the sentinel is the last command put, submit stops accepting  *)
(* in the step that puts it, and a worker that took it left nothing behind. *)
(***************************************************************************)
AcceptingIsRunning == accepting <=> phase = "running"

SentinelIsLast ==
  \A i \in DOMAIN queue : queue[i] = "shutdown" => ~accepting /\ i = Len(queue)

ExitedIsOver == thread = "exited" => ~accepting /\ queue = <<>>

QueueInv == TypeInv /\ AcceptingIsRunning /\ SentinelIsLast /\ ExitedIsOver

(* The queue of commands is a sequence: what a put adds, and when it is     *)
(* empty.                                                                   *)
LEMMA CommandAppended ==
  ASSUME NEW q \in Seq(Commands \cup {"shutdown"}), NEW c \in Commands \cup {"shutdown"}
  PROVE  /\ Append(q, c) \in Seq(Commands \cup {"shutdown"}) /\ Len(Append(q, c)) = Len(q) + 1
         /\ \A i \in 1..Len(q) : Append(q, c)[i] = q[i]
         /\ Append(q, c)[Len(q) + 1] = c
<1> DEFINE S == Commands \cup {"shutdown"}
<1>1. q \in Seq(S) /\ c \in S
  OBVIOUS
<1> HIDE DEF S
<1>2. /\ Append(q, c) \in Seq(S) /\ Len(Append(q, c)) = Len(q) + 1
      /\ \A i \in 1..Len(q) : Append(q, c)[i] = q[i]
      /\ Append(q, c)[Len(q) + 1] = c
  BY <1>1, AppendProperties
<1> QED
  BY <1>2 DEF S

LEMMA NonEmptyQueue ==
  ASSUME NEW q \in Seq(Commands \cup {"shutdown"})
  PROVE  Len(q) \in Nat /\ (q = <<>> <=> Len(q) = 0)
<1>0. Len(q) \in Nat
  BY LenProperties
<1>1. q # <<>> => Len(q) \in Nat \ {0}
  BY EmptySeq, Zenon
<1> QED
  BY <1>0, <1>1, EmptySeq

LEMMA QueueInit == Init => QueueInv
BY TypeInit DEF Init, QueueInv, AcceptingIsRunning, SentinelIsLast, ExitedIsOver

LEMMA QueueStep == QueueInv /\ [Next]_vars => QueueInv'
<1> SUFFICES ASSUME QueueInv, [Next]_vars PROVE QueueInv'
  OBVIOUS
<1> USE DEF vars, recVars, mutVars, diskVars, cmdVars, jobOnly
<1>t. TypeInv'
  BY TypeStep DEF QueueInv
<1>b. AcceptingIsRunning /\ SentinelIsLast /\ ExitedIsOver
  BY DEF QueueInv
<1>q. queue \in Seq(Commands \cup {"shutdown"}) /\ DOMAIN queue = 1..Len(queue) /\ Len(queue) \in Nat
  BY LenProperties DEF QueueInv, TypeInv, QueueType
<1>c. ASSUME AcceptingIsRunning', SentinelIsLast', ExitedIsOver' PROVE QueueInv'
  BY <1>c, <1>t DEF QueueInv
(* Only these variables matter, and most steps leave them alone.            *)
<1>f. ASSUME UNCHANGED <<queue, accepting, thread>>, phase' = phase \/ (~accepting /\ phase' # "running") PROVE QueueInv'
  BY <1>b, <1>c, <1>f DEF AcceptingIsRunning, SentinelIsLast, ExitedIsOver
<1>1. ASSUME NEW name \in Commands, Submit(name) PROVE QueueInv'
  <2>1. name # "shutdown" /\ name \in Commands \cup {"shutdown"}
    BY DEF Commands
  <2>a. queue' = Append(queue, name)
    BY <1>1 DEF Submit
  <2>2. /\ queue' \in Seq(Commands \cup {"shutdown"}) /\ Len(queue') = Len(queue) + 1
        /\ \A i \in 1..Len(queue) : queue'[i] = queue[i]
        /\ queue'[Len(queue) + 1] = name
    BY <1>q, <2>1, <2>a, CommandAppended
  <2>3. DOMAIN queue' = 1..(Len(queue) + 1)
    BY <2>2, LenProperties
  <2>4. accepting /\ accepting' = accepting /\ phase' = phase /\ thread' = "alive"
    BY <1>1 DEF Submit
  <2>5. \A i \in 1..Len(queue) : queue[i] # "shutdown"
    BY <1>b, <1>q, <2>4 DEF SentinelIsLast
  <2>6. \A i \in DOMAIN queue' : queue'[i] # "shutdown"
    BY <1>q, <2>1, <2>2, <2>3, <2>5
  <2> QED
    BY <1>b, <1>c, <2>4, <2>6 DEF AcceptingIsRunning, SentinelIsLast, ExitedIsOver
<1>2. CASE Dequeue
  <2>1. queue # <<>> /\ queue' = Tail(queue) /\ UNCHANGED <<accepting, phase>>
    BY <1>2 DEF Dequeue
  <2>2. /\ Tail(queue) \in Seq(Commands \cup {"shutdown"})
        /\ Len(Tail(queue)) = Len(queue) - 1
        /\ \A i \in 1..Len(Tail(queue)) : Tail(queue)[i] = queue[i + 1]
    BY <1>q, <2>1, HeadTailProperties
  <2>3. Len(queue) > 0
    <3>1. Len(queue) # 0
      BY <1>q, <2>1, NonEmptyQueue, Zenon
    <3>2. Len(queue) \in Nat
      BY <1>q
    <3> QED
      BY <3>1, <3>2
  <2>4. DOMAIN queue' = 1..(Len(queue) - 1) /\ Len(queue') = Len(queue) - 1
    BY <2>1, <2>2, LenProperties
  <2>5. SentinelIsLast'
    <3>1. SUFFICES ASSUME NEW i \in 1..(Len(queue) - 1), queue'[i] = "shutdown"
                   PROVE  ~accepting' /\ i = Len(queue')
      BY <2>4 DEF SentinelIsLast
    <3>2. queue[i + 1] = "shutdown" /\ i + 1 \in DOMAIN queue
      <4>1. i \in 1..Len(Tail(queue)) /\ i + 1 \in 1..Len(queue)
        BY <1>q, <2>2
      <4>2. Tail(queue)[i] = queue[i + 1]
        BY <2>2, <4>1
      <4> QED
        BY <1>q, <2>1, <3>1, <4>1, <4>2
    <3>3. ~accepting /\ i + 1 = Len(queue)
      BY <1>b, <3>2 DEF SentinelIsLast
    <3>4. i = Len(queue')
      <4>1. Len(queue) \in Nat /\ Len(queue') = Len(queue) - 1
        BY <1>q, <2>4
      <4>2. i + 1 = Len(queue) /\ i \in Int
        BY <3>3, <4>1
      <4> QED
        BY <4>1, <4>2
    <3> QED
      BY <2>1, <3>3, <3>4
  <2>6. ExitedIsOver'
    <3>1. CASE Head(queue) = "shutdown"
      <4>1. queue[1] = "shutdown" /\ 1 \in DOMAIN queue
        BY <1>q, <2>3, <3>1
      <4>2. ~accepting /\ Len(queue) = 1
        BY <1>b, <4>1 DEF SentinelIsLast
      <4>3. Tail(queue) = <<>>
        <5>1. Len(Tail(queue)) = 0
          BY <2>2, <4>2
        <5> QED
          BY <2>2, <5>1, NonEmptyQueue, Zenon
      <4> QED
        BY <2>1, <4>2, <4>3 DEF ExitedIsOver
    <3>2. CASE Head(queue) # "shutdown"
      BY <1>2, <3>2 DEF Dequeue, ExitedIsOver
    <3> QED
      BY <3>1, <3>2
  <2> QED
    BY <1>b, <1>c, <2>1, <2>5, <2>6 DEF AcceptingIsRunning
<1>3. CASE Teardown
  <2>1. phase = "running" /\ phase' = "draining" /\ ~accepting' /\ UNCHANGED thread
    BY <1>3 DEF Teardown
  <2>2. CASE thread = "alive" /\ accepting
    <3>1. queue' = Append(queue, "shutdown")
      BY <1>3, <2>2 DEF Teardown
    <3>2. /\ queue' \in Seq(Commands \cup {"shutdown"}) /\ Len(queue') = Len(queue) + 1
          /\ \A i \in 1..Len(queue) : queue'[i] = queue[i]
      <4>1. "shutdown" \in Commands \cup {"shutdown"}
        BY Zenon
      <4> QED BY <1>q, <3>1, <4>1, CommandAppended
    <3>3. DOMAIN queue' = 1..(Len(queue) + 1)
      BY <3>2, LenProperties
    <3>4. \A i \in 1..Len(queue) : queue[i] # "shutdown"
      BY <1>b, <1>q, <2>2 DEF SentinelIsLast
    <3>5. SentinelIsLast'
      BY <1>q, <2>1, <3>2, <3>3, <3>4 DEF SentinelIsLast
    <3> QED
      BY <1>c, <2>1, <2>2, <3>5 DEF AcceptingIsRunning, ExitedIsOver
  <2>3. CASE thread # "alive"
    <3>1. queue' = queue
      BY <1>3, <2>3 DEF Teardown
    <3> QED
      BY <1>b, <1>c, <2>1, <2>3, <3>1 DEF AcceptingIsRunning, SentinelIsLast, ExitedIsOver
  <2>4. CASE ~accepting
    (* A running session accepts: nothing else closes the worker.           *)
    BY <1>b, <2>1, <2>4 DEF AcceptingIsRunning
  <2> QED
    BY <2>2, <2>3, <2>4
<1>4. CASE Drained \/ JoinExpires \/ Close
  BY <1>4, <1>b, <1>f DEF Drained, JoinExpires, Close, AcceptingIsRunning
<1>5. CASE Start \/ Tick
  BY <1>5, <1>f DEF Start, Tick
<1>6. CASE SaveBegin \/ SaveEncode \/ SaveFails \/ SaveMark \/ DiscardBegin \/ DropBuffer \/ DiscardMark
  BY <1>6, <1>f DEF SaveBegin, SaveEncode, SaveFails, SaveMark, DiscardBegin, DropBuffer, DiscardMark
<1>7. CASE FinalizeBegin \/ FinalizeTake \/ LoadBegin \/ LoadFails \/ Attach
  BY <1>7, <1>f DEF FinalizeBegin, FinalizeTake, LoadBegin, LoadFails, Attach
<1>8. CASE CloseCache \/ ClearDataset \/ CopyCache \/ DeleteCache
  BY <1>8, <1>f DEF CloseCache, ClearDataset, CopyCache, DeleteCache
<1>9. CASE Kill
  BY <1>9, <1>c DEF Kill, AcceptingIsRunning, SentinelIsLast, ExitedIsOver
<1>10. CASE UNCHANGED vars
  BY <1>10, <1>f
<1> QED
  BY <1>1, <1>2, <1>3, <1>4, <1>5, <1>6, <1>7, <1>8, <1>9, <1>10 DEF Next, JobStep

(* CommandWorker.submit and shutdown share a lock: no command that was      *)
(* accepted is ever behind the sentinel, so the worker exits only with an   *)
(* empty queue.                                                             *)
THEOREM AcceptedAreRun == Spec => []AcceptedCommandsRun
<1>1. Spec => []QueueInv
  BY QueueInit, QueueStep, PTL DEF Spec
<1>2. QueueInv => AcceptedCommandsRun
  BY DEF QueueInv, ExitedIsOver, AcceptedCommandsRun
<1> QED
  BY <1>1, <1>2, PTL

-----------------------------------------------------------------------------
(***************************************************************************)
(* Where a closed cache's episodes are: in the dataset, or in a closed      *)
(* cache on disk that no step is about to delete.  What a damaged dataset   *)
(* still holds is in such a cache too, and so is what the dataset holds     *)
(* when it is removed: the cache that replaces it was begun as a copy of    *)
(* it, or over a dataset that was damaged already.                          *)
(***************************************************************************)
Stays == (caches \cap finalized) \ (IF job.at = "delete" THEN {job.mut} ELSE {})

InCache(e) == \E n \in Stays : e \in Content(n)

ClosedIsKept == \A m \in finalized : \A e \in saved[m] : e \in dataset \/ InCache(e)

DamageIsKept == broken => \A e \in dataset : InCache(e)

(* The mutations that may still overwrite the dataset.                      *)
MayOverwrite(m) == m = current \/ (job.at \in {"close", "clear"} /\ job.mut = m)

BaseIsDataset ==
  \A m \in Mutations : MayOverwrite(m) => \A e \in dataset : e \in base[m] \/ InCache(e)

CachePlaces ==
  /\ current # 0 => current \in caches \ finalized
  /\ job.at = "close" => job.mut \in caches \ finalized
  /\ job.at \in {"clear", "copy"} => job.mut \in caches \cap finalized
  /\ job.at = "copy" => dataset = {}
  /\ \A m \in caches \cup finalized : m <= loads
  /\ \A m \in Mutations : m \notin mutated => saved[m] = {}
  /\ job.at = "encode" => current \in mutated

(* No mutation with episodes is dropped before its cache is closed.         *)
NoneForgotten ==
  phase # "killed" =>
    \A m \in Mutations :
      \/ saved[m] = {} \/ m \in finalized \cup lost
      \/ m = current
      \/ job.at = "close" /\ job.mut = m

(* The teardown's own finalize ends only with nothing attached.             *)
FinalizeDetaches ==
  /\ phase \in {"finalizing", "ended"} => thread # "alive" /\ ~accepting
  /\ phase = "finalizing" => job.name = "finalize" \/ (job = Idle /\ current = 0)
  /\ phase = "ended" => job = Idle /\ current = 0

KeptInv ==
  /\ QueueInv /\ ClosedIsKept /\ DamageIsKept /\ BaseIsDataset
  /\ CachePlaces /\ NoneForgotten /\ FinalizeDetaches

LEMMA KeptInit == Init => KeptInv
<1> SUFFICES ASSUME Init PROVE KeptInv
  OBVIOUS
<1>1. (\A m \in Mutations : saved[m] = {}) /\ dataset = {} /\ job.at = "idle" /\ current = 0
  BY IdleTyped DEF Init
<1>2. ClosedIsKept /\ DamageIsKept /\ BaseIsDataset
  BY <1>1 DEF Init, ClosedIsKept, DamageIsKept, BaseIsDataset
<1>3. CachePlaces /\ NoneForgotten
  BY <1>1 DEF Init, CachePlaces, NoneForgotten
<1>4. FinalizeDetaches
  BY DEF Init, FinalizeDetaches
<1> QED
  BY <1>2, <1>3, <1>4, QueueInit DEF KeptInv

(* Steps that add no frame to the disk: the caches that stay are the same,  *)
(* or one more is not deleted after all.                                    *)
LEMMA CachesFrame ==
  ASSUME ClosedIsKept, DamageIsKept, UNCHANGED <<saved, base, finalized, caches, dataset, broken>>,
         job'.at # "delete" \/ UNCHANGED job
  PROVE  /\ ClosedIsKept' /\ DamageIsKept'
         /\ \A e : InCache(e) => InCache(e)'
<1>1. Stays \subseteq Stays'
  BY DEF Stays
<1>2. \A n : Content(n)' = Content(n)
  BY DEF Content
<1>3. \A e : InCache(e) => InCache(e)'
  BY <1>1, <1>2 DEF InCache
<1> QED
  BY <1>3 DEF ClosedIsKept, DamageIsKept

LEMMA KeptStep == KeptInv /\ [Next]_vars => KeptInv'
<1> SUFFICES ASSUME KeptInv, [Next]_vars PROVE KeptInv'
  OBVIOUS
<1> USE DEF vars, recVars, mutVars, diskVars, cmdVars, jobOnly
<1>t. QueueInv' /\ TypeInv /\ TypeInv'
  BY QueueStep DEF KeptInv, QueueInv
<1>b. /\ ClosedIsKept /\ DamageIsKept /\ BaseIsDataset /\ CachePlaces /\ NoneForgotten
      /\ FinalizeDetaches /\ AcceptingIsRunning /\ JobKnows /\ job \in JobRecords /\ EpisodeType
      /\ current \in 0..MaxLoads /\ loads \in 0..MaxLoads
  BY DEF KeptInv, QueueInv, TypeInv, StateType
<1>j. JobKnows' /\ (job \in JobRecords)'
  BY <1>t DEF TypeInv
<1>c. ASSUME ClosedIsKept', DamageIsKept', BaseIsDataset', CachePlaces', NoneForgotten',
             FinalizeDetaches'
      PROVE  KeptInv'
  BY <1>c, <1>t DEF KeptInv
<1>m. \A m \in Mutations : m # 0
  BY MutationFacts DEF Mutations
(* Nothing is attached, detached, saved or copied: the episodes stay where  *)
(* they are.                                                                *)
<1>f. ASSUME UNCHANGED <<saved, base, finalized, lost, caches, dataset, broken, loads>>,
             mutated \subseteq mutated',
             UNCHANGED current \/ (current' = 0 /\ phase' = "killed"),
             \/ UNCHANGED job
             \/ job.at # "close" /\ job'.at \notin {"close", "clear", "copy", "delete"}
             \/ phase' = "killed" /\ job'.at \notin {"close", "clear", "copy", "delete"},
             job'.at = "encode" => UNCHANGED <<job, current>> \/ current' \in mutated',
             phase = "killed" => phase' = "killed",
             FinalizeDetaches'
      PROVE  KeptInv'
  <2>1. ClosedIsKept' /\ DamageIsKept' /\ \A e : InCache(e) => InCache(e)'
    BY <1>b, <1>f, CachesFrame
  <2>2. \A m \in Mutations : MayOverwrite(m)' => MayOverwrite(m)
    BY <1>f, <1>m DEF MayOverwrite
  <2>3. BaseIsDataset'
    BY <1>b, <1>f, <2>1, <2>2 DEF BaseIsDataset
  <2>4. CachePlaces'
    BY <1>b, <1>f DEF CachePlaces
  <2>5. NoneForgotten'
    BY <1>b, <1>f DEF NoneForgotten
  <2> QED
    BY <1>c, <1>f, <2>1, <2>3, <2>4, <2>5
(* A job that is not the teardown's runs, or the teardown's goes on.        *)
<1>g. ASSUME UNCHANGED <<thread, accepting, phase>>, job # Idle,
             job.name = "finalize" => job'.name = "finalize" \/ (job' = Idle /\ current' = 0)
      PROVE  FinalizeDetaches'
  BY <1>b, <1>g DEF FinalizeDetaches
<1>h. ASSUME UNCHANGED <<thread, accepting, phase, job, current>> PROVE FinalizeDetaches'
  BY <1>b, <1>h DEF FinalizeDetaches
<1>i. job.name # "none" => job # Idle
  BY IdleTyped
<1>1. CASE Start \/ Tick
  BY <1>1, <1>f, <1>h DEF Start, Tick
<1>2. ASSUME NEW name \in Commands, Submit(name) PROVE KeptInv'
  <2>1. FinalizeDetaches'
    BY <1>2, <1>b DEF Submit, FinalizeDetaches, AcceptingIsRunning
  <2> QED
    BY <1>2, <1>f, <2>1 DEF Submit
<1>3. CASE Dequeue
  <2>1. FinalizeDetaches'
    BY <1>3, <1>b DEF Dequeue, FinalizeDetaches
  <2>2. job.at = "idle" /\ job'.at \in {"idle", "begin"}
    <3>1. job.at = "idle"
      BY <1>3, IdleTyped DEF Dequeue
    <3>2. UNCHANGED job \/ job' = [name |-> Head(queue), at |-> "begin", mut |-> 0, taken |-> {}]
      BY <1>3 DEF Dequeue, Idle
    <3> QED
      BY <3>1, <3>2
  <2>3. UNCHANGED <<phase, current, loads, saved, mutated, diskVars>>
    BY <1>3 DEF Dequeue
  <2> QED
    BY <1>f, <2>1, <2>2, <2>3
<1>4. CASE SaveBegin \/ SaveFails \/ SaveMark \/ DiscardBegin
  <2>1. job.name \in {"save", "discard"} /\ job.at # "close"
    BY <1>4 DEF SaveBegin, SaveFails, SaveMark, DiscardBegin, At
  <2>2. UNCHANGED <<thread, accepting, phase, current, loads, saved, diskVars>>
    BY <1>4 DEF SaveBegin, SaveFails, SaveMark, DiscardBegin
  <2>3. mutated \subseteq mutated' /\ job'.at \in {"idle", "encode", "drop"}
    BY <1>4, <1>b, IdleTyped DEF SaveBegin, SaveFails, SaveMark, DiscardBegin, JobRecords
  <2>5. job'.at = "encode" => current' \in mutated'
    BY <1>4, <1>b, IdleTyped DEF SaveBegin, SaveFails, SaveMark, DiscardBegin, JobRecords
  <2>4. FinalizeDetaches'
    BY <1>g, <1>i, <2>1, <2>2
  <2> QED
    BY <1>f, <2>1, <2>2, <2>3, <2>4, <2>5
<1>5. CASE SaveEncode
  <2>1. /\ job.name = "save" /\ job.at = "encode" /\ job.mut = current /\ current # 0
        /\ job'.at = "mark"
        /\ UNCHANGED <<current, loads, mutated, diskVars, thread, accepting, phase>>
    BY <1>5, <1>b, GotoTyped DEF SaveEncode, JobKnows, At
  <2>2. /\ \A m \in Mutations : m # current => saved'[m] = saved[m]
        /\ current \in Mutations /\ current \notin finalized
    BY <1>5, <1>b, <2>1, MutationFacts DEF SaveEncode, EpisodeType, CachePlaces
  <2>3. Stays' = Stays /\ \A n \in Stays : n \in Mutations /\ n # current /\ Content(n)' = Content(n)
    BY <1>b, <2>1, <2>2 DEF Stays, Content, EpisodeType
  <2>4. \A e : InCache(e) => InCache(e)'
    BY <2>3 DEF InCache
  <2>5. ClosedIsKept' /\ DamageIsKept'
    BY <1>b, <2>1, <2>2, <2>4 DEF ClosedIsKept, DamageIsKept, EpisodeType
  <2>6. BaseIsDataset'
    BY <1>b, <2>1, <2>4 DEF BaseIsDataset, MayOverwrite
  <2>7. current \in mutated
    BY <1>b, <2>1 DEF CachePlaces
  <2>8. CachePlaces'
    BY <1>b, <2>1, <2>2, <2>7 DEF CachePlaces
  <2>9. NoneForgotten'
    BY <1>b, <2>1, <2>2 DEF NoneForgotten
  <2>10. FinalizeDetaches'
    BY <1>g, <1>i, <2>1
  <2> QED
    BY <1>c, <2>5, <2>6, <2>8, <2>9, <2>10
<1>6. CASE DropBuffer \/ DiscardMark
  <2>1. /\ UNCHANGED <<thread, accepting, phase, current, loads, saved, mutated, diskVars>>
        /\ job.at \in {"drop", "mark"} /\ job.name \in {"discard", "finalize"}
    BY <1>6 DEF DropBuffer, DiscardMark, At
  <2>2. /\ job.name = "finalize" => job'.name = "finalize"
        /\ job'.at \in {"idle", "mark", "take"}
    BY <1>6, <1>b, IdleTyped DEF DropBuffer, DiscardMark, Goto, JobRecords
  <2>3. FinalizeDetaches'
    BY <1>g, <1>i, <2>1, <2>2
  <2> QED
    BY <1>f, <2>1, <2>2, <2>3
<1>7. CASE FinalizeBegin
  <2>1. /\ UNCHANGED <<thread, accepting, phase, current, loads, saved, mutated, diskVars>>
        /\ job.at = "begin" /\ job.name = "finalize"
    BY <1>7 DEF FinalizeBegin, At
  <2>2. job'.name = "finalize" /\ job'.at \in {"drop", "take"}
    BY <1>7, <1>b, <2>1 DEF FinalizeBegin, Goto, JobRecords
  <2>3. FinalizeDetaches'
    BY <1>g, <1>i, <2>1, <2>2
  <2> QED
    BY <1>f, <2>1, <2>2, <2>3
<1>8. CASE FinalizeTake \/ LoadBegin
  <2>1. /\ job.name \in {"load", "finalize"} /\ TakeMutation("close")
        /\ UNCHANGED <<thread, accepting, phase>> /\ job.at \in {"take", "begin"}
    BY <1>8 DEF FinalizeTake, LoadBegin, At
  <2>2. /\ current' = 0 /\ UNCHANGED <<saved, mutated, base, finalized, lost, caches, dataset, broken, loads>>
        /\ current # 0 => job'.at = "close" /\ job'.mut = current
        /\ current = 0 => job' = Idle \/ job'.at = "attach"
        /\ job'.name \in {job.name, "none"}
    BY <1>t, <2>1, TakeTyped
  <2>3. job'.at \in {"idle", "close", "attach"}
    BY <1>t, <2>1, TakeTyped
  <2>4. ClosedIsKept' /\ DamageIsKept' /\ \A e : InCache(e) => InCache(e)'
    BY <1>b, <2>2, <2>3, CachesFrame
  <2>5. current = 0 => job'.at # "close"
    BY <2>2, IdleTyped
  <2>6. \A m \in Mutations : MayOverwrite(m)' => MayOverwrite(m)
    BY <1>m, <2>2, <2>3, <2>5 DEF MayOverwrite
  <2>7. BaseIsDataset'
    BY <1>b, <2>2, <2>4, <2>6 DEF BaseIsDataset
  <2>8. CachePlaces'
    BY <1>b, <2>2, <2>3, <2>5 DEF CachePlaces
  <2>9. NoneForgotten'
    BY <1>b, <1>m, <2>1, <2>2 DEF NoneForgotten
  <2>10. job'.name = "none" => job' = Idle
    BY <1>j DEF JobKnows
  <2>11. FinalizeDetaches'
    BY <1>g, <1>i, <2>1, <2>2, <2>10
  <2> QED
    BY <1>c, <2>4, <2>7, <2>8, <2>9, <2>11
<1>9. CASE LoadFails
  <2>1. /\ UNCHANGED <<thread, accepting, phase, current, loads, saved, mutated, diskVars>>
        /\ job.at # "close" /\ job.name = "load" /\ job'.at = "idle"
    BY <1>9, IdleTyped DEF LoadFails, At
  <2>2. FinalizeDetaches'
    BY <1>g, <1>i, <2>1
  <2> QED
    BY <1>f, <2>1, <2>2
(* RecordingMutation.teardown, step by step.                                *)
<1>z. ASSUME job.at \in {"close", "clear", "copy", "delete"}, job.name \in {"load", "finalize"},
             UNCHANGED <<thread, accepting, phase, current, loads, saved, mutated, base>>,
             job' = Idle \/ \E where \in {"clear", "copy", "delete", "attach"} : Goto(where),
             job.name = "finalize" => job' = Idle \/ ~Goto("attach")
      PROVE  /\ current = 0 /\ job.mut \in Mutations /\ FinalizeDetaches'
             /\ \A n : Content(n)' = Content(n)
             /\ job'.mut = job.mut \/ job' = Idle
  <2>1. current = 0 /\ job.mut \in Mutations
    BY <1>b, <1>z, MutationFacts DEF JobKnows, JobRecords
  <2>2. job' = Idle \/ (job'.mut = job.mut /\ job'.name = job.name)
    BY <1>b, <1>z, GotoTyped
  <2>3. FinalizeDetaches'
    BY <1>g, <1>i, <1>z, <2>1, <2>2
  <2> QED
    BY <1>z, <2>1, <2>2, <2>3 DEF Content
<1>10. CASE CloseCache
  <2>1. /\ job.at = "close" /\ job.name \in {"load", "finalize"}
        /\ UNCHANGED <<thread, accepting, phase, current, loads, saved, mutated, base, caches, dataset, broken>>
    BY <1>10 DEF CloseCache, Tearing, At
  <2>2. /\ current = 0 /\ job.mut \in Mutations /\ FinalizeDetaches'
        /\ \A n : Content(n)' = Content(n)
        /\ job'.mut = job.mut \/ job' = Idle
    <3>1. job' = Idle \/ \E where \in {"clear", "delete"} : Goto(where)
      BY <1>10 DEF CloseCache
    <3>2. ~Goto("attach") \/ job' = Idle
      BY <1>b, <3>1, GotoTyped
    <3> QED
      BY <1>z, <2>1, <3>1, <3>2
  <2>3. job.mut \in caches \ finalized /\ job.mut # current
    BY <1>b, <1>m, <2>1, <2>2 DEF CachePlaces
  <2>4. CASE job' = Idle
    <3>1. job'.at = "idle" /\ UNCHANGED finalized /\ lost' = lost \cup {job.mut}
      <4>1. job'.at = "idle"
        BY <2>4, IdleTyped
      <4>2. ~\E where \in {"clear", "delete"} : Goto(where)
        BY <1>b, <4>1, GotoTyped
      <4> QED
        BY <1>10, <4>1, <4>2 DEF CloseCache
    <3>2. ClosedIsKept' /\ DamageIsKept' /\ \A e : InCache(e) => InCache(e)'
      BY <1>b, <2>1, <3>1, CachesFrame
    <3>3. BaseIsDataset'
      BY <1>b, <2>1, <3>1, <3>2 DEF BaseIsDataset, MayOverwrite
    <3>4. CachePlaces' /\ NoneForgotten'
      BY <1>b, <2>1, <3>1 DEF CachePlaces, NoneForgotten
    <3> QED
      BY <1>c, <2>2, <3>2, <3>3, <3>4
  <2>5. CASE job' # Idle
    <3>1. /\ finalized' = finalized \cup {job.mut} /\ UNCHANGED lost
          /\ Goto(IF job.mut \in mutated THEN "clear" ELSE "delete")
      BY <1>10, <2>5 DEF CloseCache
    <3>2. /\ job'.mut = job.mut
          /\ job'.at = IF job.mut \in mutated THEN "clear" ELSE "delete"
      BY <1>b, <3>1, GotoTyped
    <3>3. Stays \subseteq Stays'
      BY <2>1, <2>3, <3>1, <3>2 DEF Stays
    <3>4. \A e : InCache(e) => InCache(e)'
      BY <2>2, <3>3 DEF InCache
    <3>5. \A e \in saved[job.mut] : InCache(e)'
      <4>1. CASE job.mut \in mutated
        <5>1. job.mut \in Stays'
          BY <2>1, <2>3, <3>1, <3>2, <4>1 DEF Stays
        <5> QED
          BY <2>2, <5>1 DEF InCache, Content
      <4>2. CASE job.mut \notin mutated
        BY <1>b, <2>2, <4>2 DEF CachePlaces
      <4> QED
        BY <4>1, <4>2
    <3>6. ClosedIsKept'
      BY <1>b, <2>1, <3>1, <3>4, <3>5 DEF ClosedIsKept
    <3>7. DamageIsKept'
      BY <1>b, <2>1, <3>4 DEF DamageIsKept
    <3>8. BaseIsDataset'
      BY <1>b, <1>m, <2>1, <2>2, <3>2, <3>4 DEF BaseIsDataset, MayOverwrite
    <3>9. job.mut <= loads
      BY <1>b, <2>1 DEF CachePlaces
    <3>10. CachePlaces'
      BY <1>b, <2>1, <2>2, <2>3, <3>1, <3>2, <3>9 DEF CachePlaces
    <3>11. NoneForgotten'
      BY <1>b, <2>1, <3>1 DEF NoneForgotten
    <3> QED
      BY <1>c, <2>2, <3>6, <3>7, <3>8, <3>10, <3>11
  <2> QED
    BY <2>4, <2>5
<1>11. CASE ClearDataset
  <2>1. /\ job.at = "clear" /\ job.name \in {"load", "finalize"} /\ broken' = TRUE
        /\ UNCHANGED <<thread, accepting, phase, current, loads, saved, mutated, base, finalized, lost, caches>>
        /\ dataset' \subseteq dataset
        /\ job' = Idle \/ (Goto("copy") /\ dataset' = {})
    BY <1>11 DEF ClearDataset, Tearing, At
  <2>2. job' = Idle \/ (job'.at = "copy" /\ dataset' = {})
    BY <1>b, <2>1, GotoTyped
  <2>3. /\ current = 0 /\ job.mut \in Mutations /\ FinalizeDetaches'
        /\ \A n : Content(n)' = Content(n)
        /\ job'.mut = job.mut \/ job' = Idle
    <3>1. ~Goto("attach") \/ job' = Idle
      BY <1>b, <2>1, GotoTyped
    <3> QED
      BY <1>z, <2>1, <3>1
  <2>4. job'.at \in {"idle", "copy"} /\ (job'.at = "copy" => dataset' = {})
    BY <2>2, IdleTyped
  <2>5. job.mut \in Stays
    BY <1>b, <2>1 DEF Stays, CachePlaces
  <2>6. \A e \in dataset : InCache(e)
    BY <1>b, <2>1, <2>3, <2>5 DEF BaseIsDataset, MayOverwrite, InCache, Content
  <2>7. \A e : InCache(e) => InCache(e)'
    <3>1. Stays' = Stays
      BY <2>1, <2>4 DEF Stays
    <3> QED
      BY <2>3, <3>1 DEF InCache
  <2>8. ClosedIsKept' /\ DamageIsKept'
    BY <1>b, <2>1, <2>6, <2>7 DEF ClosedIsKept, DamageIsKept
  <2>9. BaseIsDataset'
    BY <2>1, <2>6, <2>7 DEF BaseIsDataset
  <2>10. CachePlaces' /\ NoneForgotten'
    BY <1>b, <2>1, <2>3, <2>4, IdleTyped DEF CachePlaces, NoneForgotten
  <2> QED
    BY <1>c, <2>3, <2>8, <2>9, <2>10
<1>12. CASE CopyCache
  <2>1. /\ job.at = "copy" /\ job.name \in {"load", "finalize"}
        /\ UNCHANGED <<thread, accepting, phase, current, loads, saved, mutated, base, finalized, lost, caches>>
        /\ \/ dataset' = Content(job.mut) /\ broken' = FALSE /\ Goto("delete")
           \/ dataset' \subseteq Content(job.mut) /\ job' = Idle /\ UNCHANGED broken
    BY <1>12 DEF CopyCache, Tearing, At
  <2>2. /\ current = 0 /\ job.mut \in Mutations /\ FinalizeDetaches'
        /\ \A n : Content(n)' = Content(n)
        /\ job'.mut = job.mut \/ job' = Idle
    <3>1. ~Goto("attach") \/ job' = Idle
      BY <1>b, <2>1, GotoTyped
    <3> QED
      BY <1>z, <2>1, <3>1
  <2>3. job.mut \in Stays
    BY <1>b, <2>1 DEF Stays, CachePlaces
  <2>4. CASE dataset' = Content(job.mut) /\ broken' = FALSE /\ Goto("delete")
    <3>1. job'.at = "delete" /\ job'.mut = job.mut
      BY <1>b, <2>4, GotoTyped
    <3>2. Stays' = Stays \ {job.mut}
      BY <2>1, <3>1 DEF Stays
    <3>3. \A e : InCache(e) => e \in dataset' \/ InCache(e)'
      BY <2>2, <2>4, <3>2 DEF InCache
    <3>4. dataset = {}
      BY <1>b, <2>1 DEF CachePlaces
    <3>5. ClosedIsKept'
      BY <1>b, <2>1, <3>3, <3>4 DEF ClosedIsKept
    <3>6. DamageIsKept'
      BY <2>4 DEF DamageIsKept
    <3>7. BaseIsDataset'
      BY <1>m, <2>1, <2>2, <3>1 DEF BaseIsDataset, MayOverwrite
    <3>8. CachePlaces' /\ NoneForgotten'
      BY <1>b, <2>1, <2>2, <3>1 DEF CachePlaces, NoneForgotten
    <3> QED
      BY <1>c, <2>2, <3>5, <3>6, <3>7, <3>8
  <2>5. CASE dataset' \subseteq Content(job.mut) /\ job' = Idle /\ UNCHANGED broken
    <3>1. job'.at = "idle"
      BY <2>5, IdleTyped
    <3>2. Stays' = Stays
      BY <2>1, <3>1 DEF Stays
    <3>3. \A e : InCache(e) => InCache(e)'
      BY <2>2, <3>2 DEF InCache
    <3>4. \A e \in dataset' : InCache(e)'
      BY <2>2, <2>3, <2>5, <3>2 DEF InCache
    <3>5. dataset = {}
      BY <1>b, <2>1 DEF CachePlaces
    <3>6. ClosedIsKept' /\ DamageIsKept'
      BY <1>b, <2>1, <3>3, <3>4, <3>5 DEF ClosedIsKept, DamageIsKept
    <3>7. BaseIsDataset'
      BY <3>4 DEF BaseIsDataset
    <3>8. CachePlaces' /\ NoneForgotten'
      BY <1>b, <2>1, <2>2, <3>1 DEF CachePlaces, NoneForgotten
    <3> QED
      BY <1>c, <2>2, <3>6, <3>7, <3>8
  <2> QED
    BY <2>1, <2>4, <2>5
<1>13. CASE DeleteCache
  <2>1. /\ job.at = "delete" /\ job.name \in {"load", "finalize"} /\ caches' = caches \ {job.mut}
        /\ UNCHANGED <<thread, accepting, phase, current, loads, saved, mutated, base, finalized, lost, dataset, broken>>
        /\ job' = Idle \/ (job.name = "load" /\ Goto("attach"))
    BY <1>13 DEF DeleteCache, Tearing, At
  <2>2. /\ current = 0 /\ job.mut \in Mutations /\ FinalizeDetaches'
        /\ \A n : Content(n)' = Content(n)
    BY <1>z, <2>1
  <2>3. job'.at \in {"idle", "attach"}
    BY <1>b, <2>1, GotoTyped, IdleTyped
  <2>4. Stays' = Stays
    BY <2>1, <2>3 DEF Stays
  <2>5. \A e : InCache(e) => InCache(e)'
    BY <2>2, <2>4 DEF InCache
  <2>6. ClosedIsKept' /\ DamageIsKept'
    BY <1>b, <2>1, <2>5 DEF ClosedIsKept, DamageIsKept
  <2>7. BaseIsDataset'
    BY <1>m, <2>1, <2>2, <2>3 DEF BaseIsDataset, MayOverwrite
  <2>8. CachePlaces' /\ NoneForgotten'
    BY <1>b, <2>1, <2>2, <2>3 DEF CachePlaces, NoneForgotten
  <2> QED
    BY <1>c, <2>2, <2>6, <2>7, <2>8
<1>14. CASE Attach
  <2>1. /\ UNCHANGED <<thread, accepting, phase, saved, mutated, finalized, lost, dataset, broken>>
        /\ current = 0 /\ job.at = "attach" /\ job.name = "load" /\ job'.at = "idle"
        /\ current' = loads + 1 /\ loads' = loads + 1 /\ caches' = caches \cup {loads + 1}
        /\ loads < MaxLoads
    BY <1>14, <1>b, IdleTyped DEF Attach, At, JobKnows
  <2>2. PICK found \in {dataset} \cup IF broken THEN {{}} ELSE {} :
          base' = [base EXCEPT ![loads + 1] = found]
    BY <1>14 DEF Attach
  <2>3. loads + 1 \in Mutations /\ loads + 1 \notin finalized
    BY <1>b, <2>1, ConstantsAssumption DEF CachePlaces, Mutations, ConstantsAssumption, EpisodeType
  <2>4. base'[loads + 1] = found /\ \A m \in Mutations : m # loads + 1 => base'[m] = base[m]
    BY <1>b, <2>2, <2>3 DEF EpisodeType
  <2>5. Stays' = Stays /\ \A n \in Stays : Content(n)' = Content(n)
    BY <1>b, <2>1, <2>3, <2>4 DEF Stays, Content, EpisodeType
  <2>6. \A e : InCache(e) => InCache(e)'
    BY <2>5 DEF InCache
  <2>7. ClosedIsKept' /\ DamageIsKept'
    BY <1>b, <2>1, <2>6 DEF ClosedIsKept, DamageIsKept
  <2>8. BaseIsDataset'
    <3>1. \A e \in dataset : e \in found \/ InCache(e)
      BY <1>b, <2>2 DEF DamageIsKept
    <3> QED
      BY <2>1, <2>4, <2>6, <3>1 DEF BaseIsDataset, MayOverwrite
  <2>9. CachePlaces'
    BY <1>b, <2>1, <2>3 DEF CachePlaces, EpisodeType, Mutations
  <2>10. NoneForgotten'
    BY <1>b, <1>m, <2>1 DEF NoneForgotten
  <2>11. FinalizeDetaches'
    BY <1>g, <1>i, <2>1
  <2> QED
    BY <1>c, <2>7, <2>8, <2>9, <2>10, <2>11
<1>15. CASE Teardown
  <2>1. FinalizeDetaches'
    BY <1>15 DEF Teardown, FinalizeDetaches
  <2> QED
    BY <1>15, <1>f, <2>1 DEF Teardown
<1>16. CASE Drained
  <2>1. job' = [name |-> "finalize", at |-> "begin", mut |-> 0, taken |-> {}]
    BY <1>16 DEF Drained, Idle
  <2>2. FinalizeDetaches'
    BY <1>16, <1>b, <2>1 DEF Drained, FinalizeDetaches, AcceptingIsRunning
  <2>3. job.at = "idle" /\ job'.at = "begin"
    BY <1>16, <2>1, IdleTyped DEF Drained
  <2> QED
    BY <1>16, <1>f, <2>2, <2>3 DEF Drained
<1>17. CASE JoinExpires \/ Close
  <2>1. FinalizeDetaches'
    BY <1>17, <1>b, IdleTyped DEF JoinExpires, Close, FinalizeDetaches
  <2> QED
    BY <1>17, <1>f, <2>1 DEF JoinExpires, Close
<1>18. CASE Kill
  <2>1. FinalizeDetaches'
    BY <1>18 DEF Kill, FinalizeDetaches
  <2> QED
    BY <1>18, <1>f, <2>1, IdleTyped DEF Kill
<1>19. CASE UNCHANGED vars
  BY <1>19, <1>f, <1>h
<1> QED
  BY <1>1, <1>2, <1>3, <1>4, <1>5, <1>6, <1>7, <1>8, <1>9, <1>10, <1>11, <1>12, <1>13, <1>14,
     <1>15, <1>16, <1>17, <1>18, <1>19 DEF Next, JobStep

(* Once the cache of a mutation is closed, its episodes survive: removals   *)
(* and copies that raise, loads over the damaged dataset they leave and a   *)
(* kill at any step leave each in the dataset or in a closed cache on disk. *)
(* A session whose teardown drained the worker has closed every cache with  *)
(* episodes, but for those whose close raised.                              *)
THEOREM SavedEpisodesKept == Spec => []SavedIsKept
<1>1. Spec => []KeptInv
  BY KeptInit, KeptStep, PTL DEF Spec
<1>2. KeptInv => SavedIsKept
  <2> SUFFICES ASSUME KeptInv PROVE SavedIsKept
    OBVIOUS
  <2>1. \A m \in finalized :
          saved[m] \subseteq dataset \cup UNION {Content(n) : n \in caches \cap finalized}
    <3>1. Stays \subseteq caches \cap finalized
      BY DEF Stays
    <3> QED
      BY <3>1 DEF KeptInv, ClosedIsKept, InCache
  <2>2. ASSUME phase = "ended", NEW m \in Mutations, saved[m] # {}
        PROVE  m \in finalized \cup lost
    <3>1. current = 0 /\ job.at = "idle"
      BY <2>2, IdleTyped DEF KeptInv, FinalizeDetaches
    <3>2. m # 0
      BY MutationFacts DEF Mutations
    <3> QED
      BY <2>2, <3>1, <3>2 DEF KeptInv, NoneForgotten
  <2> QED
    BY <2>1, <2>2 DEF SavedIsKept
<1> QED
  BY <1>1, <1>2, PTL

-----------------------------------------------------------------------------
(***************************************************************************)
(* The count.  An episode that is saved must not equal one saved before, or *)
(* the set of saved episodes would not grow with the count: every saved     *)
(* episode has frames of a recording older than all in the open buffer.     *)
(***************************************************************************)
Episodes == IF current = 0 THEN 0 ELSE Cardinality(saved[current])

CountMatches ==
  /\ ~At("save", "mark") => recorded = Episodes
  /\ At("save", "mark") => recorded + 1 = Episodes

UnusedMutations ==
  /\ current <= loads
  /\ \A m \in Mutations : m > loads => saved[m] = {}

(* No recording after the last start; one that is over is before it.        *)
IsPast(r) == r <= starts /\ (recording => r < starts)

FramesAreStarted == \A m \in Mutations : \A b \in buffer[m] : b <= starts

TakenIsPast == At("save", "encode") => \A t \in job.taken : IsPast(t)

SavedIsOlder ==
  \A m \in Mutations : \A e \in saved[m] :
    \E r \in e : IsPast(r) /\ \A b \in buffer[m] : r < b

CountInv ==
  TypeInv /\ CountMatches /\ UnusedMutations /\ FramesAreStarted /\ TakenIsPast /\ SavedIsOlder

(* What an encoder may write is finite, and so is what a mutation holds.    *)
LEMMA SavedIsFinite ==
  ASSUME EpisodeType, NEW m \in Mutations PROVE IsFiniteSet(saved[m])
<1>1. IsFiniteSet(Recordings)
  BY FS_Interval, ConstantsAssumption DEF Recordings, ConstantsAssumption
<1>2. IsFiniteSet(SUBSET Recordings)
  BY <1>1, FS_SUBSET
<1>3. saved[m] \in SUBSET SUBSET Recordings
  BY DEF EpisodeType
<1> QED
  BY <1>2, <1>3, FS_Subset

LEMMA CountInit == Init => CountInv
<1> SUFFICES ASSUME Init PROVE CountInv
  OBVIOUS
<1>1. \A m \in Mutations : saved[m] = {} /\ buffer[m] = {}
  BY DEF Init
<1>2. job.name # "save"
  BY IdleTyped DEF Init
<1>3. CountMatches
  BY <1>2 DEF Init, CountMatches, Episodes, At
<1>4. TakenIsPast
  BY <1>2 DEF TakenIsPast, At
<1>5. UnusedMutations
  BY <1>1 DEF Init, UnusedMutations
<1> QED
  BY <1>1, <1>3, <1>4, <1>5, TypeInit DEF CountInv, FramesAreStarted, SavedIsOlder

LEMMA CountStep == CountInv /\ [Next]_vars => CountInv'
<1> SUFFICES ASSUME CountInv, [Next]_vars PROVE CountInv'
  OBVIOUS
<1> USE DEF vars, recVars, mutVars, diskVars, cmdVars, jobOnly
<1>t. TypeInv /\ TypeInv'
  BY TypeStep DEF CountInv
<1>b. /\ CountMatches /\ UnusedMutations /\ FramesAreStarted /\ TakenIsPast /\ SavedIsOlder
      /\ JobKnows /\ job \in JobRecords /\ EpisodeType
      /\ current \in 0..MaxLoads /\ starts \in Nat /\ loads \in Nat /\ recorded \in Nat
  BY ConstantsAssumption DEF CountInv, TypeInv, StateType, ConstantsAssumption
<1>c. ASSUME CountMatches', UnusedMutations', FramesAreStarted', TakenIsPast', SavedIsOlder'
      PROVE  CountInv'
  BY <1>c, <1>t DEF CountInv
<1>n. /\ \A m \in Mutations : buffer[m] \subseteq Nat
      /\ \A m \in Mutations : saved[m] \subseteq SUBSET Nat
      /\ job.taken \subseteq Nat
  BY <1>b, MutationFacts DEF EpisodeType, JobRecords
(* Nothing is attached, saved or counted.                                   *)
<1>d. ASSUME UNCHANGED <<current, recorded, saved, loads>>, ~At("save", "mark"), ~At("save", "mark")'
      PROVE  CountMatches' /\ UnusedMutations'
  BY <1>b, <1>d DEF CountMatches, UnusedMutations, Episodes
(* No recording starts and no frame is added: what was past stays past.     *)
<1>p. ASSUME UNCHANGED starts, recording' => recording PROVE \A r : IsPast(r) => IsPast(r)'
  BY <1>p DEF IsPast
<1>e. ASSUME UNCHANGED <<starts, saved>>, recording' => recording,
             \A m \in Mutations : buffer'[m] \subseteq buffer[m]
      PROVE  FramesAreStarted' /\ SavedIsOlder'
  <2>1. FramesAreStarted'
    BY <1>b, <1>e DEF FramesAreStarted
  <2>2. SavedIsOlder'
    BY <1>b, <1>e, <1>p DEF SavedIsOlder
  <2> QED
    BY <2>1, <2>2
<1>k. ASSUME UNCHANGED <<current, recorded, saved, loads, starts>>, recording' => recording,
             \A m \in Mutations : buffer'[m] \subseteq buffer[m],
             ~At("save", "mark"), ~At("save", "mark")', TakenIsPast'
      PROVE  CountInv'
  BY <1>c, <1>d, <1>e, <1>k
<1>1. CASE Start
  <2>1. ~recording /\ starts' = starts + 1 /\ UNCHANGED <<current, recorded, loads, saved, buffer, job>>
    BY <1>1 DEF Start
  <2>2. \A r \in Nat : IsPast(r) => IsPast(r)'
    BY <1>b, <2>1 DEF IsPast
  <2>3. CountMatches' /\ UnusedMutations'
    BY <1>b, <2>1 DEF CountMatches, UnusedMutations, Episodes, At
  <2>4. FramesAreStarted'
    BY <1>b, <1>n, <2>1 DEF FramesAreStarted
  <2>5. TakenIsPast'
    BY <1>b, <1>n, <2>1, <2>2 DEF TakenIsPast, At
  <2>6. SavedIsOlder'
    BY <1>b, <1>n, <2>1, <2>2 DEF SavedIsOlder
  <2> QED
    BY <1>c, <2>3, <2>4, <2>5, <2>6
<1>2. CASE Tick
  <2>1. /\ recording /\ current # 0 /\ buffer' = [buffer EXCEPT ![current] = @ \cup {starts}]
        /\ UNCHANGED <<current, recorded, loads, saved, job, starts, recording>>
    BY <1>2 DEF Tick
  <2>2. \A m \in Mutations : buffer'[m] \subseteq buffer[m] \cup {starts}
    BY <1>b, <2>1 DEF EpisodeType
  <2>3. CountMatches' /\ UnusedMutations'
    BY <1>b, <2>1 DEF CountMatches, UnusedMutations, Episodes, At
  <2>4. FramesAreStarted'
    BY <1>b, <2>1, <2>2 DEF FramesAreStarted
  <2>5. TakenIsPast'
    BY <1>b, <2>1 DEF TakenIsPast, At, IsPast
  <2>6. SavedIsOlder'
    BY <1>b, <2>1, <2>2 DEF SavedIsOlder, IsPast
  <2> QED
    BY <1>c, <2>3, <2>4, <2>5, <2>6
<1>3. ASSUME NEW name \in Commands, Submit(name) PROVE CountInv'
  <2>1. UNCHANGED <<current, recorded, loads, saved, job, starts, recording, buffer>>
    BY <1>3 DEF Submit
  <2> QED
    BY <1>b, <1>c, <1>e, <2>1 DEF CountMatches, UnusedMutations, Episodes, At, TakenIsPast, IsPast
<1>4. CASE Dequeue
  <2>1. UNCHANGED <<current, recorded, loads, saved, starts, recording, buffer>>
    BY <1>4 DEF Dequeue
  <2>2. job.at \notin {"mark", "encode"}
    BY <1>4, IdleTyped DEF Dequeue
  <2>3. job'.at \notin {"mark", "encode"}
    BY <1>4, <2>2 DEF Dequeue, Idle
  <2> QED
    BY <1>k, <2>1, <2>2, <2>3 DEF At, TakenIsPast
<1>5. CASE SaveBegin
  <2>1. /\ UNCHANGED <<current, recorded, loads, saved, starts, buffer>>
        /\ job.at = "begin"
    BY <1>5 DEF SaveBegin, At
  <2>2. CASE recording /\ current # 0
    <3>1. recording' = FALSE
      BY <1>5, <2>2 DEF SaveBegin
    <3>2. job'.at = "encode" /\ job'.taken = buffer[current]
      BY <1>5, <1>b, <2>2 DEF SaveBegin, JobRecords
    <3>3. current \in Mutations
      BY <1>b, <2>2, MutationFacts
    <3>4. TakenIsPast'
      BY <1>b, <2>1, <3>1, <3>2, <3>3 DEF TakenIsPast, IsPast, FramesAreStarted
    <3> QED
      BY <1>k, <2>1, <3>1, <3>2, <3>4 DEF At
  <2>3. CASE ~(recording /\ current # 0)
    <3>1. job' = Idle /\ UNCHANGED recording
      BY <1>5, <2>3 DEF SaveBegin
    <3> QED
      BY <1>k, <2>1, <3>1, IdleTyped DEF At, TakenIsPast
  <2> QED
    BY <2>2, <2>3
<1>6. CASE SaveEncode
  <2>1. /\ job.mut = current /\ At("save", "encode") /\ current \in Mutations /\ current # 0
        /\ job.taken # {} /\ UNCHANGED <<current, recorded, loads, starts, recording>>
        /\ buffer' = [buffer EXCEPT ![current] = {}]
    BY <1>6, <1>b, MutationFacts DEF SaveEncode, JobKnows
  <2>2. PICK e \in SUBSET buffer[current] :
          job.taken \subseteq e /\ saved' = [saved EXCEPT ![current] = @ \cup {e}]
    BY <1>6, <2>1 DEF SaveEncode
  <2>3. /\ \A m \in Mutations : m # current => saved'[m] = saved[m] /\ buffer'[m] = buffer[m]
        /\ saved'[current] = saved[current] \cup {e} /\ buffer'[current] = {}
    BY <1>b, <2>1, <2>2 DEF EpisodeType
  <2>4. job'.name = "save" /\ job'.at = "mark"
    BY <1>6, <1>b, <2>1, GotoTyped DEF SaveEncode, At
  (* The new episode is made of newer frames only.                          *)
  <2>5. e \notin saved[current]
    <3>1. SUFFICES ASSUME e \in saved[current] PROVE FALSE
      OBVIOUS
    <3>2. PICK r \in e : \A b \in buffer[current] : r < b
      BY <1>b, <2>1, <3>1 DEF SavedIsOlder
    <3>3. r \in buffer[current] /\ r \in Nat
      BY <1>n, <2>1, <2>2, <3>2
    <3>4. r < r
      BY <3>2, <3>3
    <3> QED
      BY <3>3, <3>4
  <2>6. Cardinality(saved'[current]) = Cardinality(saved[current]) + 1
    <3>1. IsFiniteSet(saved[current])
      BY <1>b, <2>1, SavedIsFinite
    <3>2. Cardinality(saved[current] \cup {e}) = Cardinality(saved[current]) + 1
      BY <2>5, <3>1, FS_AddElement
    <3> QED
      BY <2>3, <3>2
  <2>7. recorded = Cardinality(saved[current])
    BY <1>b, <2>1 DEF CountMatches, Episodes, At
  <2>8. CountMatches'
    BY <2>1, <2>4, <2>6, <2>7 DEF CountMatches, Episodes, At
  <2>9. UnusedMutations'
    BY <1>b, <2>1, <2>3 DEF UnusedMutations
  <2>10. FramesAreStarted'
    BY <1>b, <2>1, <2>3 DEF FramesAreStarted
  <2>11. TakenIsPast'
    BY <2>4 DEF TakenIsPast, At
  <2>12. PICK t \in job.taken : IsPast(t)
    BY <1>b, <2>1 DEF TakenIsPast
  <2>13. SavedIsOlder'
    <3>1. SUFFICES ASSUME NEW m \in Mutations, NEW x \in saved'[m]
                   PROVE  \E r \in x : IsPast(r)' /\ \A b \in buffer'[m] : r < b
      BY DEF SavedIsOlder
    <3>2. \A r : IsPast(r) => IsPast(r)'
      BY <1>p, <2>1
    <3>3. CASE x \in saved[m]
      <4>1. PICK r \in x : IsPast(r) /\ \A b \in buffer[m] : r < b
        BY <1>b, <3>3 DEF SavedIsOlder
      <4>2. buffer'[m] \subseteq buffer[m]
        BY <2>3
      <4> QED
        BY <3>2, <4>1, <4>2
    <3>4. CASE x \notin saved[m]
      <4>1. m = current /\ x = e
        BY <2>3, <3>1, <3>4
      <4>2. t \in x /\ IsPast(t)' /\ \A b \in buffer'[m] : t < b
        BY <2>2, <2>3, <2>12, <3>2, <4>1
      <4> QED
        BY <4>2
    <3> QED
      BY <3>3, <3>4
  <2> QED
    BY <1>c, <2>8, <2>9, <2>10, <2>11, <2>13
<1>7. CASE SaveFails \/ LoadFails
  <2>1. UNCHANGED <<current, recorded, loads, saved, starts, recording, buffer>> /\ job' = Idle
    BY <1>7 DEF SaveFails, LoadFails
  <2>2. ~At("save", "mark")
    BY <1>7 DEF SaveFails, LoadFails, At
  <2> QED
    BY <1>k, <2>1, <2>2, IdleTyped DEF At, TakenIsPast
<1>8. CASE SaveMark
  <2>1. /\ UNCHANGED <<current, loads, saved, starts, buffer>> /\ job' = Idle
        /\ recorded' = recorded + 1 /\ recording' = FALSE /\ At("save", "mark")
    BY <1>8 DEF SaveMark
  <2>2. ~At("save", "mark")' /\ TakenIsPast'
    BY <2>1, IdleTyped DEF At, TakenIsPast
  <2>3. CountMatches'
    BY <1>b, <2>1, <2>2 DEF CountMatches, Episodes
  <2>4. UnusedMutations'
    BY <1>b, <2>1 DEF UnusedMutations
  <2> QED
    BY <1>c, <1>e, <2>1, <2>2, <2>3, <2>4
<1>9. CASE DiscardBegin \/ DiscardMark \/ FinalizeBegin
  <2>1. /\ UNCHANGED <<current, recorded, loads, saved, starts, buffer>>
        /\ job.name \in {"discard", "finalize"} /\ recording' \in {FALSE, recording}
    BY <1>9 DEF DiscardBegin, DiscardMark, FinalizeBegin, At
  <2>2. job'.name # "save"
    BY <1>9, <1>b, <2>1, IdleTyped DEF DiscardBegin, DiscardMark, FinalizeBegin, Goto, JobRecords
  <2>3. ~At("save", "mark") /\ ~At("save", "mark")' /\ TakenIsPast'
    BY <2>1, <2>2 DEF At, TakenIsPast
  <2>4. recording' => recording
    BY <2>1
  <2> QED
    BY <1>k, <2>1, <2>3, <2>4
<1>10. CASE DropBuffer
  <2>1. /\ UNCHANGED <<current, recorded, loads, saved, starts, recording>>
        /\ job.name \in {"discard", "finalize"}
    BY <1>10 DEF DropBuffer, At
  <2>2. job'.name # "save"
    BY <1>10, <1>b, <2>1, IdleTyped DEF DropBuffer, Goto, JobRecords
  <2>3. \A m \in Mutations : buffer'[m] \subseteq buffer[m]
    BY <1>10, <1>b DEF DropBuffer, EpisodeType
  <2> QED
    BY <1>k, <2>1, <2>2, <2>3 DEF At, TakenIsPast
<1>11. CASE FinalizeTake \/ LoadBegin
  <2>1. job.name \in {"load", "finalize"} /\ TakeMutation("close")
    BY <1>11 DEF FinalizeTake, LoadBegin, At
  <2>2. /\ current' = 0 /\ recorded' = 0 /\ recording' = FALSE
        /\ UNCHANGED <<starts, loads, buffer, saved>>
        /\ job'.name \in {job.name, "none"}
    BY <1>t, <2>1, TakeTyped
  <2>3. ~At("save", "mark")' /\ TakenIsPast'
    BY <2>1, <2>2 DEF At, TakenIsPast
  <2>4. CountMatches'
    BY <2>2, <2>3 DEF CountMatches, Episodes
  <2>5. UnusedMutations'
    BY <1>b, <2>2 DEF UnusedMutations
  <2> QED
    BY <1>c, <1>e, <2>2, <2>3, <2>4, <2>5
<1>12. CASE CloseCache \/ ClearDataset \/ CopyCache \/ DeleteCache
  <2>1. /\ UNCHANGED <<current, recorded, loads, saved, starts, recording, buffer>>
        /\ job.name \in {"load", "finalize"}
    BY <1>12 DEF CloseCache, ClearDataset, CopyCache, DeleteCache, Tearing, At
  <2>2. job'.name # "save"
    BY <1>12, <1>b, <2>1, IdleTyped
       DEF CloseCache, ClearDataset, CopyCache, DeleteCache, Goto, JobRecords
  <2> QED
    BY <1>k, <2>1, <2>2 DEF At, TakenIsPast
<1>13. CASE Attach
  <2>1. /\ UNCHANGED <<recorded, starts, saved, buffer>> /\ job' = Idle /\ recording' = FALSE
        /\ job.name = "load" /\ current = 0 /\ current' = loads + 1 /\ loads' = loads + 1
        /\ loads < MaxLoads
    BY <1>13, <1>b DEF Attach, At, JobKnows
  <2>2. ~At("save", "mark")' /\ TakenIsPast'
    BY <2>1, IdleTyped DEF At, TakenIsPast
  <2>3. recorded = 0
    BY <1>b, <2>1 DEF CountMatches, Episodes, At
  <2>4. loads + 1 \in Mutations /\ loads + 1 > loads /\ loads + 1 # 0
    BY <1>b, <2>1, ConstantsAssumption DEF Mutations, ConstantsAssumption
  <2>5. saved[loads + 1] = {}
    BY <1>b, <2>4 DEF UnusedMutations
  <2>6. CountMatches'
    BY <2>1, <2>2, <2>3, <2>4, <2>5, FS_EmptySet DEF CountMatches, Episodes
  <2>7. UnusedMutations'
    BY <1>b, <2>1, MutationFacts DEF UnusedMutations
  <2> QED
    BY <1>c, <1>e, <2>1, <2>2, <2>6, <2>7
<1>14. CASE Drained
  <2>1. /\ UNCHANGED <<current, recorded, loads, saved, starts, recording, buffer>> /\ job = Idle
        /\ job' = [name |-> "finalize", at |-> "begin", mut |-> 0, taken |-> {}]
    BY <1>14 DEF Drained, Idle
  <2> QED
    BY <1>k, <2>1, IdleTyped DEF At, TakenIsPast
<1>15. CASE Teardown \/ JoinExpires \/ Close \/ UNCHANGED vars
  <2>1. UNCHANGED <<current, recorded, loads, saved, job, starts, recording, buffer>>
    BY <1>15 DEF Teardown, JoinExpires, Close
  <2> QED
    BY <1>b, <1>c, <1>e, <2>1 DEF CountMatches, UnusedMutations, Episodes, At, TakenIsPast, IsPast
<1>16. CASE Kill
  <2>1. /\ UNCHANGED <<loads, saved, starts, buffer>> /\ job' = Idle
        /\ current' = 0 /\ recorded' = 0 /\ recording' = FALSE
    BY <1>16 DEF Kill
  <2>2. ~At("save", "mark")' /\ TakenIsPast'
    BY <2>1, IdleTyped DEF At, TakenIsPast
  <2>3. CountMatches'
    BY <2>1, <2>2 DEF CountMatches, Episodes
  <2>4. UnusedMutations'
    BY <1>b, <2>1 DEF UnusedMutations
  <2> QED
    BY <1>c, <1>e, <2>1, <2>2, <2>3, <2>4
<1> QED
  BY <1>1, <1>2, <1>3, <1>4, <1>5, <1>6, <1>7, <1>8, <1>9, <1>10, <1>11, <1>12, <1>13, <1>14,
     <1>15, <1>16 DEF Next, JobStep

(* RecordingState counts, at every moment but the one between an encoded    *)
(* episode and its mark, exactly the episodes of the attached mutation: no  *)
(* save is counted twice, none is missed, and a detached mutation leaves    *)
(* no count behind.                                                         *)
THEOREM CountIsRight == Spec => []CountIsUncopied
<1>1. Spec => []CountInv
  BY CountInit, CountStep, PTL DEF Spec
<1>2. CountInv => CountIsUncopied
  BY DEF CountInv, CountMatches, Episodes, CountIsUncopied
<1> QED
  BY <1>1, <1>2, PTL

=============================================================================
