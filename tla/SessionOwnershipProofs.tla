----------------------- MODULE SessionOwnershipProofs -----------------------
(* Theorems about SessionOwnership for any finite set of clients, whatever  *)
(* documents they ask for, and any number of spawned workers, crashes and   *)
(* followed sessions.                                                       *)
EXTENDS SessionOwnership, FiniteSetTheorems, TLAPS

(* What a handler keeps.                                                    *)
Handlers == [pc : PCs, host : Workers \union {None}, meta : Workers \union {None},
             spawned : BOOLEAN, gen : Nat, left : {"no", "leaving", "left"},
             doc : AllDocuments \union {NoDoc}, target : Workers \union {None},
             after : {"spawn", "probe"}, asked : BOOLEAN]

(* The state of the worker processes and of the lock.                       *)
WorkerType ==
  /\ phase \in [Workers -> Phases]
  /\ line \in [Workers -> {"none", "READY", "contention", "error"}]
  /\ stop \in [Workers -> BOOLEAN]
  /\ doc \in [Workers -> AllDocuments \union {NoDoc}]
  /\ present \in [Workers -> BOOLEAN]
  /\ arm \subseteq Workers /\ following \subseteq Workers /\ inbox \subseteq Workers
  /\ lock \in Workers \union {None} /\ diag \in Workers \union {None}

LEMMA TypeParts ==
  TypeOK <=> /\ cl \in [Clients -> Handlers]
             /\ WorkerType
             /\ pinned \subseteq UNION {Pins(d) : d \in AllDocuments}
             /\ generation \in Nat /\ crashes \in 0 .. MaxCrashes
BY DEF TypeOK, WorkerType, Handlers

LEMMA WorkersAreNat == Workers \subseteq Nat /\ None \notin Workers
BY ConstantsAssumption DEF ConstantsAssumption, Workers, None

LEMMA HandlerTyped ==
  ASSUME NEW pc \in {"new", "done"}
  PROVE  Handler(pc) \in Handlers
<1>1. FALSE \in BOOLEAN
  BY Zenon
<1> QED
  BY <1>1 DEF Handler, Handlers, PCs

(* A claim that was granted.                                                *)
LEMMA ClaimTyped ==
  ASSUME NEW h \in Handlers, NEW to \in PCs, NEW d \in AllDocuments, NEW g \in Nat
  PROVE  [h EXCEPT !.pc = to, !.doc = d, !.gen = g] \in Handlers
BY DEF Handlers

LEMMA TypeInit == Init => TypeOK
<1> SUFFICES ASSUME Init PROVE TypeOK
  OBVIOUS
<1>1. cl \in [Clients -> Handlers]
  BY HandlerTyped DEF Init
<1>2. TRUE \in BOOLEAN /\ FALSE \in BOOLEAN
  BY Zenon
<1>3. WorkerType
  BY <1>2 DEF Init, WorkerType, Phases
<1> QED
  BY <1>1, <1>3, TypeParts, ConstantsAssumption DEF Init, ConstantsAssumption

(* The two ways to end a process.                                           *)
LEMMA DieTyped ==
  ASSUME WorkerType, NEW w, Die(w)
  PROVE  WorkerType'
<1>1. stop' \in [Workers -> BOOLEAN] /\ present' \in [Workers -> BOOLEAN]
  BY DEF WorkerType, Die
<1> QED
  BY <1>1 DEF WorkerType, Die, Phases

LEMMA TerminateTyped ==
  ASSUME WorkerType, NEW w, Terminate(w)
  PROVE  WorkerType'
<1>1. CASE UNCHANGED <<workerVars, lock, diag>>
  BY <1>1 DEF WorkerType, workerVars
<1>2. CASE Die(w)
  BY <1>2, DieTyped
<1>3. CASE /\ stop' = [stop EXCEPT ![w] = TRUE]
           /\ UNCHANGED <<phase, line, doc, present, arm, following, inbox, lock, diag>>
  <2>1. stop' \in [Workers -> BOOLEAN]
    BY <1>3 DEF WorkerType
  <2> QED BY <1>3, <2>1 DEF WorkerType
<1> QED
  BY <1>1, <1>2, <1>3 DEF Terminate

(* A step of a worker process.                                              *)
LEMMA WorkerStepTyped ==
  ASSUME TypeOK, NEW w \in Workers, WorkerStep(w) \/ RunFails(w) \/ Crash(w)
  PROVE  TypeOK'
<1>a. WorkerType /\ crashes \in 0 .. MaxCrashes /\ MaxCrashes \in Nat
  BY TypeParts, ConstantsAssumption DEF ConstantsAssumption
<1>b. UNCHANGED <<cl, pinned, generation>>
  BY DEF WorkerStep, Acquire, OpenServer, Setup, Run, RunEnds, Teardown, Release, Exit, WatchPresent,
     WatchHold, WatchIdle, PumpCommands, RunFails, Crash, WorkerOnly
<1>c. crashes' \in 0 .. MaxCrashes
  BY <1>a DEF WorkerStep, Acquire, OpenServer, Setup, Run, RunEnds, Teardown, Release, Exit, WatchPresent,
     WatchHold, WatchIdle, PumpCommands, RunFails, Crash, WorkerOnly
<1> SUFFICES WorkerType'
  BY <1>b, <1>c DEF TypeOK, WorkerType, Pins
<1>d. {"none", "flocked", "open", "ready", "driving", "teardown", "closed", "stuck", "released", "loose",
      "failing"} \subseteq Phases
  BY DEF Phases
<1>1. CASE Acquire(w) \/ OpenServer(w) \/ Setup(w)
  BY <1>1, <1>a, <1>d DEF Acquire, OpenServer, Setup, Fail, WorkerType
<1>2. CASE Run(w) \/ RunEnds(w) \/ RunFails(w)
  BY <1>2, <1>a, <1>d DEF Run, RunEnds, RunFails, WorkerType
<1>3. CASE Teardown(w) \/ Release(w)
  BY <1>3, <1>a, <1>d DEF Teardown, Release, WorkerType
<1>4. CASE Exit(w) \/ Crash(w)
  BY <1>4, <1>a, DieTyped DEF Exit, Crash
<1>5. CASE WatchPresent(w) \/ WatchHold(w)
  <2>1. present' \in [Workers -> BOOLEAN]
    BY <1>5, <1>a DEF WatchPresent, WatchHold, WorkerType
  <2> QED BY <1>5, <2>1, <1>a DEF WatchPresent, WatchHold, WorkerType
<1>6. CASE WatchIdle(w)
  <2>1. stop' \in [Workers -> BOOLEAN]
    BY <1>6, <1>a DEF WatchIdle, WorkerType
  <2> QED BY <1>6, <2>1, <1>a DEF WatchIdle, WorkerType
<1>7. CASE PumpCommands(w)
  BY <1>7, <1>a DEF PumpCommands, WorkerType
<1> QED
  BY <1>1, <1>2, <1>3, <1>4, <1>5, <1>6, <1>7 DEF WorkerStep

(* Changing one field of a handler, within the values of the field.         *)
LEMMA FieldTyped ==
  ASSUME NEW h \in Handlers
  PROVE  /\ \A v \in PCs : [h EXCEPT !.pc = v] \in Handlers
         /\ \A v \in Workers \union {None} : [h EXCEPT !.host = v] \in Handlers
         /\ \A v \in Workers \union {None} : [h EXCEPT !.meta = v] \in Handlers
         /\ \A v \in Workers \union {None} : [h EXCEPT !.target = v] \in Handlers
         /\ \A v \in {"spawn", "probe"} : [h EXCEPT !.after = v] \in Handlers
         /\ \A v \in BOOLEAN : [h EXCEPT !.spawned = v] \in Handlers
<1>1. \A v \in PCs : [h EXCEPT !.pc = v] \in Handlers
  BY DEF Handlers
<1>2. \A v \in Workers \union {None} : [h EXCEPT !.host = v] \in Handlers
  BY DEF Handlers
<1>3. \A v \in Workers \union {None} : [h EXCEPT !.meta = v] \in Handlers
  BY DEF Handlers
<1>4. \A v \in Workers \union {None} : [h EXCEPT !.target = v] \in Handlers
  BY DEF Handlers
<1>5. \A v \in {"spawn", "probe"} : [h EXCEPT !.after = v] \in Handlers
  BY DEF Handlers
<1>6. \A v \in BOOLEAN : [h EXCEPT !.spawned = v] \in Handlers
  BY DEF Handlers
<1> QED BY <1>1, <1>2, <1>3, <1>4, <1>5, <1>6

(* A step of a websocket handler leaves the handlers well formed.           *)
LEMMA HandlersTyped ==
  ASSUME TypeOK, NEW c \in Clients, ClientStep(c) \/ Leave(c) \/ Teleop(c)
  PROVE  cl' \in [Clients -> Handlers]
<1>a. cl \in [Clients -> Handlers] /\ WorkerType
  BY TypeParts
<1>b. Answering \subseteq Workers /\ LivePid \in Workers \union {None}
  BY <1>a DEF Answering, LivePid, WorkerType
<1>c. ASSUME NEW to \in PCs, Go(c, to) PROVE cl' \in [Clients -> Handlers]
  BY <1>a, <1>c DEF Go, Handlers
<1>d. {"probe", "spawn", "starting", "race", "metadata", "wait", "serving", "lookup", "gone",
       "hoststop", "hostwait", "finally", "waiter"} \subseteq PCs
  BY DEF PCs
<1>e. ASSUME NEW w \in Workers, NEW to \in {"spawn", "probe"}, TryAttach(c, w, to)
      PROVE  cl' \in [Clients -> Handlers]
  <2>1. /\ [cl[c] EXCEPT !.pc = "finally"] \in Handlers
        /\ [cl[c] EXCEPT !.pc = "lookup", !.after = to] \in Handlers
        /\ [cl[c] EXCEPT !.pc = "wait", !.meta = w] \in Handlers
    <3>1. cl[c] \in Handlers
      BY <1>a
    <3>2. /\ [cl[c] EXCEPT !.pc = "finally"] \in Handlers
          /\ [cl[c] EXCEPT !.pc = "lookup"] \in Handlers
          /\ [cl[c] EXCEPT !.pc = "wait"] \in Handlers
      BY <3>1, <1>d, FieldTyped
    <3>3. [[cl[c] EXCEPT !.pc = "lookup"] EXCEPT !.after = to] \in Handlers
      BY <3>2, FieldTyped
    <3>4. [[cl[c] EXCEPT !.pc = "wait"] EXCEPT !.meta = w] \in Handlers
      BY <3>2, FieldTyped
    <3> QED BY <3>2, <3>3, <3>4
  <2> QED BY <1>a, <1>e, <2>1 DEF TryAttach
<1>1. CASE Probe(c) \/ Race(c)
  BY <1>1, <1>b, <1>c, <1>d, <1>e DEF Probe, Race
<1>2. CASE Spawn(c)
  <2>1. PICK w \in Workers : cl' = [cl EXCEPT ![c].pc = "starting", ![c].host = w]
    BY <1>2 DEF Spawn
  <2>2. cl' = [cl EXCEPT ![c] = [cl[c] EXCEPT !.pc = "starting", !.host = w]]
    BY <2>1, <1>a
  <2>3. [cl[c] EXCEPT !.pc = "starting", !.host = w] \in Handlers
    <3>1. [cl[c] EXCEPT !.pc = "starting"] \in Handlers
      BY <1>a, <1>d, FieldTyped
    <3>2. [[cl[c] EXCEPT !.pc = "starting"] EXCEPT !.host = w] \in Handlers
      BY <3>1, FieldTyped
    <3> QED BY <3>2
  <2> QED BY <2>2, <2>3, <1>a
<1>3. CASE Handshake(c)
  <2>1. TRUE \in BOOLEAN
    BY Zenon
  <2>2. cl[c].host \in Workers \union {None}
    BY <1>a DEF Handlers
  <2>3. /\ [cl[c] EXCEPT !.pc = "metadata"] \in Handlers
        /\ [cl[c] EXCEPT !.pc = "race"] \in Handlers
        /\ [cl[c] EXCEPT !.pc = "hoststop"] \in Handlers
    BY <1>a, <1>d, FieldTyped
  <2>4. [[cl[c] EXCEPT !.pc = "metadata"] EXCEPT !.spawned = TRUE] \in Handlers
    BY <2>1, <2>3, FieldTyped, Zenon
  <2>5. [[cl[c] EXCEPT !.pc = "race"] EXCEPT !.host = None] \in Handlers
    BY <2>3, FieldTyped
  <2>6. [[cl[c] EXCEPT !.pc = "hoststop"] EXCEPT !.target = cl[c].host] \in Handlers
    BY <2>2, <2>3, FieldTyped
  <2>7. \/ cl' = [cl EXCEPT ![c].pc = "metadata", ![c].spawned = TRUE]
        \/ cl' = [cl EXCEPT ![c].pc = "race", ![c].host = None]
        \/ cl' = [cl EXCEPT ![c].pc = "hoststop", ![c].target = cl[c].host]
    BY <1>3 DEF Handshake
  <2>8. \/ cl' = [cl EXCEPT ![c] = [[cl[c] EXCEPT !.pc = "metadata"] EXCEPT !.spawned = TRUE]]
        \/ cl' = [cl EXCEPT ![c] = [[cl[c] EXCEPT !.pc = "race"] EXCEPT !.host = None]]
        \/ cl' = [cl EXCEPT ![c] = [[cl[c] EXCEPT !.pc = "hoststop"] EXCEPT !.target = cl[c].host]]
    BY <2>7, <1>a
  <2> QED BY <2>8, <2>4, <2>5, <2>6, <1>a
<1>4. CASE SpawnedMetadata(c)
  <2>1. \/ cl' = [cl EXCEPT ![c] = [cl[c] EXCEPT !.pc = "hoststop", !.target = cl[c].host]]
        \/ \E a \in Workers : cl' = [cl EXCEPT ![c] = [cl[c] EXCEPT !.pc = "wait", !.meta = a]]
    BY <1>4, <1>a, <1>b DEF SpawnedMetadata
  <2>2. /\ [cl[c] EXCEPT !.pc = "hoststop", !.target = cl[c].host] \in Handlers
        /\ \A a \in Workers : [cl[c] EXCEPT !.pc = "wait", !.meta = a] \in Handlers
    <3>1. /\ [cl[c] EXCEPT !.pc = "hoststop"] \in Handlers
          /\ [cl[c] EXCEPT !.pc = "wait"] \in Handlers
      BY <1>a, <1>d, FieldTyped
    <3>2. cl[c].host \in Workers \union {None}
      BY <1>a DEF Handlers
    <3>3. [[cl[c] EXCEPT !.pc = "hoststop"] EXCEPT !.target = cl[c].host] \in Handlers
      BY <3>1, <3>2, FieldTyped
    <3>4. \A a \in Workers : [[cl[c] EXCEPT !.pc = "wait"] EXCEPT !.meta = a] \in Handlers
      BY <3>1, FieldTyped
    <3> QED BY <3>3, <3>4
  <2> QED BY <2>1, <2>2, <1>a
<1>5. CASE WaitUntilReady(c) \/ Outgoing(c)
  BY <1>5, <1>c, <1>d DEF WaitUntilReady, Outgoing
<1>6. CASE Leave(c)
  BY <1>6, <1>a, <1>c, <1>d DEF Leave, Handlers
<1>7. CASE StopAbandonedSpawn(c)
  <2>1. TRUE \in BOOLEAN
    BY Zenon
  <2> QED BY <1>7, <2>1, <1>a DEF StopAbandonedSpawn, Handlers
<1>8. CASE AbandonKill(c) \/ Teleop(c)
  BY <1>8, <1>a DEF AbandonKill, Teleop
<1>9. CASE StopLookup(c)
  <2>1. PICK pid \in Workers \union {None} :
          cl' = [cl EXCEPT ![c].target = pid, ![c].pc = IF pid = None THEN cl[c].after ELSE "gone"]
    BY <1>9, <1>b DEF StopLookup
  <2>2. PICK to \in PCs : cl' = [cl EXCEPT ![c] = [cl[c] EXCEPT !.target = pid, !.pc = to]]
    <3>1. cl[c].after \in PCs
      BY <1>a, <1>d DEF Handlers
    <3> QED BY <2>1, <3>1, <1>a, <1>d
  <2>3. [cl[c] EXCEPT !.target = pid, !.pc = to] \in Handlers
    <3>1. [cl[c] EXCEPT !.target = pid] \in Handlers
      BY <1>a, FieldTyped
    <3>2. [[cl[c] EXCEPT !.target = pid] EXCEPT !.pc = to] \in Handlers
      BY <3>1, FieldTyped
    <3> QED BY <3>2
  <2> QED BY <2>2, <2>3, <1>a
<1>10. CASE StopWait(c)
  <2>1. PICK to \in PCs :
          cl' = [cl EXCEPT ![c] = [cl[c] EXCEPT !.pc = to, !.target = None, !.after = "spawn"]]
    <3>1. cl[c].after \in PCs
      BY <1>a, <1>d DEF Handlers
    <3> QED BY <1>10, <3>1, <1>a DEF StopWait
  <2>2. [cl[c] EXCEPT !.pc = to, !.target = None, !.after = "spawn"] \in Handlers
    <3>1. [cl[c] EXCEPT !.pc = to] \in Handlers
      BY <1>a, FieldTyped
    <3>2. [[cl[c] EXCEPT !.pc = to] EXCEPT !.target = None] \in Handlers
      BY <3>1, FieldTyped
    <3>3. [[[cl[c] EXCEPT !.pc = to] EXCEPT !.target = None] EXCEPT !.after = "spawn"] \in Handlers
      BY <3>2, FieldTyped
    <3> QED BY <3>3
  <2> QED BY <2>1, <2>2, <1>a
<1>11. CASE HostStop(c) \/ HostWait(c)
  <2>1. FALSE \in BOOLEAN
    BY Zenon
  <2> QED BY <1>11, <2>1, <1>a, <1>d DEF HostStop, HostWait, Handlers
<1>12. CASE Finally(c) \/ ReleaseWhenDead(c)
  <2>1. Handler("done") \in Handlers
    BY HandlerTyped
  <2> QED BY <1>12, <2>1, <1>a, <1>c, <1>d DEF Finally, ReleaseWhenDead, ReleaseClaims
<1> QED
  BY <1>1, <1>2, <1>3, <1>4, <1>5, <1>6, <1>7, <1>8, <1>9, <1>10, <1>11, <1>12 DEF ClientStep

LEMMA TypeStep == TypeOK /\ [Next]_vars => TypeOK'
<1> SUFFICES ASSUME TypeOK, [Next]_vars PROVE TypeOK'
  OBVIOUS
<1>a. /\ cl \in [Clients -> Handlers] /\ WorkerType /\ generation \in Nat
      /\ pinned \subseteq UNION {Pins(d) : d \in AllDocuments}
      /\ crashes \in 0 .. MaxCrashes
  BY TypeParts
<1>b. ASSUME cl' \in [Clients -> Handlers], WorkerType', generation' \in Nat,
             pinned' \subseteq UNION {Pins(d) : d \in AllDocuments}, crashes' \in 0 .. MaxCrashes
      PROVE  TypeOK'
  BY <1>b DEF TypeOK, WorkerType, Handlers, Pins
<1>1. ASSUME NEW c \in Clients, NEW d \in Documents[c], NEW r \in BOOLEAN, Claim(c, d, r) PROVE TypeOK'
  <2>1. d \in AllDocuments
    BY DEF AllDocuments
  <2>2. generation' \in Nat /\ pinned' \subseteq UNION {Pins(x) : x \in AllDocuments}
    BY <1>1, <1>a, <2>1 DEF Claim
  <2>3. WorkerType' /\ UNCHANGED crashes
    BY <1>1, <1>a DEF Claim, WorkerType, workerVars
  <2>4. cl' \in [Clients -> Handlers]
    <3>1. CASE cl' = [cl EXCEPT ![c] = Handler("done")]
      BY <3>1, <1>a, HandlerTyped
    <3>2. ASSUME NEW to \in PCs, NEW g \in Nat,
                 cl' = [cl EXCEPT ![c] = [cl[c] EXCEPT !.pc = to, !.doc = d, !.gen = g]]
          PROVE  cl' \in [Clients -> Handlers]
      <4>1. [cl[c] EXCEPT !.pc = to, !.doc = d, !.gen = g] \in Handlers
        BY <1>a, <2>1, ClaimTyped
      <4> QED BY <3>2, <4>1, <1>a
    <3> DEFINE to == IF r THEN "lookup" ELSE "probe"
               g == IF d.cams = {} THEN 0 ELSE generation + 1
    <3>3. to \in PCs /\ g \in Nat
      BY <1>a DEF PCs
    <3> HIDE DEF to, g
    <3>4. \/ cl' = [cl EXCEPT ![c] = Handler("done")]
          \/ cl' = [cl EXCEPT ![c].pc = to, ![c].doc = d, ![c].gen = g]
      BY <1>1, Zenon DEF Claim, to, g
    <3>5. [cl EXCEPT ![c].pc = to, ![c].doc = d, ![c].gen = g]
            = [cl EXCEPT ![c] = [cl[c] EXCEPT !.pc = to, !.doc = d, !.gen = g]]
      BY <1>a
    <3> QED BY <3>1, <3>2, <3>3, <3>4, <3>5
  <2> QED BY <2>2, <2>3, <2>4, <1>a, <1>b
<1>2. ASSUME NEW c \in Clients, ClientStep(c) \/ Teleop(c) \/ Leave(c) PROVE TypeOK'
  <2>1. cl' \in [Clients -> Handlers]
    BY <1>2, HandlersTyped
  <2>2. UNCHANGED <<generation, crashes>> /\ pinned' \subseteq pinned
    BY <1>2 DEF ClientStep, Probe, Spawn, Handshake, Race, SpawnedMetadata, WaitUntilReady, Outgoing,
       StopAbandonedSpawn, AbandonKill, StopLookup, StopWait, HostStop, HostWait, Finally, ReleaseWhenDead,
       ReleaseClaims, Teleop, Leave, HandlerOnly, NoClaims
  <2>3. WorkerType'
    <3>1. CASE UNCHANGED <<workerVars, lock, diag>>
      BY <3>1, <1>a DEF WorkerType, workerVars
    <3>2. ASSUME NEW w, Die(w) \/ Terminate(w) PROVE WorkerType'
      BY <3>2, <1>a, DieTyped, TerminateTyped
    <3>3. CASE Spawn(c)
      <4>1. cl[c].doc \in AllDocuments \union {NoDoc}
        BY <1>a DEF Handlers
      <4> QED BY <3>3, <4>1, <1>a DEF Spawn, WorkerType, Phases
    <3>4. CASE Handshake(c)
      BY <3>4, <1>a DEF Handshake, WorkerType
    <3>5. CASE Teleop(c)
      BY <3>5, <1>a DEF Teleop, WorkerType
    <3> QED
      BY <1>2, <3>1, <3>2, <3>3, <3>4, <3>5 DEF ClientStep, Probe, Race, SpawnedMetadata, WaitUntilReady,
         Outgoing, StopAbandonedSpawn, AbandonKill, StopLookup, StopWait, HostStop, HostWait, Finally,
         ReleaseWhenDead, Leave, HandlerOnly
  <2> QED BY <2>1, <2>2, <2>3, <1>a, <1>b
<1>3. ASSUME NEW w \in Workers, WorkerStep(w) \/ RunFails(w) \/ Crash(w) PROVE TypeOK'
  BY <1>3, WorkerStepTyped
<1>4. CASE UNCHANGED vars
  BY <1>4 DEF vars, workerVars, TypeOK, Pins
<1> QED
  BY <1>1, <1>2, <1>3, <1>4 DEF Next

(* Handlers, workers, the lock and the pins keep their shape, whichever     *)
(* documents the clients send.                                              *)
THEOREM TypeCorrect == Spec => []TypeOK
BY TypeInit, TypeStep, PTL DEF Spec

(***************************************************************************)
(* The name lock.  It is held from acquire to release, its file names the   *)
(* holder from the moment the endpoints open, and the devices are connected *)
(* inside that span: so two workers are never in it together, and nothing   *)
(* but the holder's own release or death ends it.  Only a device that was   *)
(* not disconnected stays connected past it.                                *)
(***************************************************************************)
LockSpan == {"flocked", "open", "ready", "driving", "teardown", "closed", "stuck"}

LockHeld == \A w \in Workers : phase[w] \in LockSpan => lock = w

FileNamesHolder == \A w \in Workers : phase[w] \in LockSpan \ {"flocked"} => diag = w

ArmInSpan == \A w \in arm : phase[w] \in {"driving", "teardown", "stuck", "loose"}

(* Processes are numbered as they are spawned, so a new one has a new pid.  *)
SpawnedInOrder ==
  \E n \in 0 .. MaxSpawns : \A w \in Workers : phase[w] # "none" <=> w <= n

LockInv == TypeOK /\ SpawnedInOrder /\ LockHeld /\ FileNamesHolder /\ ArmInSpan

(* The number given to a new process was never used.                        *)
LEMMA NextIsFresh ==
  ASSUME SpawnedInOrder
  PROVE  \E n \in 0 .. MaxSpawns : /\ Cardinality(Spawned) = n
                                   /\ \A w \in Workers : phase[w] # "none" <=> w <= n
<1>1. PICK n \in 0 .. MaxSpawns : \A w \in Workers : phase[w] # "none" <=> w <= n
  BY DEF SpawnedInOrder
<1>2. n \in Nat /\ MaxSpawns \in Nat /\ n <= MaxSpawns
  BY ConstantsAssumption DEF ConstantsAssumption
<1>3. Spawned = 1 .. n
  BY <1>1, <1>2 DEF Spawned, Workers
<1>4. Cardinality(1 .. n) = n
  BY <1>2, FS_Interval
<1> QED
  BY <1>1, <1>3, <1>4

LEMMA SpawnOrderStep == TypeOK /\ SpawnedInOrder /\ [Next]_vars => SpawnedInOrder'
<1> SUFFICES ASSUME TypeOK, SpawnedInOrder, [Next]_vars PROVE SpawnedInOrder'
  OBVIOUS
<1>a. phase \in [Workers -> Phases]
  BY TypeParts DEF WorkerType
<1>b. ASSUME \A w \in Workers : phase'[w] # "none" <=> phase[w] # "none" PROVE SpawnedInOrder'
  BY <1>b DEF SpawnedInOrder
<1>c. ASSUME NEW w, Alive(w) \/ phase[w] # "none", Die(w) PROVE SpawnedInOrder'
  BY <1>a, <1>b, <1>c DEF Die, Alive
<1>d. ASSUME NEW w, Terminate(w) PROVE SpawnedInOrder'
  <2>1. CASE UNCHANGED phase
    BY <2>1, <1>b
  <2>2. CASE Alive(w) /\ Die(w)
    BY <2>2, <1>c
  <2> QED BY <1>d, <2>1, <2>2 DEF Terminate, workerVars
<1>1. ASSUME NEW w \in Workers, WorkerStep(w) \/ RunFails(w) \/ Crash(w) PROVE SpawnedInOrder'
  <2>1. CASE Exit(w) \/ Crash(w)
    BY <2>1, <1>c DEF Exit, Crash
  <2>2. CASE \/ Acquire(w) \/ OpenServer(w) \/ Setup(w) \/ Run(w) \/ RunEnds(w) \/ Teardown(w)
             \/ Release(w) \/ RunFails(w)
    BY <2>2, <1>a, <1>b DEF Acquire, OpenServer, Setup, Fail, Run, RunEnds, Teardown, Release, RunFails
  <2>3. CASE WatchPresent(w) \/ WatchHold(w) \/ WatchIdle(w) \/ PumpCommands(w)
    BY <2>3, <1>b DEF WatchPresent, WatchHold, WatchIdle, PumpCommands
  <2> QED BY <1>1, <2>1, <2>2, <2>3 DEF WorkerStep
<1>2. ASSUME NEW c \in Clients, Spawn(c) PROVE SpawnedInOrder'
  <2>1. PICK w \in Workers : w = Cardinality(Spawned) + 1 /\ phase' = [phase EXCEPT ![w] = "boot"]
    BY <1>2 DEF Spawn
  <2>2. PICK n \in 0 .. MaxSpawns : /\ Cardinality(Spawned) = n
                                    /\ \A x \in Workers : phase[x] # "none" <=> x <= n
    BY NextIsFresh
  <2>3. n + 1 \in 0 .. MaxSpawns /\ w = n + 1
    BY <2>1, <2>2, ConstantsAssumption DEF ConstantsAssumption, Workers
  <2>4. \A x \in Workers : phase'[x] # "none" <=> x <= n + 1
    BY <2>1, <2>2, <2>3, <1>a, WorkersAreNat
  <2> QED BY <2>3, <2>4 DEF SpawnedInOrder
<1>3. ASSUME NEW c \in Clients, ClientStep(c) \/ Teleop(c) \/ Leave(c), ~Spawn(c) PROVE SpawnedInOrder'
  <2>1. \/ UNCHANGED phase
        \/ \E w : Alive(w) /\ Die(w)
        \/ \E w : Terminate(w)
    BY <1>3 DEF ClientStep, Probe, Handshake, Race, SpawnedMetadata, WaitUntilReady, Outgoing,
       StopAbandonedSpawn, AbandonKill, StopLookup, StopWait, HostStop, HostWait, Finally,
       ReleaseWhenDead, Teleop, Leave, HandlerOnly, workerVars
  <2> QED BY <2>1, <1>b, <1>c, <1>d
<1>4. ASSUME NEW c \in Clients, NEW d \in Documents[c], NEW r \in BOOLEAN, Claim(c, d, r) PROVE SpawnedInOrder'
  BY <1>4, <1>b DEF Claim, workerVars
<1>5. CASE UNCHANGED vars
  BY <1>5, <1>b DEF vars, workerVars
<1> QED
  BY <1>1, <1>2, <1>3, <1>4, <1>5 DEF Next

(* The end of a process, by its own exit, a crash or a kill, leaves the     *)
(* span of every other worker alone.                                        *)
LEMMA DieKeepsLock ==
  ASSUME LockInv, NEW w, w # None, Die(w)
  PROVE  LockHeld' /\ FileNamesHolder' /\ ArmInSpan'
<1>1. /\ phase \in [Workers -> Phases] /\ arm \subseteq Workers /\ lock \in Workers \union {None}
  BY TypeParts DEF LockInv, WorkerType
<1>2. /\ phase' \in [Workers -> Phases]
      /\ \A x \in Workers : IF x = w THEN phase'[x] = "dead" ELSE phase'[x] = phase[x]
      /\ arm' = arm \ {w} /\ lock' = (IF lock = w THEN None ELSE lock) /\ diag' = diag
  BY <1>1 DEF Die, Phases
<1>3. "dead" \notin LockSpan
  BY DEF LockSpan
<1> QED
  BY <1>1, <1>2, <1>3 DEF LockInv, LockHeld, FileNamesHolder, ArmInSpan

LEMMA TerminateKeepsLock ==
  ASSUME LockInv, NEW w, Terminate(w)
  PROVE  LockHeld' /\ FileNamesHolder' /\ ArmInSpan'
<1>1. CASE UNCHANGED <<phase, arm, lock, diag>>
  BY <1>1 DEF LockInv, LockHeld, FileNamesHolder, ArmInSpan
<1>2. CASE w # None /\ Die(w)
  BY <1>2, DieKeepsLock
<1> QED
  BY <1>1, <1>2 DEF Terminate, Alive, workerVars

LEMMA LockStep == LockInv /\ [Next]_vars => LockInv'
<1> SUFFICES ASSUME LockInv, [Next]_vars PROVE LockInv'
  OBVIOUS
<1>a. TypeOK /\ TypeOK'
  BY TypeStep DEF LockInv
<1>f. SpawnedInOrder'
  BY SpawnOrderStep DEF LockInv
<1> SUFFICES LockHeld' /\ FileNamesHolder' /\ ArmInSpan'
  BY <1>a, <1>f DEF LockInv
<1>b. /\ phase \in [Workers -> Phases] /\ arm \subseteq Workers /\ lock \in Workers \union {None}
      /\ None \notin Workers
  BY <1>a, TypeParts, WorkersAreNat DEF WorkerType
<1>c. LockSpan = {"flocked", "open", "ready", "driving", "teardown", "closed", "stuck"}
  BY DEF LockSpan
<1> DEFINE Good == LockHeld' /\ FileNamesHolder' /\ ArmInSpan'
<1>d. ASSUME UNCHANGED <<phase, arm, lock, diag>> PROVE Good
  BY <1>d DEF LockInv, LockHeld, FileNamesHolder, ArmInSpan
<1>e. ASSUME NEW w, Alive(w), Die(w) PROVE Good
  BY <1>e, DieKeepsLock DEF Alive
<1>1. ASSUME NEW w \in Workers, Acquire(w) \/ OpenServer(w) \/ Setup(w) PROVE Good
  BY <1>1, <1>b, <1>c DEF Acquire, OpenServer, Setup, Fail, LockInv, LockHeld, FileNamesHolder, ArmInSpan
<1>2. ASSUME NEW w \in Workers, Run(w) \/ RunEnds(w) \/ RunFails(w) PROVE Good
  BY <1>2, <1>b, <1>c DEF Run, RunEnds, RunFails, LockInv, LockHeld, FileNamesHolder, ArmInSpan
<1>3. ASSUME NEW w \in Workers, Teardown(w) \/ Release(w) PROVE Good
  BY <1>3, <1>b, <1>c DEF Teardown, Release, LockInv, LockHeld, FileNamesHolder, ArmInSpan
<1>4. ASSUME NEW w \in Workers, Exit(w) \/ Crash(w) PROVE Good
  BY <1>4, <1>b, DieKeepsLock DEF Exit, Crash
<1>5. ASSUME NEW w \in Workers, WatchPresent(w) \/ WatchHold(w) \/ WatchIdle(w) \/ PumpCommands(w) PROVE Good
  BY <1>5, <1>d DEF WatchPresent, WatchHold, WatchIdle, PumpCommands
<1>6. ASSUME NEW c \in Clients, Spawn(c) PROVE Good
  <2>1. PICK w \in Workers : w = Cardinality(Spawned) + 1 /\ phase' = [phase EXCEPT ![w] = "boot"]
    BY <1>6 DEF Spawn
  <2>2. UNCHANGED <<arm, lock, diag>>
    BY <1>6 DEF Spawn
  <2>3. phase[w] = "none"
    BY <2>1, NextIsFresh, WorkersAreNat DEF LockInv
  <2> QED
    BY <2>1, <2>2, <2>3, <1>b, <1>c DEF LockInv, LockHeld, FileNamesHolder, ArmInSpan
<1>7. ASSUME NEW c \in Clients, StopAbandonedSpawn(c) \/ StopLookup(c) \/ HostStop(c) PROVE Good
  <2>1. UNCHANGED <<phase, arm, lock, diag>> \/ \E w : Terminate(w)
    BY <1>7 DEF StopAbandonedSpawn, StopLookup, HostStop, workerVars
  <2> QED BY <2>1, <1>d, TerminateKeepsLock
<1>8. ASSUME NEW c \in Clients, AbandonKill(c) \/ StopWait(c) \/ HostWait(c) PROVE Good
  <2>1. UNCHANGED <<phase, arm, lock, diag>> \/ \E w : Alive(w) /\ Die(w)
    BY <1>8 DEF AbandonKill, StopWait, HostWait, workerVars
  <2> QED BY <2>1, <1>d, <1>e
<1>9. ASSUME NEW c \in Clients, NEW d \in Documents[c], NEW r \in BOOLEAN, Claim(c, d, r) PROVE Good
  BY <1>9, <1>d DEF Claim, workerVars
<1>10. ASSUME NEW c \in Clients,
              \/ Probe(c) \/ Race(c) \/ SpawnedMetadata(c) \/ WaitUntilReady(c) \/ Outgoing(c)
              \/ Handshake(c) \/ Finally(c) \/ ReleaseWhenDead(c) \/ Teleop(c) \/ Leave(c)
       PROVE Good
  BY <1>10, <1>d DEF Probe, Race, SpawnedMetadata, WaitUntilReady, Outgoing, Handshake, Finally,
     ReleaseWhenDead, Teleop, Leave, HandlerOnly, workerVars
<1>11. CASE UNCHANGED vars
  BY <1>11, <1>d DEF vars, workerVars
<1> QED
  BY <1>1, <1>2, <1>3, <1>4, <1>5, <1>6, <1>7, <1>8, <1>9, <1>10, <1>11 DEF Next, ClientStep, WorkerStep

(***************************************************************************)
(* The pins: while there are any, the handler that claimed last is still    *)
(* there to release them, because its generation is the current one.        *)
(***************************************************************************)
LatestReleases(c) ==
  cl[c].gen = generation /\ cl[c].gen # 0 /\ cl[c].pc \notin {"new", "done"}

PinsHaveHolder == pinned # {} => \E c \in Clients : LatestReleases(c)

PinInv == TypeOK /\ PinsHaveHolder

LEMMA PinStep == PinInv /\ [Next]_vars => PinInv'
<1> SUFFICES ASSUME PinInv, [Next]_vars PROVE PinInv'
  OBVIOUS
<1>a. TypeOK /\ TypeOK'
  BY TypeStep DEF PinInv
<1> SUFFICES PinsHaveHolder'
  BY <1>a DEF PinInv
<1>b. cl \in [Clients -> Handlers] /\ generation \in Nat
  BY <1>a, TypeParts
<1>c. pinned # {} => \E c \in Clients : LatestReleases(c)
  BY DEF PinInv, PinsHaveHolder
\* A step that keeps the pins, the generation and what each handler claimed.
<1>d. ASSUME UNCHANGED <<pinned, generation>>,
             \A c \in Clients : LatestReleases(c) => LatestReleases(c)'
      PROVE  PinsHaveHolder'
  BY <1>c, <1>d DEF PinsHaveHolder
<1>1. ASSUME NEW c \in Clients, NEW d \in Documents[c], NEW r \in BOOLEAN, Claim(c, d, r)
      PROVE  PinsHaveHolder'
  <2>1. ~LatestReleases(c)
    BY <1>1 DEF Claim, LatestReleases
  <2>2. \A x \in Clients \ {c} : cl'[x] = cl[x]
    BY <1>1, <1>b DEF Claim
  <2>3. CASE UNCHANGED <<pinned, generation>>
    BY <2>1, <2>2, <2>3, <1>d DEF LatestReleases
  <2>4. CASE /\ d.cams # {} /\ generation' = generation + 1
             /\ cl' = [cl EXCEPT ![c].pc = IF r THEN "lookup" ELSE "probe",
                                 ![c].doc = d, ![c].gen = generation + 1]
    <3>1. cl'[c].gen = generation' /\ cl'[c].pc \notin {"new", "done"} /\ generation' # 0
      BY <2>4, <1>b DEF Handlers
    <3> QED BY <3>1 DEF PinsHaveHolder, LatestReleases
  <2>5. CASE d.cams = {} /\ generation' = generation /\ pinned' = pinned \union Pins(d)
    <3>1. Pins(d) = {}
      BY <2>5 DEF Pins
    <3> QED BY <2>3, <2>5, <3>1
  <2> QED BY <1>1, <2>3, <2>4, <2>5 DEF Claim
<1>2. ASSUME NEW c \in Clients, ReleaseClaims(c), UNCHANGED generation PROVE PinsHaveHolder'
  <2>1. CASE LatestReleases(c)
    BY <1>2, <2>1 DEF ReleaseClaims, PinsHaveHolder, LatestReleases
  <2>2. CASE ~LatestReleases(c) /\ pinned' = pinned
    <3>1. \A x \in Clients \ {c} : cl'[x] = cl[x]
      BY <1>2, <1>b DEF ReleaseClaims
    <3> QED BY <1>2, <2>2, <3>1, <1>d DEF LatestReleases
  <2>3. CASE pinned' = {}
    BY <2>3 DEF PinsHaveHolder
  <2> QED BY <1>2, <2>1, <2>2, <2>3 DEF ReleaseClaims
<1>3. ASSUME NEW c \in Clients, Finally(c) \/ ReleaseWhenDead(c) PROVE PinsHaveHolder'
  <2>1. CASE ReleaseClaims(c)
    BY <1>3, <2>1, <1>2 DEF Finally, ReleaseWhenDead
  <2>2. CASE Go(c, "waiter") /\ UNCHANGED <<pinned, generation>>
    <3>1. \A x \in Clients : LatestReleases(x) => LatestReleases(x)'
      BY <2>2, <1>b DEF Go, LatestReleases, Handlers
    <3> QED BY <2>2, <3>1, <1>d
  <2> QED BY <1>3, <2>1, <2>2 DEF Finally, ReleaseWhenDead
<1>4. ASSUME NEW c \in Clients, ClientStep(c) \/ Teleop(c) \/ Leave(c), ~Finally(c), ~ReleaseWhenDead(c)
      PROVE PinsHaveHolder'
  <2>1. UNCHANGED <<pinned, generation>>
    BY <1>4 DEF ClientStep, Probe, Spawn, Handshake, Race, SpawnedMetadata, WaitUntilReady, Outgoing,
       StopAbandonedSpawn, AbandonKill, StopLookup, StopWait, HostStop, HostWait, Teleop, Leave,
       HandlerOnly, NoClaims
  <2>2. \A x \in Clients \ {c} : cl'[x] = cl[x]
    BY <1>4, <1>b DEF ClientStep, Probe, Spawn, Handshake, Race, SpawnedMetadata, WaitUntilReady, Outgoing,
       StopAbandonedSpawn, AbandonKill, StopLookup, StopWait, HostStop, HostWait, Teleop, Leave,
       TryAttach, Go
  <2>3. cl'[c].gen = cl[c].gen /\ (cl'[c].pc \in {"new", "done"} => cl'[c].pc = cl[c].pc)
    <3>a. \A to : Go(c, to) => cl'[c].gen = cl[c].gen /\ cl'[c].pc = to
      BY <1>b DEF Go, Handlers
    <3>b. \A w, to : TryAttach(c, w, to) =>
            cl'[c].gen = cl[c].gen /\ cl'[c].pc \in {"finally", "lookup", "wait"}
      BY <1>b DEF TryAttach, Handlers
    <3>1. CASE Probe(c) \/ Race(c)
      BY <3>1, <3>a, <3>b DEF Probe, Race
    <3>2. CASE WaitUntilReady(c) \/ Outgoing(c)
      BY <3>2, <3>a DEF WaitUntilReady, Outgoing
    <3>3. CASE Spawn(c)
      BY <3>3, <1>b DEF Spawn, Handlers
    <3>9. CASE Handshake(c)
      BY <3>9, <1>b DEF Handshake, Handlers
    <3>4. CASE SpawnedMetadata(c)
      BY <3>4, <1>b DEF SpawnedMetadata, Handlers
    <3>8. CASE HostStop(c) \/ HostWait(c)
      BY <3>8, <1>b DEF HostStop, HostWait, Handlers
    <3>5. CASE StopAbandonedSpawn(c) \/ Leave(c)
      BY <3>5, <3>a, <1>b DEF StopAbandonedSpawn, Leave, Handlers
    <3>6. CASE AbandonKill(c) \/ Teleop(c)
      BY <3>6 DEF AbandonKill, Teleop
    <3>7. CASE StopLookup(c) \/ StopWait(c)
      <4>1. cl[c].after \in {"spawn", "probe"}
        BY <1>b DEF Handlers
      <4>2. CASE StopWait(c)
        BY <4>1, <4>2, <1>b DEF StopWait, Handlers
      <4>3. CASE StopLookup(c)
        <5>1. \E pid : cl' = [cl EXCEPT ![c].target = pid, ![c].pc = IF pid = None THEN cl[c].after ELSE "gone"]
          BY <4>3 DEF StopLookup
        <5> QED BY <5>1, <4>1, <1>b DEF Handlers
      <4> QED BY <3>7, <4>2, <4>3
    <3> QED
      BY <1>4, <3>1, <3>2, <3>3, <3>4, <3>5, <3>6, <3>7, <3>8, <3>9 DEF ClientStep
  <2> QED BY <2>1, <2>2, <2>3, <1>d DEF LatestReleases
<1>5. ASSUME NEW w \in Workers, WorkerStep(w) \/ RunFails(w) \/ Crash(w) PROVE PinsHaveHolder'
  <2>1. UNCHANGED <<cl, pinned, generation>>
    BY <1>5 DEF WorkerStep, Acquire, OpenServer, Setup, Run, RunEnds, Teardown, Release, Exit, WatchPresent,
       WatchHold, WatchIdle, PumpCommands, RunFails, Crash, WorkerOnly
  <2> QED BY <2>1, <1>d DEF LatestReleases
<1>6. CASE UNCHANGED vars
  BY <1>6, <1>d DEF vars, LatestReleases
<1> QED
  BY <1>1, <1>3, <1>4, <1>5, <1>6 DEF Next

LEMMA LockInit == Init => LockInv
<1> SUFFICES ASSUME Init PROVE LockInv
  OBVIOUS
<1>1. \A w \in Workers : phase[w] = "none"
  BY DEF Init
<1>2. SpawnedInOrder
  <2>1. 0 \in 0 .. MaxSpawns /\ \A w \in Workers : ~(w <= 0)
    BY ConstantsAssumption DEF ConstantsAssumption, Workers
  <2> QED BY <1>1, <2>1 DEF SpawnedInOrder
<1>3. "none" \notin LockSpan
  BY DEF LockSpan
<1> QED
  BY <1>1, <1>2, <1>3, TypeInit DEF Init, LockInv, LockHeld, FileNamesHolder, ArmInSpan

LEMMA ArmIsLocked == LockInv => ArmUnderLock
<1> SUFFICES ASSUME LockInv, NEW w \in arm, phase[w] # "loose" PROVE lock = w /\ diag = w
  BY DEF ArmUnderLock
<1>1. w \in Workers /\ phase[w] \in {"driving", "teardown", "stuck"}
  BY TypeParts DEF LockInv, ArmInSpan, WorkerType
<1> QED
  BY <1>1 DEF LockInv, LockHeld, FileNamesHolder, LockSpan

(* A process that has the arm holds the flock and the lock file names it,   *)
(* whoever is killed and however many workers race for the name             *)
(* (session_worker.main takes the lock before the devices and gives it back *)
(* after teardown); but for one whose disconnect failed, which releases the *)
(* lock all the same and has the arm until it exits.                        *)
THEOREM ArmOnlyUnderLock == Spec => []ArmUnderLock
BY LockInit, LockStep, ArmIsLocked, PTL DEF Spec

(* A look of runtime_session_holder that finds no living pid in the file,   *)
(* or the flock free, is right: no process has the arm at that instant, but *)
(* for one that failed to disconnect it and is exiting.                     *)
THEOREM GuardIsRight == Spec => []GuardSeesArm
<1>1. LockInv => GuardSeesArm
  <2> SUFFICES ASSUME LockInv, NEW w \in arm, phase[w] # "loose"
               PROVE  HolderLooks.file /\ HolderLooks.flock
    BY DEF GuardSeesArm
  <2>1. w \in Workers /\ phase[w] \in {"driving", "teardown", "stuck"} /\ lock = w /\ diag = w
    BY TypeParts, ArmIsLocked DEF LockInv, ArmInSpan, WorkerType, ArmUnderLock
  <2>2. w # None
    BY <2>1, WorkersAreNat
  <2>3. Alive(diag)
    BY <2>1, <2>2 DEF Alive
  <2> QED BY <2>1, <2>2, <2>3 DEF HolderLooks
<1> QED
  BY LockInit, LockStep, <1>1, PTL DEF Spec

(* Once every handler and waiter of the name has returned no camera stays   *)
(* pinned: releases of stale generations are ignored, and the latest        *)
(* claimant releases for all (CameraClaimRegistry.release).                 *)
THEOREM PinsAreReleased == Spec => []PinsReleased
<1>1. Init => PinInv
  BY TypeInit DEF Init, PinInv, PinsHaveHolder
<1>2. PinInv => PinsReleased
  BY DEF PinInv, PinsHaveHolder, LatestReleases, PinsReleased
<1> QED
  BY <1>1, PinStep, <1>2, PTL DEF Spec

=============================================================================
