-------------------------- MODULE SessionOwnership --------------------------
(***************************************************************************)
(* One runtime session name: the websocket handlers that want to drive the  *)
(* arm behind it (api/runtime_ws.py, runtime/owner.py), the detached worker  *)
(* processes they spawn (runtime/hosts), the name lock those workers take    *)
(* (runtime/transport/lock.py), the camera pins kept for the name            *)
(* (services/camera_claims.py) and the check made before the robot is        *)
(* deleted (runtime_session_holder).                                         *)
(*                                                                           *)
(* A worker is named by the order in which it was spawned; its number stands *)
(* for its pid and its instance_id.  Timeouts are choices: a query may miss  *)
(* a session that is up, a wait may give up.                                 *)
(***************************************************************************)
EXTENDS Naturals, FiniteSets

CONSTANTS
    Clients,        \* websocket connections, each handled once
    Documents,      \* [Clients -> what its handshake may ask for], a set of
                    \* [rig, cams, settings]: the identity digest, the
                    \* cameras and their settings
    MaxSpawns,      \* bound: worker processes ever spawned
    MaxCrashes,     \* bound: workers that die of their own
    MaxFollowing    \* bound: sessions told to follow a leader at a time

AllDocuments == UNION {Documents[c] : c \in Clients}
Workers == 1 .. MaxSpawns
None == 0
NoDoc == [rig |-> "none", cams |-> {}, settings |-> "none"]

VARIABLES
    cl,         \* [Clients -> record]: the handler and its RuntimeSessionOwner
    phase,      \* [Workers -> phase of the worker process]
    line,       \* [Workers -> its unread handshake line on stdout]
    stop,       \* [Workers -> its stop event]
    doc,        \* [Workers -> the document it serves, or NoDoc]
    present,    \* [Workers -> subscribers_present of _watch_subscribers]
    arm,        \* the workers connected to the arm
    following,  \* the workers whose arm follows the leader
    inbox,      \* the workers with an unprocessed teleop command
    lock,       \* holder of the flock, or None
    diag,       \* pid written in the lock file, or None
    pinned,     \* <<camera, settings>> pinned for this session name
    generation, \* CameraClaimRegistry._generation of this session name
    crashes

workerVars == <<phase, line, stop, doc, present, arm, following, inbox>>
vars == <<cl, workerVars, lock, diag, pinned, generation, crashes>>

ASSUME ConstantsAssumption ==
    /\ MaxSpawns \in Nat
    /\ MaxCrashes \in Nat
    /\ MaxFollowing \in Nat
    /\ IsFiniteSet(Clients)

(***************************************************************************)
(* Derived state.                                                           *)
(***************************************************************************)
Unopened == {"new", "done", "waiter"}

\* Telemetry subscribers matched by every server of this name (client.open,
\* undeclared by client.close).
Subscribers == {c \in Clients : cl[c].pc \notin Unopened}

\* Workers whose metadata queryable is declared (server.open .. server.close).
Answering == {w \in Workers : phase[w] \in {"open", "ready", "driving", "teardown"}}

Alive(w) == w # None /\ phase[w] \notin {"none", "dead"}

\* live_session_pid: the recorded pid exists and the flock is held.
LivePid == IF Alive(diag) /\ lock # None THEN diag ELSE None

\* runtime_session_holder looks twice, and answers idle at the first look that
\* finds no living pid in the file or at the second that finds the flock free;
\* a metadata miss does not change a hit.
HolderLooks == [file |-> Alive(diag), flock |-> lock # None]

\* RuntimeSessionOwner.is_alive
OwnerAlive(c) == IF cl[c].spawned THEN Alive(cl[c].host) ELSE Alive(cl[c].meta)

Spawned == {w \in Workers : phase[w] # "none"}

Go(c, pc) == cl' = [cl EXCEPT ![c].pc = pc]

\* The locals of a handler before it claims and after it returned.
Handler(pc) ==
    [pc |-> pc, host |-> None, meta |-> None, spawned |-> FALSE, gen |-> 0,
     left |-> "no", doc |-> NoDoc, target |-> None, after |-> "spawn", asked |-> FALSE]

Init ==
    /\ cl = [c \in Clients |-> Handler("new")]
    /\ phase = [w \in Workers |-> "none"]
    /\ line = [w \in Workers |-> "none"]
    /\ stop = [w \in Workers |-> FALSE]
    /\ doc = [w \in Workers |-> NoDoc]
    /\ present = [w \in Workers |-> TRUE]
    /\ arm = {} /\ following = {} /\ inbox = {}
    /\ lock = None /\ diag = None
    /\ pinned = {} /\ generation = 0
    /\ crashes = 0

(***************************************************************************)
(* The worker process (session_worker.main).                                *)
(***************************************************************************)

\* SIGKILL or a crash: the kernel closes the devices and drops the flock.
Die(w) ==
    /\ phase' = [phase EXCEPT ![w] = "dead"]
    /\ arm' = arm \ {w}
    /\ following' = following \ {w}
    /\ inbox' = inbox \ {w}
    /\ lock' = IF lock = w THEN None ELSE lock
    /\ stop' = [stop EXCEPT ![w] = FALSE]
    /\ present' = [present EXCEPT ![w] = TRUE]
    /\ doc' = [doc EXCEPT ![w] = NoDoc]
    /\ UNCHANGED <<line, diag>>

\* SIGTERM: fatal before the handler is installed, afterwards it sets stop.
Terminate(w) ==
    IF ~Alive(w) THEN UNCHANGED <<workerVars, lock, diag>>
    ELSE IF phase[w] = "boot" THEN Die(w)
    ELSE /\ stop' = [stop EXCEPT ![w] = TRUE]
         /\ UNCHANGED <<phase, line, doc, present, arm, following, inbox, lock, diag>>

WorkerOnly == UNCHANGED <<cl, pinned, generation, crashes>>

\* The startup error path: the line is written and main returns 1, holding
\* whatever lock it has until the process is gone.
Fail(w, why) ==
    /\ phase' = [phase EXCEPT ![w] = "failing"]
    /\ line' = [line EXCEPT ![w] = why]

\* Mutant: the flock is not exclusive.
AcquireShared(w) ==
    /\ phase[w] = "boot"
    /\ \/ /\ lock' = w
          /\ phase' = [phase EXCEPT ![w] = "flocked"]
          /\ UNCHANGED line
       \/ /\ lock # None \/ Alive(diag)
          /\ Fail(w, "contention")
          /\ UNCHANGED lock
    /\ UNCHANGED <<stop, doc, present, arm, following, inbox, diag>>
    /\ WorkerOnly

\* SessionNameLock.acquire.  A reader of live_session_pid holds the flock for
\* an instant once it has seen a living pid in the file, so a worker can lose
\* to it while the last holder is exiting.
Acquire(w) ==
    /\ phase[w] = "boot"
    /\ \/ /\ lock = None
          /\ lock' = w
          /\ phase' = [phase EXCEPT ![w] = "flocked"]
          /\ UNCHANGED line
       \/ /\ lock # None \/ Alive(diag)
          /\ Fail(w, "contention")
          /\ UNCHANGED lock
    /\ UNCHANGED <<stop, doc, present, arm, following, inbox, diag>>
    /\ WorkerOnly

\* Mutant: the lock file keeps the pid of an earlier holder.
OpenServerUnrecorded(w) ==
    /\ phase[w] = "flocked"
    /\ phase' = [phase EXCEPT ![w] = "open"]
    /\ UNCHANGED <<line, stop, doc, present, arm, following, inbox, lock, diag>>
    /\ WorkerOnly

\* The diagnostics are written after the flock is taken; then the endpoints
\* are declared.
OpenServer(w) ==
    /\ phase[w] = "flocked"
    /\ diag' = w
    /\ phase' = [phase EXCEPT ![w] = "open"]
    /\ UNCHANGED <<line, stop, doc, present, arm, following, inbox, lock>>
    /\ WorkerOnly

\* wait_for_client, session.setup, the watcher thread, READY.
Setup(w) ==
    /\ phase[w] = "open"
    /\ \/ /\ Subscribers # {}
          /\ phase' = [phase EXCEPT ![w] = "ready"]
          /\ line' = [line EXCEPT ![w] = "READY"]
       \/ Fail(w, "error")
    /\ UNCHANGED <<stop, doc, present, arm, following, inbox, lock, diag>>
    /\ WorkerOnly

\* session.run: the devices are connected unless a stop came first.
Run(w) ==
    /\ phase[w] = "ready"
    /\ IF stop[w]
         THEN phase' = [phase EXCEPT ![w] = "teardown"] /\ UNCHANGED arm
         ELSE phase' = [phase EXCEPT ![w] = "driving"] /\ arm' = arm \union {w}
    /\ UNCHANGED <<line, stop, doc, present, following, inbox, lock, diag>>
    /\ WorkerOnly

\* The control loop ends on stop.
RunEnds(w) ==
    /\ phase[w] = "driving" /\ stop[w]
    /\ phase' = [phase EXCEPT ![w] = "teardown"]
    /\ UNCHANGED <<line, stop, doc, present, arm, following, inbox, lock, diag>>
    /\ WorkerOnly

\* session.run raises: a device does not connect or is lost.
RunFails(w) ==
    /\ phase[w] \in {"ready", "driving"}
    /\ crashes < MaxCrashes
    /\ crashes' = crashes + 1
    /\ phase' = [phase EXCEPT ![w] = "teardown"]
    /\ UNCHANGED <<line, stop, doc, present, arm, following, inbox, lock, diag>>
    /\ UNCHANGED <<cl, pinned, generation>>

\* session.teardown releases the devices, then server.close the endpoints.  An
\* error before the follower is reached (a policy's disconnect) is logged by
\* _teardown, one of the follower itself by the session: the arm stays
\* connected, "stuck", and the endpoints are closed all the same.
Teardown(w) ==
    /\ phase[w] = "teardown"
    /\ \/ phase' = [phase EXCEPT ![w] = "closed"] /\ arm' = arm \ {w}
       \/ w \in arm /\ phase' = [phase EXCEPT ![w] = "stuck"] /\ UNCHANGED arm
    /\ following' = following \ {w}
    /\ inbox' = inbox \ {w}
    /\ UNCHANGED <<line, stop, doc, present, lock, diag>>
    /\ WorkerOnly

\* The finally of main: lock.release, whatever teardown did.  A stuck arm is
\* "loose" from here until the process is gone.
Release(w) ==
    /\ phase[w] \in {"closed", "stuck"}
    /\ phase' = [phase EXCEPT ![w] = IF @ = "stuck" THEN "loose" ELSE "released"]
    /\ lock' = None
    /\ UNCHANGED <<line, stop, doc, present, arm, following, inbox, diag>>
    /\ WorkerOnly

Exit(w) ==
    /\ phase[w] \in {"released", "loose", "failing"}
    /\ Die(w)
    /\ WorkerOnly

Crash(w) ==
    /\ phase[w] \in {"flocked", "open", "ready", "driving", "teardown"}
    /\ crashes < MaxCrashes
    /\ crashes' = crashes + 1
    /\ Die(w)
    /\ UNCHANGED <<cl, pinned, generation>>

\* One poll of _watch_subscribers that sees a subscriber.
WatchPresent(w) ==
    /\ phase[w] \in {"ready", "driving"} /\ ~stop[w]
    /\ Subscribers # {} /\ ~present[w]
    /\ present' = [present EXCEPT ![w] = TRUE]
    /\ UNCHANGED <<phase, line, stop, doc, arm, following, inbox, lock, diag>>
    /\ WorkerOnly

\* Mutant: the watcher forgets that it has seen the last subscriber go.
WatchHoldForgets(w) ==
    /\ phase[w] \in {"ready", "driving"} /\ ~stop[w]
    /\ Subscribers = {} /\ present[w]
    /\ following' = following \ {w}
    /\ UNCHANGED <<phase, line, stop, doc, present, arm, inbox, lock, diag>>
    /\ WorkerOnly

\* The last subscriber left: hold the arm and commit the recording.
WatchHold(w) ==
    /\ phase[w] \in {"ready", "driving"} /\ ~stop[w]
    /\ Subscribers = {} /\ present[w]
    /\ present' = [present EXCEPT ![w] = FALSE]
    /\ following' = following \ {w}
    /\ UNCHANGED <<phase, line, stop, doc, arm, inbox, lock, diag>>
    /\ WorkerOnly

\* The idle deadline passes and the re-check still sees nobody.
WatchIdle(w) ==
    /\ phase[w] \in {"ready", "driving"} /\ ~stop[w]
    /\ Subscribers = {} /\ ~present[w]
    /\ stop' = [stop EXCEPT ![w] = TRUE]
    /\ UNCHANGED <<phase, line, doc, present, arm, following, inbox, lock, diag>>
    /\ WorkerOnly

\* _pump_commands hands a published command to session.apply, or the
\* best-effort transport lost it.
PumpCommands(w) ==
    /\ w \in inbox
    /\ inbox' = inbox \ {w}
    /\ following' \in {following, following \union ({w} \intersect arm)}
    /\ UNCHANGED <<phase, line, stop, doc, present, arm, lock, diag>>
    /\ WorkerOnly

WorkerStep(w) ==
    \/ Acquire(w) \/ OpenServer(w) \/ Setup(w) \/ Run(w) \/ RunEnds(w)
    \/ Teardown(w) \/ Release(w) \/ Exit(w)
    \/ WatchPresent(w) \/ WatchHold(w) \/ WatchIdle(w) \/ PumpCommands(w)

(***************************************************************************)
(* The websocket handler and RuntimeSessionOwner.connect.                   *)
(***************************************************************************)
HandlerOnly == UNCHANGED <<workerVars, lock, diag, pinned, generation, crashes>>
NoClaims == UNCHANGED <<pinned, generation, crashes>>

Pins(d) == d.cams \X {d.settings}

\* claims.claim pins every camera or none; then client.open.  A handshake with
\* restart goes through stop_runtime_session first and skips the first probe.
Claim(c, d, restart) ==
    /\ cl[c].pc = "new"
    /\ IF \E p \in pinned : p[1] \in d.cams /\ p[2] # d.settings
         THEN cl' = [cl EXCEPT ![c] = Handler("done")] /\ UNCHANGED <<pinned, generation>>
         ELSE /\ generation' = IF d.cams = {} THEN generation ELSE generation + 1
              /\ pinned' = pinned \union Pins(d)
              /\ cl' = [cl EXCEPT ![c].pc = IF restart THEN "lookup" ELSE "probe",
                                  ![c].doc = d,
                                  ![c].gen = IF d.cams = {} THEN 0 ELSE generation + 1]
    /\ UNCHANGED <<workerVars, lock, diag, crashes>>

\* _try_attach on the metadata of w: a different rig is refused, a session
\* without this client's cameras is stopped by name, any other is joined.
TryAttach(c, w, after) ==
    cl' = [cl EXCEPT ![c] =
        IF doc[w].rig # cl[c].doc.rig THEN [@ EXCEPT !.pc = "finally"]
        ELSE IF ~(cl[c].doc.cams \subseteq doc[w].cams) THEN [@ EXCEPT !.pc = "lookup", !.after = after]
        ELSE [@ EXCEPT !.pc = "wait", !.meta = w]]

\* The first query of connect.
Probe(c) ==
    /\ cl[c].pc = "probe"
    /\ \/ \E w \in Answering : TryAttach(c, w, "spawn")
       \/ Go(c, "spawn")
    /\ HandlerOnly

\* RuntimeProcessHost.start: Popen and the payload.
Spawn(c) ==
    /\ cl[c].pc = "spawn"
    /\ \E w \in Workers :
         /\ w = Cardinality(Spawned) + 1
         /\ phase' = [phase EXCEPT ![w] = "boot"]
         /\ doc' = [doc EXCEPT ![w] = cl[c].doc]
         /\ cl' = [cl EXCEPT ![c].pc = "starting", ![c].host = w]
    /\ UNCHANGED <<line, stop, present, arm, following, inbox, lock, diag>>
    /\ NoClaims

\* The handshake line.  After stop_abandoned_spawn the answer is ignored and
\* start returns; a lost name race is retried against the winner; any other
\* error, a timeout or a silent death stops the child and raises.
Handshake(c) ==
    /\ cl[c].pc = "starting"
    /\ LET w == cl[c].host IN
       /\ line' = [line EXCEPT ![w] = "none"]
       /\ \/ /\ cl[c].asked /\ (line[w] # "none" \/ ~Alive(w))
             /\ cl' = [cl EXCEPT ![c].pc = "metadata", ![c].spawned = TRUE]
          \/ /\ ~cl[c].asked /\ line[w] = "READY"
             /\ cl' = [cl EXCEPT ![c].pc = "metadata", ![c].spawned = TRUE]
          \/ /\ ~cl[c].asked /\ line[w] = "contention"
             /\ ~Alive(w)                                  \* host.stop() waits for it
             /\ cl' = [cl EXCEPT ![c].pc = "race", ![c].host = None]
          \/ /\ ~cl[c].asked /\ line[w] \in {"none", "error"}
             /\ cl' = [cl EXCEPT ![c].pc = "hoststop", ![c].target = w]
    /\ UNCHANGED <<phase, stop, doc, present, arm, following, inbox, lock, diag>>
    /\ NoClaims

\* probe_with_retry after a lost race; a restart goes back to the top.
Race(c) ==
    /\ cl[c].pc = "race"
    /\ \/ \E w \in Answering : TryAttach(c, w, "probe")
       \/ Go(c, "finally")
    /\ HandlerOnly

\* _wait_for_spawned_metadata and _attach_to: whichever instance of the name
\* answers is adopted, provided the rig matches.
SpawnedMetadata(c) ==
    /\ cl[c].pc = "metadata"
    /\ LET w == cl[c].host
           fail == [cl EXCEPT ![c].pc = "hoststop", ![c].target = w]
       IN \/ cl' = fail
          \/ /\ Alive(w)
             /\ \E a \in Answering :
                  cl' = IF doc[a].rig = cl[c].doc.rig THEN [cl EXCEPT ![c].pc = "wait", ![c].meta = a] ELSE fail
    /\ HandlerOnly

\* Mutant: the death of the owner's process is not noticed.
WaitUntilReadyBlind(c) ==
    /\ cl[c].pc = "wait"
    /\ cl[c].left # "leaving"
    /\ \/ /\ phase[cl[c].meta] = "driving"
          /\ Go(c, IF cl[c].left = "left" THEN "finally" ELSE "serving")
       \/ /\ phase[cl[c].meta] = "teardown"
          /\ Go(c, "finally")
    /\ HandlerOnly

\* wait_until_ready: the state event of the adopted instance, or the owner's
\* process is gone, or the session reported an error.
WaitUntilReady(c) ==
    /\ cl[c].pc = "wait"
    /\ cl[c].left # "leaving"
    /\ \/ /\ phase[cl[c].meta] = "driving"
          /\ Go(c, IF cl[c].left = "left" THEN "finally" ELSE "serving")
       \/ /\ ~OwnerAlive(c) \/ phase[cl[c].meta] = "teardown"
          /\ Go(c, "finally")
    /\ HandlerOnly

\* handle_incoming publishes a follower-source command for its instance.
Teleop(c) ==
    /\ cl[c].pc = "serving"
    /\ cl[c].meta \in arm \intersect Answering
    /\ Cardinality(inbox \union following) < MaxFollowing
    /\ inbox' = inbox \union {cl[c].meta}
    /\ UNCHANGED <<cl, phase, line, stop, doc, present, arm, following, lock, diag>>
    /\ NoClaims

\* handle_outgoing: the owner's process died or the session reported an error.
Outgoing(c) ==
    /\ cl[c].pc = "serving"
    /\ ~OwnerAlive(c) \/ phase[cl[c].meta] \in {"teardown", "closed", "stuck"}
    /\ Go(c, "finally")
    /\ HandlerOnly

\* The browser goes away: while serving this is a detach, during startup the
\* handler first runs stop_abandoned_spawn.
Leave(c) ==
    /\ \/ /\ cl[c].pc = "serving"
          /\ Go(c, "finally")
       \/ /\ cl[c].pc \notin {"new", "serving", "finally", "waiter", "done"}
          /\ cl[c].left = "no"
          /\ cl' = [cl EXCEPT ![c].left = "leaving"]
    /\ HandlerOnly

\* stop_abandoned_spawn: only a spawn still in host.start whose metadata does
\* not answer is stopped.
StopAbandonedSpawn(c) ==
    /\ cl[c].left = "leaving"
    /\ \/ /\ cl[c].host # None /\ ~cl[c].spawned /\ cl[c].meta = None
          /\ cl' = [cl EXCEPT ![c].left = "left", ![c].asked = TRUE]
          /\ Terminate(cl[c].host)
       \/ /\ \/ cl[c].host = None \/ cl[c].spawned \/ cl[c].meta # None \/ Answering # {}
          /\ cl' = [cl EXCEPT ![c].left = "left"]
          /\ UNCHANGED <<workerVars, lock, diag>>
    /\ NoClaims

\* RuntimeProcessHost.stop escalates when the child does not exit.
AbandonKill(c) ==
    /\ cl[c].asked /\ cl[c].pc = "starting" /\ Alive(cl[c].host)
    /\ Die(cl[c].host)
    /\ UNCHANGED cl
    /\ NoClaims

\* stop_runtime_session, the lookup: the lock file, else the metadata.
StopLookup(c) ==
    /\ cl[c].pc = "lookup"
    /\ \E pid \in IF LivePid # None THEN {LivePid} ELSE Answering \union {None} :
         /\ cl' = [cl EXCEPT ![c].target = pid,
                             ![c].pc = IF pid = None THEN cl[c].after ELSE "gone"]
         /\ Terminate(pid)
    /\ NoClaims

\* _wait_until_session_gone, or SIGKILL after the timeout.
StopWait(c) ==
    /\ cl[c].pc = "gone"
    /\ cl' = [cl EXCEPT ![c].pc = cl[c].after, ![c].target = None, ![c].after = "spawn"]
    /\ IF LivePid = None \/ ~Alive(cl[c].target)
         THEN UNCHANGED <<workerVars, lock, diag>>
         ELSE Die(cl[c].target)
    /\ NoClaims

\* owner.stop() / host.stop() on a failed start: SIGTERM, wait, SIGKILL; the
\* handle is dropped and the error raised.
HostStop(c) ==
    /\ cl[c].pc = "hoststop"
    /\ cl' = [cl EXCEPT ![c].pc = "hostwait"]
    /\ Terminate(cl[c].target)
    /\ NoClaims

HostWait(c) ==
    /\ cl[c].pc = "hostwait"
    /\ cl' = [cl EXCEPT ![c].pc = "finally", ![c].host = None, ![c].spawned = FALSE, ![c].target = None]
    /\ IF Alive(cl[c].target) THEN Die(cl[c].target) ELSE UNCHANGED <<workerVars, lock, diag>>
    /\ NoClaims

\* CameraClaimRegistry.release: a stale generation is ignored.
ReleaseClaims(c) ==
    /\ cl' = [cl EXCEPT ![c] = Handler("done")]
    /\ pinned' = IF cl[c].gen = generation /\ cl[c].gen # 0 THEN {} ELSE pinned

\* Mutant: a detached handler leaves no task behind to release the pins.
FinallyForgets(c) ==
    /\ cl[c].pc = "finally"
    /\ cl[c].left # "leaving"
    /\ IF OwnerAlive(c)
         THEN cl' = [cl EXCEPT ![c] = Handler("done")] /\ UNCHANGED pinned
         ELSE ReleaseClaims(c)
    /\ UNCHANGED <<workerVars, lock, diag, generation, crashes>>

\* The finally of the handler: the subscribers go, and the pins too unless the
\* owner's process still runs; then a task waits for its death.
Finally(c) ==
    /\ cl[c].pc = "finally"
    /\ cl[c].left # "leaving"
    /\ IF OwnerAlive(c)
         THEN Go(c, "waiter") /\ UNCHANGED pinned
         ELSE ReleaseClaims(c)
    /\ UNCHANGED <<workerVars, lock, diag, generation, crashes>>

\* _release_claims_when_dead
ReleaseWhenDead(c) ==
    /\ cl[c].pc = "waiter"
    /\ ~OwnerAlive(c)
    /\ ReleaseClaims(c)
    /\ UNCHANGED <<workerVars, lock, diag, generation, crashes>>

ClientStep(c) ==
    \/ Probe(c) \/ Spawn(c) \/ Handshake(c) \/ Race(c) \/ SpawnedMetadata(c)
    \/ WaitUntilReady(c) \/ Outgoing(c) \/ StopAbandonedSpawn(c) \/ AbandonKill(c)
    \/ StopLookup(c) \/ StopWait(c) \/ HostStop(c) \/ HostWait(c)
    \/ Finally(c) \/ ReleaseWhenDead(c)

Next ==
    \/ \E c \in Clients : \/ \E d \in Documents[c], r \in BOOLEAN : Claim(c, d, r)
                          \/ ClientStep(c) \/ Teleop(c) \/ Leave(c)
    \/ \E w \in Workers : WorkerStep(w) \/ RunFails(w) \/ Crash(w)

\* Handler threads and worker processes are scheduled, and every wait in them
\* has a deadline; browsers need not come, leave or send anything.
Fairness ==
    /\ \A c \in Clients : WF_vars(ClientStep(c))
    /\ \A w \in Workers : WF_vars(WorkerStep(w))

Spec == Init /\ [][Next]_vars
FairSpec == Spec /\ Fairness

(***************************************************************************)
(* Properties.                                                              *)
(***************************************************************************)
Phases == {"none", "boot", "flocked", "open", "ready", "driving", "teardown",
           "closed", "stuck", "released", "loose", "failing", "dead"}
PCs == {"new", "probe", "spawn", "starting", "race", "metadata", "wait", "serving",
        "lookup", "gone", "hoststop", "hostwait", "finally", "waiter", "done"}

\* Every part of the state keeps the shape of the data it stands for.
TypeOK ==
    /\ cl \in [Clients -> [pc : PCs, host : Workers \union {None}, meta : Workers \union {None},
                           spawned : BOOLEAN, gen : Nat, left : {"no", "leaving", "left"},
                           doc : AllDocuments \union {NoDoc}, target : Workers \union {None},
                           after : {"spawn", "probe"}, asked : BOOLEAN]]
    /\ phase \in [Workers -> Phases]
    /\ line \in [Workers -> {"none", "READY", "contention", "error"}]
    /\ stop \in [Workers -> BOOLEAN]
    /\ doc \in [Workers -> AllDocuments \union {NoDoc}]
    /\ present \in [Workers -> BOOLEAN]
    /\ arm \subseteq Workers /\ following \subseteq Workers /\ inbox \subseteq Workers
    /\ lock \in Workers \union {None} /\ diag \in Workers \union {None}
    /\ pinned \subseteq UNION {Pins(d) : d \in AllDocuments}
    /\ generation \in Nat /\ crashes \in 0 .. MaxCrashes

\* Whatever the handlers race for and whoever is killed on the way, a process
\* connected to the arm holds the name lock and is the one recorded in the
\* lock file, so there is one at most: the lock is taken before the devices and
\* given back after teardown.  The one exception is a process that failed to
\* disconnect and is exiting.
ArmUnderLock ==
    \A w \in arm : phase[w] # "loose" => lock = w /\ diag = w

\* runtime_session_holder never calls a driven robot idle: at the instant of
\* either look, if that look finds nothing, no process has the arm but one that
\* failed to disconnect and is exiting.
GuardSeesArm ==
    ~HolderLooks.file \/ ~HolderLooks.flock => \A w \in arm : phase[w] = "loose"

\* Pins do not outlive their holders: once no handler and no waiter of the
\* name is left, the latest claimant has released everything, however claims
\* and releases of different generations interleaved.
PinsReleased ==
    (\A c \in Clients : cl[c].pc \in {"new", "done"}) => pinned = {}

\* connect, wait_until_ready and the finally end: no handler that claimed stays
\* for ever on its way to serving its client or to its end, through lost races,
\* stops by name and restarts of the session it was waiting for.
ConnectEnds ==
    \A c \in Clients : []<>(cl[c].pc \in {"new", "serving", "waiter", "done"})

\* A session nobody is subscribed to gives the arm back: it idles out, unless
\* a client comes.
SessionEnds ==
    []<>(arm = {} \/ Subscribers # {})

\* Refuted: who has the arm has the lock, always.  A failed disconnect is logged
\* and the lock released, so a successor may connect to, or the guard clear the
\* deletion of, an arm the exiting process still has.
ReleasedIsDisconnected ==
    \A w \in arm : lock = w

\* The watcher holds the arm of an abandoned session before it counts down:
\* once it has noticed, no arm follows its leader with nobody subscribed
\* (session_worker.py, _watch_subscribers).
AbandonedHolds ==
    \A w \in following : Subscribers # {} \/ present[w]

\* The cameras of a session that drives the arm stay pinned
\* (runtime_ws.py, _release_claims_when_dead).
PinnedWhileDriving ==
    \A w \in arm : Pins(doc[w]) \subseteq pinned
=============================================================================
