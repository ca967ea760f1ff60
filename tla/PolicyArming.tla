---------------------------- MODULE PolicyArming ----------------------------
(***************************************************************************)
(* Who drives the follower: StudioActionSource (runtime/action_source.py)   *)
(* and PolicyLoader (runtime/policy_loader.py).  The control thread runs    *)
(* one update() per tick: it drains commands, reads the leader, asks the    *)
(* policy for an action and sends one.  Loader threads build a policy and   *)
(* hand it over, arm threads warm it up and switch the mode; both run       *)
(* beside the tick and take _policy_lock where the code does.               *)
(*                                                                           *)
(* A policy is named by the loader generation that built it, an arm thread  *)
(* by the arm generation it was started with.                               *)
(***************************************************************************)
EXTENDS Naturals

CONSTANTS
    Models,             \* model identities a load command may name
    MaxLeaderFailures,  \* _max_leader_failures
    MaxCommands,        \* bound: commands the control thread ever drains
    MaxLoads,           \* bound: loads ever requested
    MaxFaults           \* bound: failed builds, warmups, updates, leader reads

VARIABLES
    pc,             \* where update() is: "drain", "leader", "policy", "send", "over"
    source,         \* _follower_source
    fresh,          \* TRUE: the arm has not been moved since _hold_target was latched
    readsEnabled,   \* _leader_reads_enabled
    leaderFailures, \* _leader_failures
    seen,           \* [leader, policy]: which actions this tick has; leader persists
    policy,         \* _policy: the generation attached, 0 for none
    attached,       \* _attached_generation
    identity,       \* _loaded_identity, or "none"
    loaderGen,      \* PolicyLoader._generation
    loads,          \* [1..MaxLoads -> [pc, model, old]]: the loader threads
    conn,           \* [1..MaxLoads -> "absent", "connected", "disconnected"], the
                    \* last once disconnect() was called
    arming,         \* _arming
    armGen,         \* _arm_generation
    armThreads,     \* running _finish_arm threads: [gen, policy]
    sent,           \* the action of the last tick
    want,           \* history: the mode the operator last asked for, or the one in
                    \* force when that wish was cancelled or dropped
    commands, faults

loadVars == <<loaderGen, loads, conn>>
armVars == <<arming, armGen, armThreads>>
driveVars == <<pc, source, fresh, readsEnabled, leaderFailures, seen, sent>>
tickVars == <<driveVars, want>>
vars == <<tickVars, policy, attached, identity, loadVars, armVars, commands, faults>>

ASSUME ConstantsAssumption ==
    /\ MaxLeaderFailures \in Nat \ {0}
    /\ MaxCommands \in Nat /\ MaxLoads \in Nat /\ MaxFaults \in Nat
    /\ "none" \notin Models

Gens == 1 .. MaxLoads
Sources == {"hold", "teleop", "policy"}

Init ==
    /\ pc = "drain" /\ source = "hold" /\ fresh = TRUE
    /\ readsEnabled \in BOOLEAN        \* whether the session has a leader
    /\ leaderFailures = 0
    /\ seen = [leader |-> FALSE, policy |-> FALSE]
    /\ policy = 0 /\ attached = 0 /\ identity = "none"
    /\ loaderGen = 0
    /\ loads = [g \in Gens |-> [pc |-> "none", model |-> "none", old |-> 0]]
    /\ conn = [g \in Gens |-> "absent"]
    /\ arming = FALSE /\ armGen = 0 /\ armThreads = {}
    /\ sent = "none" /\ want = "hold"
    /\ commands = 0 /\ faults = 0

CancelArming ==
    /\ arming' = FALSE
    /\ armGen' = armGen + 1
    /\ UNCHANGED armThreads

\* Latch the measured position and hold it.
EnterHold ==
    /\ source' = "hold"
    /\ fresh' = TRUE

Command ==
    /\ pc = "drain"
    /\ commands < MaxCommands
    /\ commands' = commands + 1

Fault ==
    /\ faults < MaxFaults
    /\ faults' = faults + 1

(***************************************************************************)
(* The commands of _drain_commands.                                         *)
(***************************************************************************)

\* _handle_load_model: a model already loaded is left alone unless forced;
\* otherwise the identity is cleared, arming cancelled and a thread started.
LoadModel(m, force) ==
    /\ Command
    /\ \/ /\ ~force /\ identity = m
          /\ UNCHANGED <<identity, armVars, loadVars, want>>
       \/ /\ force \/ identity # m
          /\ identity' = "none"
          /\ CancelArming /\ want' = source
          /\ loaderGen + 1 \in Gens
          /\ loaderGen' = loaderGen + 1
          /\ loads' = [loads EXCEPT ![loaderGen + 1] = [pc |-> "build", model |-> m, old |-> 0]]
          /\ UNCHANGED conn
    /\ UNCHANGED <<driveVars, policy, attached, faults>>

\* _arm_policy for a start_task or a switch to policy: the policy is reset and
\* warmed up on a thread; without a policy, or if the reset fails, nothing
\* happens.
ArmPolicy ==
    /\ Command
    /\ \/ /\ policy # 0
          /\ armGen' = armGen + 1
          /\ arming' = TRUE
          /\ armThreads' = armThreads \union {[gen |-> armGen + 1, policy |-> policy]}
          /\ want' = "policy"
          /\ UNCHANGED faults
       \/ /\ policy # 0 /\ Fault
          /\ UNCHANGED <<armVars, want>>
       \/ /\ policy = 0
          /\ UNCHANGED <<armVars, want, faults>>
    /\ UNCHANGED <<pc, source, fresh, readsEnabled, leaderFailures, seen, sent,
                   policy, attached, identity, loadVars>>

\* Mutant: a stop leaves a warmup in flight.
StopTaskKeepsArming ==
    /\ Command
    /\ IF source = "hold" THEN UNCHANGED <<source, fresh>> ELSE EnterHold
    /\ want' = "hold"
    /\ UNCHANGED <<armVars, pc, readsEnabled, leaderFailures, seen, sent, policy, attached, identity, loadVars, faults>>

\* _handle_stop_task, and set_follower_source(hold): arming is cancelled before
\* the mode changes; the latch is renewed when the mode does change.
StopTask ==
    /\ Command
    /\ CancelArming
    /\ IF source = "hold" THEN UNCHANGED <<source, fresh>> ELSE EnterHold
    /\ want' = "hold"
    /\ UNCHANGED <<pc, readsEnabled, leaderFailures, seen, sent, policy, attached, identity, loadVars, faults>>

\* set_follower_source(teleop), refused once the leader was given up.
Teleop ==
    /\ Command
    /\ readsEnabled
    /\ CancelArming
    /\ source' = "teleop"
    /\ want' = "teleop"
    /\ UNCHANGED <<pc, fresh, readsEnabled, leaderFailures, seen, sent, policy, attached, identity, loadVars, faults>>

\* The mailbox is empty.
Drained ==
    /\ pc = "drain"
    /\ pc' = "leader"
    /\ UNCHANGED <<source, fresh, readsEnabled, leaderFailures, seen, sent, want,
                   policy, attached, identity, loadVars, armVars, commands, faults>>

(***************************************************************************)
(* The rest of update().                                                    *)
(***************************************************************************)

\* _read_leader and _disable_failed_leader: a failed read reuses the last
\* action; too many in a row switch to hold for good, and leave a warmup alone.
ReadLeader ==
    /\ pc = "leader"
    /\ pc' = "policy"
    /\ \/ /\ readsEnabled
          /\ leaderFailures' = 0
          /\ seen' = [seen EXCEPT !.leader = TRUE]
          /\ UNCHANGED <<source, fresh, want, readsEnabled, faults>>
       \/ /\ readsEnabled /\ Fault
          /\ leaderFailures' = leaderFailures + 1
          /\ IF leaderFailures + 1 >= MaxLeaderFailures
               THEN /\ EnterHold
                    /\ readsEnabled' = FALSE
                    /\ want' = IF arming THEN want ELSE "hold"
               ELSE UNCHANGED <<source, fresh, want, readsEnabled>>
          /\ UNCHANGED seen
       \/ /\ ~readsEnabled
          /\ UNCHANGED <<leaderFailures, seen, source, fresh, want, readsEnabled, faults>>
    /\ UNCHANGED <<sent, policy, attached, identity, loadVars, armVars, commands>>

\* _policy_action and _drop_policy_to_hold.
PolicyAction ==
    /\ pc = "policy"
    /\ pc' = "send"
    /\ \/ /\ policy # 0 /\ ~arming
          /\ seen' = [seen EXCEPT !.policy = TRUE]
          /\ UNCHANGED <<source, fresh, want, identity, faults>>
       \/ /\ policy # 0 /\ ~arming /\ Fault
          /\ EnterHold
          /\ want' = "hold"
          /\ identity' = "none"
          /\ seen' = [seen EXCEPT !.policy = FALSE]
       \/ /\ policy = 0 \/ arming
          /\ seen' = [seen EXCEPT !.policy = FALSE]
          /\ UNCHANGED <<source, fresh, want, identity, faults>>
    /\ UNCHANGED <<readsEnabled, leaderFailures, sent, policy, attached, loadVars, armVars, commands>>

\* The arbitration at the end of update(): whose action is sent.
Send ==
    /\ pc = "send"
    /\ pc' = "drain"
    /\ LET mover == IF source = "teleop" /\ seen.leader THEN "leader"
                    ELSE IF source = "policy" /\ seen.policy THEN "policy"
                    ELSE "hold"
       IN /\ sent' = IF mover = "hold" /\ ~fresh THEN "stale_hold" ELSE mover
          /\ fresh' = (fresh /\ mover = "hold")
    /\ UNCHANGED <<source, readsEnabled, leaderFailures, seen, want, policy, attached,
                   identity, loadVars, armVars, commands, faults>>

\* Mutant: the policy stays attached while it is disconnected.
ShutdownPolicyKeeps ==
    /\ pc = "drain" \/ (pc = "policy" /\ policy # 0 /\ ~arming)
    /\ pc' = "over"
    /\ loaderGen' = loaderGen + 1
    /\ CancelArming /\ want' = source
    /\ identity' = "none"
    /\ conn' = IF policy = 0 THEN conn ELSE [conn EXCEPT ![policy] = "disconnected"]
    /\ UNCHANGED <<policy, source, fresh, readsEnabled, leaderFailures, seen, sent, attached, loads, commands, faults>>

\* shutdown_policy, from session teardown once the loop has ended: on stop
\* between ticks, or because the policy's worker died in update().
ShutdownPolicy ==
    /\ pc = "drain" \/ (pc = "policy" /\ policy # 0 /\ ~arming)
    /\ pc' = "over"
    /\ loaderGen' = loaderGen + 1
    /\ CancelArming /\ want' = source
    /\ policy' = 0
    /\ identity' = "none"
    /\ conn' = IF policy = 0 THEN conn ELSE [conn EXCEPT ![policy] = "disconnected"]
    /\ UNCHANGED <<source, fresh, readsEnabled, leaderFailures, seen, sent, attached, loads, commands, faults>>

(***************************************************************************)
(* A loader thread.                                                         *)
(***************************************************************************)
LoaderOnly == UNCHANGED <<driveVars, commands>>
NoAttach == UNCHANGED <<policy, attached, identity, armVars, want>>

\* _build_source, connect and the first warmup, or the error path.
Build(g) ==
    /\ loads[g].pc = "build"
    /\ \/ /\ loads' = [loads EXCEPT ![g].pc = "handover"]
          /\ conn' = [conn EXCEPT ![g] = "connected"]
          /\ UNCHANGED faults
       \/ /\ Fault
          /\ loads' = [loads EXCEPT ![g].pc = "done"]
          /\ conn' = [conn EXCEPT ![g] = "disconnected"]
    /\ UNCHANGED loaderGen
    /\ NoAttach /\ LoaderOnly

\* Mutant: a load that was overtaken is dropped without being closed.
HandoverForgets(g) ==
    /\ loads[g].pc = "handover"
    /\ loads' = [loads EXCEPT ![g].pc = IF g # loaderGen THEN "done" ELSE "set"]
    /\ UNCHANGED <<loaderGen, conn, faults>>
    /\ NoAttach /\ LoaderOnly

\* _handover: the generation is checked under the loader's lock, which is
\* released before _set_policy is called.
Handover(g) ==
    /\ loads[g].pc = "handover"
    /\ IF g # loaderGen
         THEN /\ loads' = [loads EXCEPT ![g].pc = "done"]
              /\ conn' = [conn EXCEPT ![g] = "disconnected"]
         ELSE /\ loads' = [loads EXCEPT ![g].pc = "set"]
              /\ UNCHANGED conn
    /\ UNCHANGED <<loaderGen, faults>>
    /\ NoAttach /\ LoaderOnly

\* Mutant: the attach trusts the loader's check.
SetPolicyUnchecked(g) ==
    /\ loads[g].pc = "set"
    /\ CancelArming /\ want' = source
    /\ policy' = g
    /\ attached' = g
    /\ identity' = loads[g].model
    /\ loads' = [loads EXCEPT ![g].pc = "swap", ![g].old = policy]
    /\ UNCHANGED <<loaderGen, conn, faults>>
    /\ LoaderOnly

\* _set_policy under _policy_lock.
SetPolicy(g) ==
    /\ loads[g].pc = "set"
    /\ IF g < attached
         THEN /\ loads' = [loads EXCEPT ![g].pc = "done"]
              /\ conn' = [conn EXCEPT ![g] = "disconnected"]
              /\ NoAttach
         ELSE /\ CancelArming /\ want' = source
              /\ policy' = g
              /\ attached' = g
              /\ identity' = loads[g].model
              /\ loads' = [loads EXCEPT ![g].pc = "swap", ![g].old = policy]
              /\ UNCHANGED conn
    /\ UNCHANGED <<loaderGen, faults>>
    /\ LoaderOnly

\* The end of _set_policy: the state is published and the previous policy
\* disconnected.  When either raises, before or after that disconnect, the
\* except of _load disconnects the policy that was just attached.
DropPrevious(g) ==
    /\ loads[g].pc = "swap"
    /\ LET Closed == IF loads[g].old = 0 THEN conn ELSE [conn EXCEPT ![loads[g].old] = "disconnected"]
       IN \/ /\ loads' = [loads EXCEPT ![g].pc = "done", ![g].old = 0]
             /\ conn' = Closed
             /\ UNCHANGED faults
          \/ /\ Fault
             /\ loads' = [loads EXCEPT ![g].pc = "failed"]
             /\ \E reached \in {conn, Closed} : conn' = [reached EXCEPT ![g] = "disconnected"]
    /\ UNCHANGED loaderGen
    /\ NoAttach /\ LoaderOnly

LoaderStep(g) == Build(g) \/ Handover(g) \/ SetPolicy(g) \/ DropPrevious(g)

(***************************************************************************)
(* An arm thread (_finish_arm).                                             *)
(***************************************************************************)
Current(t) == t.gen = armGen /\ t.policy = policy

ArmSucceeds(t) ==
    /\ armThreads' = armThreads \ {t}
    /\ IF Current(t)
         THEN arming' = FALSE /\ source' = "policy"
         ELSE UNCHANGED <<arming, source>>
    /\ UNCHANGED faults

\* Mutant: a failed warmup leaves the policy suppressed.
ArmFailsStuck(t) ==
    /\ Fault
    /\ armThreads' = armThreads \ {t}
    /\ UNCHANGED <<arming, source>>

ArmFails(t) ==
    /\ Fault
    /\ armThreads' = armThreads \ {t}
    /\ arming' = IF t.gen = armGen THEN FALSE ELSE arming
    /\ UNCHANGED source

FinishArm(t) ==
    /\ ArmSucceeds(t) \/ ArmFails(t)
    /\ UNCHANGED <<pc, fresh, readsEnabled, leaderFailures, seen, sent, want,
                   policy, attached, identity, loadVars, armGen, commands>>

Tick == Drained \/ ReadLeader \/ PolicyAction \/ Send

Next ==
    \/ \E m \in Models, f \in BOOLEAN : LoadModel(m, f)
    \/ ArmPolicy \/ StopTask \/ Teleop
    \/ Tick
    \/ ShutdownPolicy
    \/ \E g \in Gens : LoaderStep(g)
    \/ \E t \in armThreads : FinishArm(t)

\* The loop ticks, and the daemon threads are scheduled; commands and teardown
\* need not come.
Fairness ==
    /\ WF_vars(Tick)
    /\ \A g \in Gens : WF_vars(LoaderStep(g))
    /\ WF_vars(\E t \in armThreads : FinishArm(t))

Spec == Init /\ [][Next]_vars
FairSpec == Spec /\ Fairness

(***************************************************************************)
(* Properties.                                                              *)
(***************************************************************************)

\* Every part of the state keeps the shape of the data it stands for.
TypeOK ==
    /\ pc \in {"drain", "leader", "policy", "send", "over"}
    /\ source \in Sources /\ want \in Sources
    /\ fresh \in BOOLEAN /\ readsEnabled \in BOOLEAN
    /\ leaderFailures \in 0 .. MaxLeaderFailures
    /\ seen \in [leader : BOOLEAN, policy : BOOLEAN]
    /\ policy \in Gens \union {0} /\ attached \in Gens \union {0}
    /\ identity \in Models \union {"none"}
    /\ loaderGen \in Nat
    /\ loads \in [Gens -> [pc : {"none", "build", "handover", "set", "swap", "done", "failed"},
                           model : Models \union {"none"}, old : Gens \union {0}]]
    /\ conn \in [Gens -> {"absent", "connected", "disconnected"}]
    /\ arming \in BOOLEAN /\ armGen \in Nat
    /\ armThreads \subseteq [gen : Nat, policy : Gens]
    /\ sent \in {"none", "hold", "stale_hold", "leader", "policy"}
    /\ commands \in 0 .. MaxCommands /\ faults \in 0 .. MaxFaults

\* The mode is one the operator asked for: a warmup that ends after a stop, a
\* teleop switch, a new load, its attach or a dropped policy never puts the
\* policy in control (_finish_arm against _cancel_arming).
PolicyIsWanted ==
    source = "policy" => want = "policy"

\* The policy the tick would run is open: neither a replaced loader thread, nor
\* a stale handover, nor teardown leaves a disconnected policy attached.  Only
\* a policy whose own handover raised after its attach stays attached closed.
AttachedIsConnected ==
    policy # 0 /\ loads[policy].pc # "failed" => conn[policy] = "connected"

\* The same without the exception, which the update() of _policy_action takes
\* for granted.  TLC refutes it: see DropPrevious.
AttachedAlwaysOpen ==
    policy # 0 => conn[policy] = "connected"

\* A handover that was overtaken never replaces a newer policy, although the
\* loader's own check happens before the attach and under another lock.
NewestAttached ==
    [][policy' \notin {0, policy} => policy' > attached]_vars

\* A warmup ends: arming, which suppresses the policy, does not stay set when
\* the warmup fails or is overtaken.
ArmingEnds == arming ~> ~arming

\* Every policy that was built is in use or is closed again, unless the
\* handover that replaced it raised before it came to that.
NoPolicyLeaks ==
    \A g \in Gens : conn[g] = "connected" ~>
        \/ policy = g
        \/ conn[g] = "disconnected"
        \/ \E h \in Gens : loads[h].pc = "failed" /\ loads[h].old = g

\* Whenever update() falls back to the hold target, the arm has not been moved
\* since that target was latched (runtime-session-architecture.md: the latch is
\* cleared on a mode change).
HoldIsFresh == sent # "stale_hold"

\* No policy is attached once teardown has shut the loader down
\* (policy_loader.py, PolicyLoader.shutdown).
NoAttachAfterShutdown == pc = "over" => policy = 0
=============================================================================
