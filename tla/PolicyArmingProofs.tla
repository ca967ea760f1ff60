------------------------- MODULE PolicyArmingProofs -------------------------
(* Theorems about PolicyArming for any set of models, any number of loads,  *)
(* commands and faults, and any tolerance for failed leader reads.          *)
EXTENDS PolicyArming, TLAPS

(* Reads are given up in the very step that uses up the tolerance.          *)
ReadsWithinTolerance == readsEnabled => leaderFailures < MaxLeaderFailures

TypeInv == TypeOK /\ ReadsWithinTolerance

LEMMA TypeInit == Init => TypeInv
<1> SUFFICES ASSUME Init PROVE TypeInv
  OBVIOUS
<1> USE ConstantsAssumption DEF ConstantsAssumption, Init
<1>1. fresh \in BOOLEAN /\ arming \in BOOLEAN
  BY Zenon
<1>2. seen \in [leader : BOOLEAN, policy : BOOLEAN]
  OBVIOUS
<1>3. loads \in [Gens -> [pc : {"none", "build", "handover", "set", "swap", "done", "failed"},
                          model : Models \union {"none"}, old : Gens \union {0}]]
  OBVIOUS
<1>4. conn \in [Gens -> {"absent", "connected", "disconnected"}]
  OBVIOUS
<1> QED
  BY <1>1, <1>2, <1>3, <1>4 DEF TypeInv, TypeOK, ReadsWithinTolerance, Sources

LEMMA TypeStep == TypeInv /\ [Next]_vars => TypeInv'
<1> SUFFICES ASSUME TypeInv, [Next]_vars PROVE TypeInv'
  OBVIOUS
<1> USE ConstantsAssumption DEF ConstantsAssumption, TypeInv, TypeOK, ReadsWithinTolerance,
        loadVars, armVars, driveVars, tickVars
<1>a. TRUE \in BOOLEAN /\ FALSE \in BOOLEAN
  BY Zenon
<1>b. {"hold", "teleop", "policy"} = Sources
  BY DEF Sources
<1>1. ASSUME NEW m \in Models, NEW f \in BOOLEAN, LoadModel(m, f) PROVE TypeInv'
  <2>1. loads' \in [Gens -> [pc : {"none", "build", "handover", "set", "swap", "done", "failed"},
                             model : Models \union {"none"}, old : Gens \union {0}]]
    BY <1>1 DEF LoadModel
  <2>2. arming' \in BOOLEAN
    BY <1>1, <1>a, Zenon DEF LoadModel, CancelArming
  <2>3. armGen' \in Nat /\ loaderGen' \in Nat
    BY <1>1 DEF LoadModel, CancelArming
  <2> QED
    BY <1>1, <2>1, <2>2, <2>3 DEF LoadModel, Command, CancelArming
<1>2. CASE ArmPolicy
  <2>1. arming' \in BOOLEAN
    BY <1>2, <1>a DEF ArmPolicy
  <2>2. armThreads' \subseteq [gen : Nat, policy : Gens]
    BY <1>2 DEF ArmPolicy
  <2> QED
    BY <1>2, <2>1, <2>2, <1>b DEF ArmPolicy, Command, Fault
<1>3. CASE StopTask \/ Teleop
  <2>1. arming' \in BOOLEAN /\ fresh' \in BOOLEAN
    BY <1>3, <1>a DEF StopTask, Teleop, CancelArming, EnterHold
  <2> QED
    BY <1>3, <2>1, <1>b DEF StopTask, Teleop, Command, CancelArming, EnterHold
<1>4. CASE Drained
  BY <1>4 DEF Drained
<1>5. CASE ReadLeader
  <2>1. seen' \in [leader : BOOLEAN, policy : BOOLEAN] /\ fresh' \in BOOLEAN /\ readsEnabled' \in BOOLEAN
    BY <1>5, <1>a DEF ReadLeader, EnterHold
  <2>2. leaderFailures' \in 0 .. MaxLeaderFailures /\ (readsEnabled' => leaderFailures' < MaxLeaderFailures)
    BY <1>5 DEF ReadLeader
  <2> QED
    BY <1>5, <2>1, <2>2, <1>b DEF ReadLeader, Fault, EnterHold
<1>6. CASE PolicyAction
  <2>1. seen' \in [leader : BOOLEAN, policy : BOOLEAN] /\ fresh' \in BOOLEAN
    BY <1>6, <1>a DEF PolicyAction, EnterHold
  <2> QED
    BY <1>6, <2>1, <1>b DEF PolicyAction, Fault, EnterHold
<1>7. CASE Send
  <2>1. fresh' \in BOOLEAN
    BY <1>7, <1>a DEF Send
  <2> QED
    BY <1>7, <2>1 DEF Send
<1>8. CASE ShutdownPolicy
  <2>1. arming' \in BOOLEAN
    BY <1>8, <1>a DEF ShutdownPolicy, CancelArming
  <2>2. conn' \in [Gens -> {"absent", "connected", "disconnected"}]
    BY <1>8 DEF ShutdownPolicy
  <2> QED
    BY <1>8, <2>1, <2>2 DEF ShutdownPolicy, CancelArming
<1>9. ASSUME NEW g \in Gens, LoaderStep(g) PROVE TypeInv'
  <2>1. conn' \in [Gens -> {"absent", "connected", "disconnected"}]
    BY <1>9 DEF LoaderStep, Build, Handover, SetPolicy, DropPrevious
  <2>2. loads' \in [Gens -> [pc : {"none", "build", "handover", "set", "swap", "done", "failed"},
                             model : Models \union {"none"}, old : Gens \union {0}]]
    BY <1>9 DEF LoaderStep, Build, Handover, SetPolicy, DropPrevious
  <2>3. arming' \in BOOLEAN
    BY <1>9, <1>a DEF LoaderStep, Build, Handover, SetPolicy, DropPrevious, NoAttach, CancelArming
  <2>4. policy' \in Gens \union {0} /\ attached' \in Gens \union {0} /\ identity' \in Models \union {"none"}
    BY <1>9 DEF LoaderStep, Build, Handover, SetPolicy, DropPrevious, NoAttach
  <2>5. armGen' \in Nat /\ faults' \in 0 .. MaxFaults /\ UNCHANGED <<loaderGen, armThreads>>
    BY <1>9 DEF LoaderStep, Build, Handover, SetPolicy, DropPrevious, NoAttach, CancelArming, Fault
  <2>6. UNCHANGED <<driveVars, commands>> /\ want' \in {want, source}
    BY <1>9 DEF LoaderStep, Build, Handover, SetPolicy, DropPrevious, LoaderOnly, NoAttach
  <2> QED
    BY <2>1, <2>2, <2>3, <2>4, <2>5, <2>6
<1>10. ASSUME NEW t \in armThreads, FinishArm(t) PROVE TypeInv'
  <2>1. arming' \in BOOLEAN
    BY <1>10, <1>a DEF FinishArm, ArmSucceeds, ArmFails
  <2>2. source' \in Sources
    BY <1>10, <1>b DEF FinishArm, ArmSucceeds, ArmFails
  <2>3. armThreads' \subseteq [gen : Nat, policy : Gens]
    BY <1>10 DEF FinishArm, ArmSucceeds, ArmFails
  <2>4. UNCHANGED faults \/ Fault
    BY <1>10, Zenon DEF FinishArm, ArmSucceeds, ArmFails
  <2>5. faults' \in 0 .. MaxFaults
    BY <2>4 DEF Fault
  <2> QED
    BY <1>10, <2>1, <2>2, <2>3, <2>5 DEF FinishArm
<1>11. CASE UNCHANGED vars
  BY <1>11 DEF vars
<1> QED
  BY <1>1, <1>2, <1>3, <1>4, <1>5, <1>6, <1>7, <1>8, <1>9, <1>10, <1>11 DEF Next, Tick

(* The state of the action source, of the loader threads and of the arm     *)
(* threads keeps its shape; the failure count stops at the tolerance        *)
(* because _disable_failed_leader turns the reads off there.                *)
THEOREM TypeCorrect == Spec => []TypeOK
<1>1. TypeInv => TypeOK
  BY DEF TypeInv
<1> QED
  BY TypeInit, TypeStep, <1>1, PTL DEF Spec

(***************************************************************************)
(* The arm threads.  An arm generation is given to one thread only, and a   *)
(* thread that holds the current one was started by the arm command that    *)
(* still stands: everything that ends the wish for the policy raises        *)
(* _arm_generation first, or needs arming to be over (_policy_action).      *)
(***************************************************************************)
OneThreadPerGen == \A t, u \in armThreads : t.gen = u.gen => t = u

CurrentIsWanted ==
  \A t \in armThreads :
    /\ t.gen <= armGen
    /\ t.gen = armGen => arming /\ want = "policy"

ArmInv == TypeInv /\ OneThreadPerGen /\ CurrentIsWanted /\ PolicyIsWanted

LEMMA ArmStep == ArmInv /\ [Next]_vars => ArmInv'
<1> SUFFICES ASSUME ArmInv, [Next]_vars PROVE ArmInv'
  OBVIOUS
<1>a. TypeInv'
  BY TypeStep DEF ArmInv
<1>b. armGen \in Nat /\ armThreads \subseteq [gen : Nat, policy : Gens]
  BY DEF ArmInv, TypeInv, TypeOK
<1>c. \A t \in armThreads : t.gen = armGen => arming /\ want = "policy"
  BY Zenon DEF ArmInv, CurrentIsWanted
<1>e. \A t \in armThreads : t.gen \in Nat /\ t.gen <= armGen
  BY <1>b DEF ArmInv, CurrentIsWanted
<1> SUFFICES OneThreadPerGen' /\ CurrentIsWanted' /\ PolicyIsWanted'
  BY <1>a DEF ArmInv
<1> USE DEF ArmInv, OneThreadPerGen, CurrentIsWanted, PolicyIsWanted, loadVars, armVars, driveVars, tickVars
\* What cancels an arming keeps the threads and leaves all of them behind.
<1>d. ASSUME CancelArming PROVE OneThreadPerGen' /\ CurrentIsWanted'
  BY <1>b, <1>d, <1>e DEF CancelArming
<1>1. ASSUME NEW m \in Models, NEW f \in BOOLEAN, LoadModel(m, f)
      PROVE OneThreadPerGen' /\ CurrentIsWanted' /\ PolicyIsWanted'
  <2>1. UNCHANGED source
    BY <1>1 DEF LoadModel
  <2>2. CASE CancelArming /\ want' = source
    BY <2>1, <2>2, <1>d
  <2>3. CASE UNCHANGED <<armVars, want>>
    BY <2>1, <2>3
  <2> QED BY <1>1, <2>2, <2>3 DEF LoadModel
<1>2. CASE ArmPolicy
  <2>1. CASE armThreads' = armThreads \union {[gen |-> armGen + 1, policy |-> policy]}
             /\ armGen' = armGen + 1 /\ arming' = TRUE /\ want' = "policy"
    <3>1. OneThreadPerGen'
      BY <2>1, <1>b, <1>e
    <3>2. CurrentIsWanted'
      BY <2>1, <1>b, <1>e
    <3> QED BY <2>1, <3>1, <3>2
  <2>2. CASE UNCHANGED <<armVars, want>>
    BY <1>2, <2>2 DEF ArmPolicy
  <2> QED BY <1>2, <2>1, <2>2 DEF ArmPolicy
<1>3. CASE StopTask \/ Teleop
  <2>1. CancelArming
    BY <1>3 DEF StopTask, Teleop
  <2>2. PolicyIsWanted'
    BY <1>3 DEF StopTask, Teleop, EnterHold
  <2> QED BY <2>1, <2>2, <1>d
<1>4. CASE Drained \/ Send
  BY <1>4 DEF Drained, Send
<1>5. CASE ReadLeader
  <2>1. UNCHANGED armVars /\ (arming => want' = want)
    BY <1>5 DEF ReadLeader
  <2>2. OneThreadPerGen' /\ CurrentIsWanted'
    BY <2>1, <1>c, <1>e
  <2>3. source' = "hold" \/ UNCHANGED <<source, want>>
    BY <1>5 DEF ReadLeader, EnterHold
  <2> QED BY <2>2, <2>3
<1>6. CASE PolicyAction
  BY <1>6, <1>c DEF PolicyAction, EnterHold
<1>7. CASE ShutdownPolicy
  <2>1. CancelArming /\ UNCHANGED source /\ want' = source
    BY <1>7 DEF ShutdownPolicy
  <2> QED BY <2>1, <1>d
<1>8. ASSUME NEW g \in Gens, LoaderStep(g)
      PROVE OneThreadPerGen' /\ CurrentIsWanted' /\ PolicyIsWanted'
  <2>1. UNCHANGED source
    BY <1>8 DEF LoaderStep, Build, Handover, SetPolicy, DropPrevious, LoaderOnly
  <2>2. (CancelArming /\ want' = source) \/ UNCHANGED <<armVars, want>>
    BY <1>8 DEF LoaderStep, Build, Handover, SetPolicy, DropPrevious, NoAttach
  <2> QED BY <2>1, <2>2, <1>d
<1>9. ASSUME NEW t \in armThreads, FinishArm(t)
      PROVE OneThreadPerGen' /\ CurrentIsWanted' /\ PolicyIsWanted'
  <2>1. armThreads' = armThreads \ {t} /\ UNCHANGED <<armGen, want>>
    BY <1>9 DEF FinishArm, ArmSucceeds, ArmFails
  <2>2. t.gen # armGen => UNCHANGED <<arming, source>>
    BY <1>9 DEF FinishArm, ArmSucceeds, ArmFails, Current
  <2>3. \A u \in armThreads' : u.gen = armGen => t.gen # armGen
    BY <2>1
  <2>4. source' = "policy" => source = "policy" \/ t.gen = armGen
    BY <2>2
  <2>5. CurrentIsWanted'
    BY <2>1, <2>2, <2>3, <1>c, <1>e
  <2> QED BY <2>1, <2>4, <2>5, <1>c
<1>10. CASE UNCHANGED vars
  BY <1>10 DEF vars
<1> QED
  BY <1>1, <1>2, <1>3, <1>4, <1>5, <1>6, <1>7, <1>8, <1>9, <1>10 DEF Next, Tick

(* The policy drives the arm only while the operator wants it to: a warmup  *)
(* overtaken by a stop, a teleop switch, a load or a drop never switches    *)
(* the mode (_finish_arm against _cancel_arming).                           *)
THEOREM PolicyOnlyWhenWanted == Spec => []PolicyIsWanted
<1>1. Init => ArmInv
  BY TypeInit DEF Init, ArmInv, OneThreadPerGen, CurrentIsWanted, PolicyIsWanted
<1>2. ArmInv => PolicyIsWanted
  BY DEF ArmInv
<1> QED
  BY <1>1, ArmStep, <1>2, PTL DEF Spec

(***************************************************************************)
(* The loader threads.  Only attached generations are disconnected by       *)
(* another thread than their own, and a generation is attached once: what   *)
(* is at "handover" or "set" is open, and what a swap is about to close is  *)
(* older than the attached one.                                             *)
(***************************************************************************)
PolicyIsAttached == policy \in {0, attached}

AttachedOnce == attached # 0 => loads[attached].pc \in {"swap", "done", "failed"}

UnusedGens == \A g \in Gens : g > loaderGen => loads[g].pc = "none"

HandedOverIsOpen == \A g \in Gens : loads[g].pc \in {"handover", "set"} => conn[g] = "connected"

ReplacedIsOlder ==
  \A g \in Gens : loads[g].old # 0 =>
    /\ loads[g].pc \in {"swap", "failed"}
    /\ loads[g].old < attached
    /\ loads[loads[g].old].pc \in {"swap", "done", "failed"}

LoadInv ==
  /\ TypeInv /\ PolicyIsAttached /\ AttachedOnce /\ UnusedGens
  /\ HandedOverIsOpen /\ ReplacedIsOlder /\ AttachedIsConnected

(* A connected policy is the attached one, is about to be attached by its   *)
(* own loader, is about to be closed by the loader that replaced it, or was *)
(* left open by that loader when its handover raised.                       *)
OpenIsHeld ==
  \A g \in Gens : conn[g] = "connected" =>
    \/ policy = g
    \/ loads[g].pc \in {"handover", "set"}
    \/ \E h \in Gens : loads[h].pc \in {"swap", "failed"} /\ loads[h].old = g

LEMMA LoadInit == Init => LoadInv /\ OpenIsHeld
<1> SUFFICES ASSUME Init PROVE LoadInv /\ OpenIsHeld
  OBVIOUS
<1>1. TypeInv
  BY TypeInit
<1>2. /\ \A g \in Gens : loads[g].pc = "none" /\ loads[g].old = 0 /\ conn[g] = "absent"
      /\ policy = 0 /\ attached = 0
  BY DEF Init
<1> QED
  BY <1>1, <1>2 DEF LoadInv, PolicyIsAttached, AttachedOnce, UnusedGens, HandedOverIsOpen,
     ReplacedIsOlder, AttachedIsConnected, OpenIsHeld

(* Which part of the loading state each step of the system may change: the  *)
(* steps of the tick, the commands other than a load and the arm threads    *)
(* change none of it.                                                       *)
LEMMA LoadSteps ==
  ASSUME [Next]_vars
  PROVE  \/ UNCHANGED <<policy, attached, loaderGen, loads, conn>>
         \/ \E m \in Models, f \in BOOLEAN : LoadModel(m, f)
         \/ ShutdownPolicy
         \/ \E g \in Gens : LoaderStep(g)
<1>1. CASE ArmPolicy \/ StopTask \/ Teleop
  BY <1>1 DEF ArmPolicy, StopTask, Teleop, loadVars
<1>2. CASE Tick
  BY <1>2 DEF Tick, Drained, ReadLeader, PolicyAction, Send, loadVars
<1>3. ASSUME NEW t \in armThreads, FinishArm(t)
      PROVE UNCHANGED <<policy, attached, loaderGen, loads, conn>>
  BY <1>3 DEF FinishArm, loadVars
<1>4. CASE UNCHANGED vars
  BY <1>4 DEF vars, loadVars
<1> QED
  BY <1>1, <1>2, <1>3, <1>4 DEF Next

LEMMA LoadStep ==
  LoadInv /\ [Next]_vars => LoadInv' /\ (policy' \notin {0, policy} => policy' > attached)
<1> SUFFICES ASSUME LoadInv, [Next]_vars
             PROVE  LoadInv' /\ (policy' \notin {0, policy} => policy' > attached)
  OBVIOUS
<1>a. TypeInv'
  BY TypeStep DEF LoadInv
<1>b. /\ policy \in Gens \union {0} /\ attached \in Gens \union {0} /\ loaderGen \in Nat
      /\ loads \in [Gens -> [pc : {"none", "build", "handover", "set", "swap", "done", "failed"},
                             model : Models \union {"none"}, old : Gens \union {0}]]
      /\ conn \in [Gens -> {"absent", "connected", "disconnected"}]
  BY DEF LoadInv, TypeInv, TypeOK
<1>c. Gens \subseteq Nat /\ 0 \notin Gens
  BY DEF Gens
<1> SUFFICES /\ PolicyIsAttached' /\ AttachedOnce' /\ UnusedGens' /\ HandedOverIsOpen'
             /\ ReplacedIsOlder' /\ AttachedIsConnected'
             /\ policy' \notin {0, policy} => policy' > attached
  BY <1>a DEF LoadInv
<1> DEFINE Good == /\ PolicyIsAttached' /\ AttachedOnce' /\ UnusedGens' /\ HandedOverIsOpen'
                   /\ ReplacedIsOlder' /\ AttachedIsConnected'
                   /\ policy' \notin {0, policy} => policy' > attached
<1> USE DEF LoadInv, PolicyIsAttached, AttachedOnce, UnusedGens, HandedOverIsOpen,
            ReplacedIsOlder, AttachedIsConnected
<1>1. CASE UNCHANGED <<policy, attached, loaderGen, loads, conn>>
  BY <1>1
<1>2. ASSUME NEW m \in Models, NEW f \in BOOLEAN, LoadModel(m, f) PROVE Good
  <2>1. CASE UNCHANGED loadVars
    BY <1>2, <2>1 DEF LoadModel, loadVars
  <2>2. CASE /\ loaderGen + 1 \in Gens
             /\ loaderGen' = loaderGen + 1
             /\ loads' = [loads EXCEPT ![loaderGen + 1] = [pc |-> "build", model |-> m, old |-> 0]]
             /\ UNCHANGED <<conn, policy, attached>>
    <3>1. /\ loads[loaderGen + 1].pc = "none"
          /\ loads'[loaderGen + 1].pc = "build" /\ loads'[loaderGen + 1].old = 0
          /\ \A g \in Gens : g # loaderGen + 1 => loads'[g] = loads[g]
      BY <2>2, <1>b, <1>c
    <3> QED BY <2>2, <3>1, <1>b, <1>c
  <2> QED BY <1>2, <2>1, <2>2 DEF LoadModel, loadVars
<1>3. CASE ShutdownPolicy
  BY <1>3, <1>b, <1>c DEF ShutdownPolicy
<1>4. ASSUME NEW g \in Gens, Build(g) PROVE Good
  BY <1>4, <1>b, <1>c DEF Build, NoAttach
<1>5. ASSUME NEW g \in Gens, Handover(g) PROVE Good
  BY <1>5, <1>b, <1>c DEF Handover, NoAttach
<1>6. ASSUME NEW g \in Gens, SetPolicy(g) PROVE Good
  <2>0. loads[g].pc = "set" /\ loaderGen' = loaderGen
    BY <1>6 DEF SetPolicy
  <2>1. CASE g < attached
    <3>1. /\ loads' = [loads EXCEPT ![g].pc = "done"]
          /\ conn' = [conn EXCEPT ![g] = "disconnected"]
          /\ policy' = policy /\ attached' = attached
      BY <1>6, <2>1 DEF SetPolicy, NoAttach
    <3> QED BY <2>0, <3>1, <1>b, <1>c
  <2>2. CASE ~(g < attached)
    <3>1. /\ loads' = [loads EXCEPT ![g].pc = "swap", ![g].old = policy]
          /\ policy' = g /\ attached' = g /\ conn' = conn
      BY <1>6, <2>2 DEF SetPolicy
    <3>2. /\ loads'[g].pc = "swap" /\ loads'[g].old = policy
          /\ \A h \in Gens : h # g => loads'[h] = loads[h]
      BY <3>1, <1>b
    <3>3. g # attached /\ g > attached
      BY <2>0, <2>2, <1>b, <1>c
    <3> QED BY <2>0, <3>1, <3>2, <3>3, <1>b, <1>c
  <2> QED BY <2>1, <2>2
<1>7. ASSUME NEW g \in Gens, DropPrevious(g) PROVE Good
  <2>1. /\ UNCHANGED <<policy, attached, loaderGen>> /\ loads[g].pc = "swap"
        /\ \A h \in Gens \ {g} : loads'[h] = loads[h]
        /\ \A h \in Gens : h \notin {g, loads[g].old} => conn'[h] = conn[h]
    BY <1>7, <1>b, <1>c DEF DropPrevious, NoAttach
  <2>2. \/ loads'[g].pc = "done" /\ loads'[g].old = 0 /\ (loads[g].old # g => conn'[g] = conn[g])
        \/ loads'[g].pc = "failed" /\ loads'[g].old = loads[g].old
    BY <1>7, <1>b, <1>c DEF DropPrevious
  <2>3. loads[g].old # 0 => loads[g].old < attached /\ loads[loads[g].old].pc \in {"swap", "done", "failed"}
    OBVIOUS
  <2>4. PolicyIsAttached' /\ AttachedOnce' /\ UnusedGens'
    BY <2>1, <2>2, <1>b, <1>c
  <2>5. HandedOverIsOpen'
    BY <2>1, <2>2, <2>3, <1>b, <1>c
  <2>6. ReplacedIsOlder'
    <3> SUFFICES ASSUME NEW h \in Gens, loads'[h].old # 0
                 PROVE  /\ loads'[h].pc \in {"swap", "failed"}
                        /\ loads'[h].old < attached'
                        /\ loads'[loads'[h].old].pc \in {"swap", "done", "failed"}
      OBVIOUS
    <3>1. loads'[h].old = loads[h].old /\ loads[h].old \in Gens /\ loads'[h].pc \in {"swap", "failed"}
      BY <2>1, <2>2, <1>b
    <3>2. loads[h].old < attached /\ loads[loads[h].old].pc \in {"swap", "done", "failed"}
      BY <3>1, <1>c
    <3>3. \A k \in Gens : loads[k].pc \in {"swap", "done", "failed"}
                          => loads'[k].pc \in {"swap", "done", "failed"}
      BY <2>1, <2>2
    <3> QED BY <2>1, <3>1, <3>2, <3>3
  <2>7. AttachedIsConnected'
    BY <2>1, <2>2, <2>3, <1>b, <1>c
  <2> QED BY <2>1, <2>4, <2>5, <2>6, <2>7
<1> QED
  BY LoadSteps, <1>1, <1>2, <1>3, <1>4, <1>5, <1>6, <1>7 DEF LoaderStep

LEMMA OpenStep == LoadInv /\ OpenIsHeld /\ [Next]_vars => OpenIsHeld'
<1> SUFFICES ASSUME LoadInv, OpenIsHeld, [Next]_vars PROVE OpenIsHeld'
  OBVIOUS
<1>b. /\ policy \in Gens \union {0} /\ attached \in Gens \union {0} /\ loaderGen \in Nat
      /\ loads \in [Gens -> [pc : {"none", "build", "handover", "set", "swap", "done", "failed"},
                             model : Models \union {"none"}, old : Gens \union {0}]]
      /\ conn \in [Gens -> {"absent", "connected", "disconnected"}]
  BY DEF LoadInv, TypeInv, TypeOK
<1>c. Gens \subseteq Nat /\ 0 \notin Gens
  BY DEF Gens
<1> USE DEF OpenIsHeld
<1>1. CASE UNCHANGED <<policy, attached, loaderGen, loads, conn>>
  BY <1>1
<1>2. ASSUME NEW m \in Models, NEW f \in BOOLEAN, LoadModel(m, f) PROVE OpenIsHeld'
  <2>1. CASE UNCHANGED loadVars
    BY <1>2, <2>1 DEF LoadModel, loadVars
  <2>2. CASE /\ loaderGen + 1 \in Gens
             /\ loads' = [loads EXCEPT ![loaderGen + 1] = [pc |-> "build", model |-> m, old |-> 0]]
             /\ UNCHANGED <<conn, policy, attached>>
    <3>1. /\ loads[loaderGen + 1].pc = "none"
          /\ \A g \in Gens : g # loaderGen + 1 => loads'[g] = loads[g]
      BY <2>2, <1>b, <1>c DEF LoadInv, UnusedGens
    <3> QED BY <2>2, <3>1, <1>b
  <2> QED BY <1>2, <2>1, <2>2 DEF LoadModel, loadVars
<1>3. CASE ShutdownPolicy
  BY <1>3, <1>b, <1>c DEF ShutdownPolicy
<1>4. ASSUME NEW g \in Gens, Build(g) \/ Handover(g) PROVE OpenIsHeld'
  <2>1. /\ UNCHANGED policy
        /\ \A h \in Gens \ {g} : loads'[h] = loads[h] /\ conn'[h] = conn[h]
        /\ loads'[g].pc \in {"handover", "set"} \/ conn'[g] = "disconnected"
        /\ loads[g].pc \in {"build", "handover"}
    BY <1>4, <1>b DEF Build, Handover, NoAttach
  <2> QED BY <2>1, <1>b
<1>5. ASSUME NEW g \in Gens, SetPolicy(g) PROVE OpenIsHeld'
  <2>1. CASE g < attached
    <3>1. /\ UNCHANGED policy
          /\ \A h \in Gens \ {g} : loads'[h] = loads[h] /\ conn'[h] = conn[h]
          /\ conn'[g] = "disconnected" /\ loads[g].pc = "set"
      BY <1>5, <2>1, <1>b DEF SetPolicy, NoAttach
    <3> QED BY <3>1, <1>b
  <2>2. CASE ~(g < attached)
    <3>1. /\ policy' = g /\ UNCHANGED conn
          /\ loads[g].pc = "set"
          /\ \A h \in Gens \ {g} : loads'[h] = loads[h]
          /\ loads'[g].pc = "swap" /\ loads'[g].old = policy
      BY <1>5, <2>2, <1>b DEF SetPolicy
    <3> QED BY <3>1, <1>b
  <2> QED BY <2>1, <2>2
<1>6. ASSUME NEW g \in Gens, DropPrevious(g) PROVE OpenIsHeld'
  <2>1. /\ UNCHANGED policy /\ loads[g].pc = "swap"
        /\ \A h \in Gens \ {g} : loads'[h] = loads[h]
        /\ \A h \in Gens : conn'[h] = conn[h] \/ conn'[h] = "disconnected"
    BY <1>6, <1>b, <1>c DEF DropPrevious, NoAttach
  <2>2. \/ \A h \in Gens : loads[g].old = h => conn'[h] = "disconnected"
        \/ loads'[g].pc = "failed" /\ loads'[g].old = loads[g].old
    BY <1>6, <1>b, <1>c DEF DropPrevious
  <2>3. loads'[g].pc = "failed" => loads'[g].old = loads[g].old
    BY <1>6, <1>b DEF DropPrevious
  <2> QED BY <2>1, <2>2, <2>3, <1>b
<1> QED
  BY LoadSteps, <1>1, <1>2, <1>3, <1>4, <1>5, <1>6 DEF LoaderStep

(* The attached policy is open in every state, whatever the loader threads, *)
(* the handovers and the teardown do: none of them disconnects a policy     *)
(* that _policy still names, except the policy's own loader when publishing *)
(* the new state or closing the previous policy raised after the attach.    *)
THEOREM AttachedStaysConnected == Spec => []AttachedIsConnected
<1>1. LoadInv /\ [Next]_vars => LoadInv'
  BY LoadStep
<1>2. LoadInv => AttachedIsConnected
  BY DEF LoadInv
<1> QED
  BY LoadInit, <1>1, <1>2, PTL DEF Spec

(* _set_policy only ever attaches a generation newer than any attached      *)
(* before, although the loader releases its lock between its own check and  *)
(* the attach.                                                              *)
THEOREM OnlyNewerAttached == Spec => NewestAttached
<1>1. LoadInv /\ [Next]_vars => LoadInv' /\ [policy' \notin {0, policy} => policy' > attached]_vars
  BY LoadStep
<1> QED
  BY LoadInit, <1>1, PTL DEF Spec, NewestAttached

(* Every open policy has a thread or the tick behind it: a load overtaken   *)
(* at either of its two checks is closed on the spot, and a replaced policy *)
(* is remembered by the loader that replaced it until it is closed, or until *)
(* that handover raises, the one way to leave a replaced policy open.       *)
THEOREM NoPolicyForgotten == Spec => []OpenIsHeld
<1>1. LoadInv /\ OpenIsHeld /\ [Next]_vars => LoadInv' /\ OpenIsHeld'
  BY LoadStep, OpenStep
<1> QED
  BY LoadInit, <1>1, PTL DEF Spec

=============================================================================
