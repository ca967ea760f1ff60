--------------------------- MODULE TrainerContract ---------------------------
(***************************************************************************)
(* What the trainer service promises a Studio that only sees job states    *)
(* over HTTP: the life of a job, when its model can be downloaded, what a  *)
(* cancellation excludes and what a restart may do.  TrainerQueue is shown *)
(* to implement it; RemoteTraining runs the Studio's client against it.    *)
(***************************************************************************)
CONSTANT Jobs

VARIABLES
  remote,    \* the state of each job, as GET /jobs/{id} answers
  artifact,  \* completed jobs whose model archive can be downloaded
  flagged,   \* running jobs whose cancellation was accepted
  service    \* "up", "stopping" or "down"

contract == <<remote, artifact, flagged, service>>

Ended == {"completed", "failed", "canceled"}

Init ==
  /\ remote = [j \in Jobs |-> "absent"]
  /\ artifact = {} /\ flagged = {}
  /\ service = "up"

Becomes(j, state) == remote' = [remote EXCEPT ![j] = state]

Submit(j) ==
  /\ service = "up" /\ remote[j] = "absent"
  /\ Becomes(j, "awaiting_dataset")
  /\ UNCHANGED <<artifact, flagged, service>>

(* The dataset has been received and extracted.                            *)
Receive(j) ==
  /\ service = "up" /\ remote[j] = "awaiting_dataset"
  /\ Becomes(j, "queued")
  /\ UNCHANGED <<artifact, flagged, service>>

Begin(j) ==
  /\ service = "up" /\ remote[j] = "queued"
  /\ Becomes(j, "running")
  /\ UNCHANGED <<artifact, flagged, service>>

(* A job that does not run is cancelled at once, a running one is flagged. *)
RequestCancel(j) ==
  /\ service = "up"
  /\ \/ /\ remote[j] \in {"awaiting_dataset", "queued"}
        /\ Becomes(j, "canceled")
        /\ UNCHANGED flagged
     \/ /\ remote[j] = "running"
        /\ flagged' = flagged \cup {j}
        /\ UNCHANGED remote
  /\ UNCHANGED <<artifact, service>>

(* Only a job that was not cancelled completes, with its model in place.   *)
Complete(j) ==
  /\ service # "down" /\ remote[j] = "running" /\ j \notin flagged
  /\ Becomes(j, "completed")
  /\ artifact' = artifact \cup {j}
  /\ UNCHANGED <<flagged, service>>

Fail(j) ==
  /\ service # "down" /\ remote[j] = "running" /\ j \notin flagged
  /\ Becomes(j, "failed")
  /\ UNCHANGED <<artifact, flagged, service>>

Cancel(j) ==
  /\ service # "down" /\ remote[j] = "running"
  /\ j \in flagged \/ service = "stopping"
  /\ Becomes(j, "canceled")
  /\ flagged' = flagged \ {j}
  /\ UNCHANGED <<artifact, service>>

(* The model goes when a deletion is accepted, the row later.              *)
Withdraw(j) ==
  /\ service = "up" /\ j \in artifact
  /\ artifact' = artifact \ {j}
  /\ UNCHANGED <<remote, flagged, service>>

Remove(j) ==
  /\ service # "down" /\ remote[j] \in Ended /\ j \notin artifact
  /\ Becomes(j, "gone")
  /\ UNCHANGED <<artifact, flagged, service>>

Stop ==
  /\ service = "up"
  /\ service' = "stopping"
  /\ UNCHANGED <<remote, artifact, flagged>>

FlagRunning ==
  /\ service = "stopping"
  /\ flagged' = {j \in Jobs : remote[j] = "running"}
  /\ UNCHANGED <<remote, artifact, service>>

Down ==
  /\ service # "down"
  /\ service' = "down" /\ flagged' = {}
  /\ UNCHANGED <<remote, artifact>>

(* Queued jobs survive a restart; running and awaiting ones have failed.   *)
Start ==
  /\ service = "down"
  /\ service' = "up"
  /\ remote' = [j \in Jobs |->
       IF remote[j] \in {"running", "awaiting_dataset"} THEN "failed" ELSE remote[j]]
  /\ UNCHANGED <<artifact, flagged>>

Next ==
  \/ \E j \in Jobs : \/ Submit(j) \/ Receive(j) \/ Begin(j) \/ RequestCancel(j)
                     \/ Complete(j) \/ Fail(j) \/ Cancel(j) \/ Withdraw(j) \/ Remove(j)
  \/ Stop \/ FlagRunning \/ Down \/ Start

(* A service that is up takes up its queue and ends what it runs, and one  *)
(* that went down is started again.                                        *)
Progress(j) == Begin(j) \/ Complete(j) \/ Fail(j) \/ Cancel(j)

Spec == Init /\ [][Next]_contract
Fairness ==
  /\ WF_contract(Start) /\ WF_contract(service = "stopping" /\ Down)
  /\ \A j \in Jobs : WF_contract(Progress(j))
=============================================================================
