-------------------------- MODULE MCRemoteTraining --------------------------
(* Instances of RemoteTraining for TLC. *)
EXTENDS RemoteTraining
=============================================================================
