------------------------- MODULE MCSessionOwnership -------------------------
(* Instances of SessionOwnership for TLC. *)
EXTENDS SessionOwnership, TLC

CONSTANTS c1, c2

\* A preview without cameras, a client that needs one, and a client of another
\* rig that asks for the same camera with other settings.
Preview == [rig |-> "r1", cams |-> {}, settings |-> "s1"]
Recorder == [rig |-> "r1", cams |-> {"k1"}, settings |-> "s1"]
Stranger == [rig |-> "r2", cams |-> {"k1"}, settings |-> "s2"]

AnyDocument == [c \in Clients |-> {Preview, Recorder, Stranger}]

\* The recorder has to displace a session the preview started.
PreviewAndRecorder == [c \in Clients |-> IF c = c1 THEN {Preview} ELSE {Recorder}]

Symmetry == Permutations(Clients)
=============================================================================
