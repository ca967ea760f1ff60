--------------------------- MODULE MCPolicyArming ---------------------------
(* Instances of PolicyArming for TLC. *)
EXTENDS PolicyArming
=============================================================================
