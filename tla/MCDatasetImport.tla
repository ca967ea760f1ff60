-------------------------- MODULE MCDatasetImport --------------------------
(* Instances of DatasetImport for TLC. *)
EXTENDS DatasetImport
=============================================================================
