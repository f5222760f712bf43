----------------------------- MODULE MCOsEvent -----------------------------
(* osEvent with the waiting threads and the reset mode of the configuration. *)
EXTENDS OsEvent
=============================================================================
