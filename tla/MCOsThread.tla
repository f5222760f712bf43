----------------------------- MODULE MCOsThread -----------------------------
(* osThread with the waiting threads of the configuration. *)
EXTENDS OsThread
=============================================================================
