----------------------------- MODULE MCOsQueue -----------------------------
(***************************************************************************)
(* osQueue with the threads and the number of slots of the configuration.  *)
(***************************************************************************)
EXTENDS OsQueue
=============================================================================
