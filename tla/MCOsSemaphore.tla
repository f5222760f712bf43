--------------------------- MODULE MCOsSemaphore ---------------------------
(***************************************************************************)
(* osSemaphore with the taking threads of the configuration: the count     *)
(* limit 0x7fffffff is scaled down to MaxCount.                            *)
(***************************************************************************)
EXTENDS OsSemaphore
=============================================================================
