--------------------------- MODULE MCBufSyncCtrl ---------------------------
(***************************************************************************)
(* The buffer synchronisation control with the buffers and the producers   *)
(* of the configuration.                                                   *)
(***************************************************************************)
EXTENDS BufSyncCtrl
=============================================================================
