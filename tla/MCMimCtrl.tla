----------------------------- MODULE MCMimCtrl -----------------------------
(***************************************************************************)
(* The MIM control with the client of the configuration: Eager lists the   *)
(* calls the client makes without waiting for the completions it is owed.  *)
(***************************************************************************)
EXTENDS MimCtrl
=============================================================================
