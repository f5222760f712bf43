----------------------------- MODULE MCCimCtrl -----------------------------
(* The CIM control with the client threads of the configuration. *)
EXTENDS CimCtrl
=============================================================================
