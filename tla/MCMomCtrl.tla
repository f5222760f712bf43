----------------------------- MODULE MCMomCtrl -----------------------------
(***************************************************************************)
(* The MOM control with an engine that stops the driver first, and with    *)
(* one that does not.  The buffers of a pool are interchangeable.          *)
(***************************************************************************)
EXTENDS MomCtrl

BufferSymmetry == Permutations(Buffers)
=============================================================================
