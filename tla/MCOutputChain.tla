--------------------------- MODULE MCOutputChain ---------------------------
(***************************************************************************)
(* Four buffers, as NativeDewarp makes for its pad, and a command queue    *)
(* with room for their events, the START and the STOP, and for no more.    *)
(***************************************************************************)
EXTENDS OutputChain
=============================================================================
