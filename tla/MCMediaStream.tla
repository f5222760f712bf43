--------------------------- MODULE MCMediaStream ---------------------------
(***************************************************************************)
(* The stream NativeSensor - NativeDewarp - V4l2Control.                   *)
(***************************************************************************)
EXTENDS MediaStream
=============================================================================
