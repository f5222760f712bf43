----------------------------- MODULE FrameFlow -----------------------------
(***************************************************************************)
(* What the media pipeline promises for the pictures of a sensor: they     *)
(* leave in the order in which they were captured.  A picture may be       *)
(* dropped on the way, and those still under way when the stream stops     *)
(* are; none is shown twice or overtakes another.                          *)
(***************************************************************************)
EXTENDS Naturals, Sequences, SequencesExt

CONSTANT Frames

VARIABLE flow  \* the pictures under way, oldest first

FlowInit == flow = <<>>

Capture(f) == f \notin ToSet(flow) /\ flow' = Append(flow, f)

Deliver == flow # <<>> /\ flow' = Tail(flow)

Drop == \E i \in DOMAIN flow : flow' = RemoveAt(flow, i)

Cut == \E n \in 0 .. Len(flow) : flow' = SubSeq(flow, 1, n)

FlowNext == (\E f \in Frames : Capture(f)) \/ Deliver \/ Drop \/ Cut

FlowSpec == FlowInit /\ [][FlowNext]_flow
=============================================================================
