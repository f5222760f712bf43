------------------------------ MODULE IspChain ------------------------------
(***************************************************************************)
(* What an output chain of the ISP promises to the module that takes its   *)
(* pictures: while it is attached, a buffer is either with the ISP, or a   *)
(* picture waiting to be taken, or in the hands of the user until it is    *)
(* given back.  The pictures are taken in the order they were filled.      *)
(***************************************************************************)
EXTENDS Sequences, SequencesExt

CONSTANT Buffers

VARIABLES
  chain,  \* is the chain attached?
  isp,    \* buffers the ISP may fill
  full    \* pictures, oldest first

chainVars == <<chain, isp, full>>

ChainInit == chain = FALSE /\ isp = {} /\ full = <<>>

Attach == ~chain /\ chain' = TRUE /\ isp' \in SUBSET Buffers /\ full' = <<>>

Fill == \E b \in isp :
  /\ chain
  /\ isp' = isp \ {b} /\ full' = Append(full, b)
  /\ UNCHANGED chain

Take == full # <<>> /\ full' = Tail(full) /\ UNCHANGED <<chain, isp>>

Give == \E b \in Buffers \ (isp \cup ToSet(full)) :
  /\ chain
  /\ isp' = isp \cup {b}
  /\ UNCHANGED <<chain, full>>

Detach == chain /\ chain' = FALSE /\ isp' = {} /\ full' = <<>>

ChainNext == Attach \/ Fill \/ Take \/ Give \/ Detach

ChainSpec == ChainInit /\ [][ChainNext]_chainVars
=============================================================================
