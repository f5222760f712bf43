------------------------------- MODULE OsFifo -------------------------------
(***************************************************************************)
(* What an osQueue promises its users: a first-in first-out channel of at  *)
(* most ItemNum items that loses, duplicates and invents nothing, and in   *)
(* which an item that is there is eventually taken by a reader that keeps  *)
(* reading.                                                                *)
(***************************************************************************)
EXTENDS Naturals, Sequences

CONSTANTS ItemNum, Items, Readers, NoItem

VARIABLES q,    \* the items in the channel, oldest first
          got   \* got[r]: the item reader r was last given

fifoVars == <<q, got>>

FifoTypeOK ==
  /\ q \in Seq(Items)
  /\ Len(q) <= ItemNum
  /\ got \in [Readers -> Items \cup {NoItem}]

FifoInit == q = <<>> /\ got = [r \in Readers |-> NoItem]

Put ==
  /\ Len(q) < ItemNum
  /\ \E v \in Items : q' = Append(q, v)
  /\ UNCHANGED got

Get(r) ==
  /\ q # <<>>
  /\ got' = [got EXCEPT ![r] = Head(q)]
  /\ q' = Tail(q)

FifoNext == Put \/ \E r \in Readers : Get(r)

FifoSpec ==
  /\ FifoInit /\ [][FifoNext]_fifoVars
  /\ WF_fifoVars(\E r \in Readers : Get(r))
=============================================================================
