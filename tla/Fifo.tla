-------------------------------- MODULE Fifo --------------------------------
(***************************************************************************)
(* A first-in first-out queue as its users see it: a sequence, and what    *)
(* the last operation returned.  Queue implements it.                      *)
(***************************************************************************)
EXTENDS Sequences

CONSTANTS Items, Zero

VARIABLES
  queued,       \* the items in the queue, the oldest first
  returned      \* <<item, ok>> of the last Peek or Pop

Front == IF queued = <<>> THEN <<Zero, FALSE>> ELSE <<Head(queued), TRUE>>

FifoInit == queued = <<>> /\ returned = <<Zero, FALSE>>

FifoPeek == returned' = Front /\ queued' = queued

FifoPop ==
  /\ returned' = Front
  /\ queued' = IF queued = <<>> THEN queued ELSE Tail(queued)

FifoPush(x) == queued' = Append(queued, x) /\ returned' = returned

FifoNext == FifoPeek \/ FifoPop \/ \E x \in Items : FifoPush(x)

FifoSpec == FifoInit /\ [][FifoNext]_<<queued, returned>>
=============================================================================
