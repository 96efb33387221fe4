-------------------------------- MODULE Queue --------------------------------
(***************************************************************************)
(* The FIFO queue of internal/platform/queue.go: a ring buffer that starts *)
(* with no slots and grows when it is full.  Slots are numbered from 0 as  *)
(* in Go.                                                                  *)
(***************************************************************************)
EXTENDS Integers, Sequences

CONSTANTS
  Items,        \* what is put into the queue
  Zero,         \* the zero value of a slot
  MaxItems      \* bound: items in the queue at a time

ASSUME QueueAssumption == MaxItems \in Nat

VARIABLES
  slots,        \* Queue.buf: slot number -> item
  capacity,     \* cap(Queue.buf)
  first,        \* Queue.head
  count,        \* Queue.len
  result        \* what the last Peek or Pop returned

queueVars == <<slots, capacity, first, count, result>>

(* Every variable has its type, and head and len fit the buffer.           *)
QueueTypeOK ==
  /\ capacity \in Nat
  /\ slots \in [0 .. capacity - 1 -> Items \cup {Zero}]
  /\ first \in 0 .. capacity /\ (capacity > 0 => first < capacity)
  /\ count \in 0 .. capacity
  /\ result \in (Items \cup {Zero}) \X BOOLEAN

(* The zero value of Queue.                                                *)
QueueInit ==
  /\ capacity = 0
  /\ slots = [i \in 0 .. -1 |-> Zero]
  /\ first = 0
  /\ count = 0
  /\ result = <<Zero, FALSE>>

(* The slot of the i-th item, from 0.                                      *)
pos(i) == (first + i) % capacity

Peek ==
  /\ result' = IF count = 0 THEN <<Zero, FALSE>> ELSE <<slots[first], TRUE>>
  /\ UNCHANGED <<slots, capacity, first, count>>

Pop ==
  \/ /\ count = 0
     /\ result' = <<Zero, FALSE>>
     /\ UNCHANGED <<slots, capacity, first, count>>
  \/ /\ count > 0
     /\ result' = <<slots[first], TRUE>>
     /\ slots' = [slots EXCEPT ![first] = Zero]
     /\ first' = (first + 1) % capacity
     /\ count' = count - 1
     /\ UNCHANGED capacity

(* Mutant: the buffer is copied as it lies, from slot 0.                   *)
growFlat(n) == [i \in 0 .. n - 1 |-> IF i < count THEN slots[i] ELSE Zero]

(* grow: a buffer of n slots with the items from slot 0 on.                *)
grow(n) == [i \in 0 .. n - 1 |-> IF i < count THEN slots[pos(i)] ELSE Zero]

Push(x) ==
  /\ count < MaxItems
  /\ count' = count + 1
  /\ \/ /\ count = capacity
        /\ capacity' = (capacity + 1) * 2
        /\ slots' = [grow(capacity') EXCEPT ![count % capacity'] = x]
        /\ first' = 0
     \/ /\ count < capacity
        /\ slots' = [slots EXCEPT ![pos(count)] = x]
        /\ UNCHANGED <<capacity, first>>
  /\ UNCHANGED result

QueueNext == Peek \/ Pop \/ \E x \in Items : Push(x)

QueueSpec == QueueInit /\ [][QueueNext]_queueVars
-----------------------------------------------------------------------------
(* The items in the queue, in the order of the ring.                       *)
Content == [i \in 1 .. count |-> slots[pos(i - 1)]]

F == INSTANCE Fifo WITH queued <- Content, returned <- result

(* The ring buffer implements a first-in first-out queue: through any      *)
(* series of calls, with the head anywhere when it wraps or grows, Peek    *)
(* and Pop return what a plain sequence would return.                      *)
ImplementsFifo == F!FifoSpec
=============================================================================
