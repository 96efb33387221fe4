--------------------------- MODULE PlatformProofs ---------------------------
(***************************************************************************)
(* Theorems of the building blocks of internal/platform: the ring buffer   *)
(* of Queue implements Fifo for any items and any number of them; the list *)
(* of the TTL map is in the order of the last access and forgetting a      *)
(* limiter grants nothing, for any addresses, requests and bursts; and the *)
(* types of the composition that MCPlatform checks.                        *)
(***************************************************************************)
EXTENDS MCPlatform, UdpListenerProofs, FiniteSetTheorems

(* The remainder of a number below twice the modulus.                      *)
LEMMA Wrap ==
  ASSUME NEW n \in Nat \ {0}, NEW a \in 0 .. 2 * n - 1
  PROVE  a % n = IF a < n THEN a ELSE a - n
<1>1. CASE a < n
  BY <1>1, SMT
<1>2. CASE a >= n
  BY <1>2, SMT
<1> QED
  BY <1>1, <1>2

(* One slot on, the items of a ring of n slots have moved up by one.       *)
LEMMA RingShift ==
  ASSUME NEW n \in Nat \ {0}, NEW h \in 0 .. n - 1, NEW i \in 1 .. n - 1,
         NEW g \in 0 .. n - 1, g = IF h + 1 < n THEN h + 1 ELSE 0
  PROVE  (g + (i - 1)) % n = IF h + i < n THEN h + i ELSE h + i - n
<1> DEFINE a == g + (i - 1)
<1>1. a \in 0 .. 2 * n - 1
  OBVIOUS
<1>2. ASSUME NEW b \in 0 .. 2 * n - 1, b = a
      PROVE  b % n = IF h + i < n THEN h + i ELSE h + i - n
  <2>1. b % n = IF b < n THEN b ELSE b - n
    BY Wrap
  <2> QED
    BY <1>2, <2>1
<1> HIDE DEF a
<1>3. a % n = IF h + i < n THEN h + i ELSE h + i - n
  BY <1>1, <1>2
<1> QED
  BY <1>3 DEF a

(* The two kinds of results of Peek and Pop.                               *)
LEMMA OkPair ==
  ASSUME NEW S, NEW x \in S
  PROVE  <<x, TRUE>> \in S \X BOOLEAN /\ <<x, FALSE>> \in S \X BOOLEAN
  OBVIOUS

(* The slot of an item of the ring: head, head + 1, ... and from slot 0 on *)
(* after the last slot.                                                    *)
LEMMA RingSlot ==
  ASSUME QueueTypeOK, capacity > 0, NEW i \in 0 .. capacity
  PROVE  /\ pos(i) = IF first + i < capacity THEN first + i ELSE first + i - capacity
         /\ pos(i) \in 0 .. capacity - 1
<1>1. capacity \in Nat \ {0} /\ first \in 0 .. capacity - 1
  BY DEF QueueTypeOK
<1>2. first + i \in 0 .. 2 * capacity - 1
  BY <1>1
<1>3. (first + i) % capacity
        = IF first + i < capacity THEN first + i ELSE first + i - capacity
  BY <1>1, <1>2, Wrap
<1> QED
  BY <1>1, <1>3 DEF pos

(* The head moves on by one slot.                                          *)
LEMMA HeadMoves ==
  ASSUME QueueTypeOK, count > 0
  PROVE  /\ capacity > 0
         /\ (first + 1) % capacity
              = IF first + 1 < capacity THEN first + 1 ELSE 0
<1>1. capacity \in Nat \ {0} /\ first \in 0 .. capacity - 1
  BY DEF QueueTypeOK
<1>2. ASSUME NEW b \in 0 .. 2 * capacity - 1, b = first + 1
      PROVE  b % capacity = IF first + 1 < capacity THEN first + 1 ELSE 0
  <2>1. b % capacity = IF b < capacity THEN b ELSE b - capacity
    BY <1>1, Wrap
  <2> QED
    BY <1>1, <1>2, <2>1
<1> DEFINE a == first + 1
<1>3. a \in 0 .. 2 * capacity - 1
  BY <1>1
<1> HIDE DEF a
<1>4. a = first + 1 => a % capacity = IF first + 1 < capacity THEN first + 1 ELSE 0
  BY <1>2, <1>3
<1> QED
  BY <1>1, <1>4 DEF a

(* What a Push leaves behind, with room and without: slot by slot.         *)
LEMMA PushSlots ==
  ASSUME QueueTypeOK, NEW x \in Items, Push(x)
  PROVE  /\ count' = count + 1 /\ result' = result
         /\ capacity' \in Nat /\ count < capacity' /\ first' \in 0 .. capacity' - 1
         /\ slots' \in [0 .. capacity' - 1 -> Items \cup {Zero}]
         /\ \A i \in 0 .. count - 1 : slots'[(first' + i) % capacity'] = slots[pos(i)]
         /\ slots'[(first' + count) % capacity'] = x
<1>0. capacity \in Nat /\ count \in 0 .. capacity /\ first \in 0 .. capacity
      /\ slots \in [0 .. capacity - 1 -> Items \cup {Zero}]
  BY DEF QueueTypeOK
<1>1. count' = count + 1 /\ result' = result
  BY DEF Push
<1>2. CASE count = capacity /\ capacity' = (capacity + 1) * 2
           /\ slots' = [grow(capacity') EXCEPT ![count % capacity'] = x] /\ first' = 0
  <2> DEFINE n == (capacity + 1) * 2
  <2>1. n \in Nat \ {0} /\ count < n /\ count \in 0 .. n - 1
    BY <1>0, <1>2
  <2> HIDE DEF n
  <2>2. capacity' = n /\ first' = 0
        /\ slots' = [grow(n) EXCEPT ![count % n] = x]
    BY <1>2 DEF n
  <2>3. \A i \in 0 .. count : i % n = i /\ 0 + i = i
    <3> TAKE i \in 0 .. count
    <3>1. i \in 0 .. 2 * n - 1 /\ i < n /\ i \in Nat
      BY <1>0, <2>1
    <3>2. i % n = i
      BY <2>1, <3>1, Wrap
    <3> QED
      BY <3>1, <3>2
  <2>4. \A i \in 0 .. count - 1 : slots[pos(i)] \in Items \cup {Zero}
    <3> TAKE i \in 0 .. count - 1
    <3>1. capacity > 0 /\ i \in 0 .. capacity
      BY <1>0, <1>2
    <3>2. pos(i) \in 0 .. capacity - 1
      BY <3>1, RingSlot
    <3> QED
      BY <1>0, <3>2
  <2>5. \A i \in 0 .. n - 1 :
          (IF i < count THEN slots[pos(i)] ELSE Zero) \in Items \cup {Zero}
    <3> TAKE i \in 0 .. n - 1
    <3>1. i < count => i \in 0 .. count - 1
      BY <1>0, <2>1
    <3> QED
      BY <2>4, <3>1
  <2>6. grow(n) \in [0 .. n - 1 -> Items \cup {Zero}]
    BY <2>5 DEF grow
  <2>7. count \in 0 .. count
    BY <1>0
  <2>8. slots' = [grow(n) EXCEPT ![count] = x]
    BY <2>2, <2>3, <2>7
  <2>9. slots' \in [0 .. n - 1 -> Items \cup {Zero}] /\ slots'[count] = x
    BY <2>1, <2>6, <2>8
  <2>10. \A i \in 0 .. count - 1 : slots'[i] = slots[pos(i)] /\ i \in 0 .. count
    <3> TAKE i \in 0 .. count - 1
    <3>1. i \in 0 .. n - 1 /\ i < count /\ i # count /\ i \in 0 .. count
      BY <1>0, <2>1
    <3>2. slots'[i] = grow(n)[i]
      BY <2>6, <2>8, <3>1
    <3> QED
      BY <3>1, <3>2 DEF grow
  <2>11. \A i \in 0 .. count - 1 : slots'[(first' + i) % capacity'] = slots[pos(i)]
    BY <2>2, <2>3, <2>10
  <2>12. slots'[(first' + count) % capacity'] = x
    BY <2>2, <2>3, <2>7, <2>9
  <2>13. capacity' \in Nat /\ count < capacity' /\ first' \in 0 .. capacity' - 1
    BY <2>1, <2>2
  <2> QED
    BY <1>1, <2>2, <2>9, <2>11, <2>12, <2>13
<1>3. CASE count < capacity /\ slots' = [slots EXCEPT ![pos(count)] = x]
           /\ UNCHANGED <<capacity, first>>
  <2>1. capacity > 0 /\ count \in 0 .. capacity - 1 /\ first \in 0 .. capacity - 1
    BY <1>0, <1>3 DEF QueueTypeOK
  <2>2. pos(count) \in 0 .. capacity - 1
    BY <1>0, <2>1, RingSlot
  <2>3. \A i \in 0 .. count - 1 :
          pos(i) \in 0 .. capacity - 1 /\ pos(i) # pos(count)
    <3> TAKE i \in 0 .. count - 1
    <3>1. i \in 0 .. capacity /\ count \in 0 .. capacity
      BY <1>0, <2>1
    <3>2. /\ pos(i) = IF first + i < capacity THEN first + i ELSE first + i - capacity
          /\ pos(i) \in 0 .. capacity - 1
      BY <2>1, <3>1, RingSlot
    <3>3. pos(count) = IF first + count < capacity THEN first + count
                                                   ELSE first + count - capacity
      BY <2>1, <3>1, RingSlot
    <3> QED
      BY <1>0, <2>1, <3>2, <3>3
  <2>4. /\ slots' \in [0 .. capacity - 1 -> Items \cup {Zero}]
        /\ slots'[pos(count)] = x
        /\ \A i \in 0 .. count - 1 : slots'[pos(i)] = slots[pos(i)]
    BY <1>0, <1>3, <2>2, <2>3
  <2> QED
    BY <1>0, <1>1, <1>3, <2>1, <2>4 DEF pos
<1> QED
  BY <1>2, <1>3 DEF Push

(* What a Pop of a queue that is not empty leaves behind.                  *)
LEMMA PopSlots ==
  ASSUME QueueTypeOK, count > 0, Pop
  PROVE  /\ count' = count - 1 /\ capacity' = capacity /\ capacity > 0
         /\ result' = <<slots[first], TRUE>> /\ slots[first] \in Items \cup {Zero}
         /\ first' \in 0 .. capacity - 1
         /\ slots' \in [0 .. capacity - 1 -> Items \cup {Zero}]
         /\ \A i \in 1 .. count - 1 :
              slots'[(first' + (i - 1)) % capacity'] = slots[pos(i)]
<1>0. capacity \in Nat \ {0} /\ count \in 1 .. capacity /\ first \in 0 .. capacity - 1
      /\ slots \in [0 .. capacity - 1 -> Items \cup {Zero}]
  BY DEF QueueTypeOK
<1>1. /\ count' = count - 1 /\ capacity' = capacity
      /\ result' = <<slots[first], TRUE>>
      /\ slots' = [slots EXCEPT ![first] = Zero] /\ first' = (first + 1) % capacity
  <2>1. count # 0
    BY <1>0
  <2> QED
    BY <2>1, Zenon DEF Pop
<1>2. first' = IF first + 1 < capacity THEN first + 1 ELSE 0
  BY <1>1, HeadMoves
<1>3. first' \in 0 .. capacity - 1
  BY <1>0, <1>2
<1>4. ASSUME NEW i \in 1 .. count - 1
      PROVE  slots'[(first' + (i - 1)) % capacity'] = slots[pos(i)]
  <2>1. i \in 0 .. capacity /\ i < capacity /\ i >= 1
    BY <1>0
  <2>2. /\ pos(i) = IF first + i < capacity THEN first + i ELSE first + i - capacity
        /\ pos(i) \in 0 .. capacity - 1
    BY <1>0, <2>1, RingSlot
  <2>3. i \in 1 .. capacity - 1
    BY <1>0
  <2>4. (first' + (i - 1)) % capacity
          = IF first + i < capacity THEN first + i ELSE first + i - capacity
    BY <1>0, <1>2, <1>3, <2>3, RingShift
  <2>5. (first' + (i - 1)) % capacity = pos(i) /\ pos(i) # first
    BY <1>0, <2>1, <2>2, <2>4
  <2> QED
    BY <1>0, <1>1, <2>2, <2>5
<1> QED
  BY <1>0, <1>1, <1>3, <1>4

(* Every call keeps the types of the queue.                                *)
LEMMA QueueTypeStep == QueueTypeOK /\ [QueueNext]_queueVars => QueueTypeOK'
<1> SUFFICES ASSUME QueueTypeOK, [QueueNext]_queueVars PROVE QueueTypeOK'
  OBVIOUS
<1>0. count \in Nat /\ (count > 0 => slots[first] \in Items \cup {Zero})
  BY DEF QueueTypeOK
<1>1. CASE Peek
  <2>1. /\ UNCHANGED <<slots, capacity, first, count>>
        /\ \/ count = 0 /\ result' = <<Zero, FALSE>>
           \/ count > 0 /\ result' = <<slots[first], TRUE>>
    <3>1. count = 0 \/ (count > 0 /\ count # 0)
      BY <1>0
    <3> QED
      BY <1>1, <3>1, Zenon DEF Peek
  <2>2. result' \in (Items \cup {Zero}) \X BOOLEAN
    BY <1>0, <2>1, OkPair
  <2> QED
    BY <2>1, <2>2 DEF QueueTypeOK
<1>2. CASE Pop
  <2>1. CASE count = 0
    <3>1. UNCHANGED <<slots, capacity, first, count>> /\ result' = <<Zero, FALSE>>
      <4>1. ~(count > 0)
        BY <2>1
      <4> QED
        BY <1>2, <4>1, Zenon DEF Pop
    <3>2. result' \in (Items \cup {Zero}) \X BOOLEAN
      BY <3>1, OkPair
    <3> QED
      BY <3>1, <3>2 DEF QueueTypeOK
  <2>2. CASE count > 0
    <3>1. /\ count' = count - 1 /\ capacity' = capacity /\ capacity > 0
          /\ result' = <<slots[first], TRUE>> /\ slots[first] \in Items \cup {Zero}
          /\ first' \in 0 .. capacity - 1
          /\ slots' \in [0 .. capacity - 1 -> Items \cup {Zero}]
      BY <1>2, <2>2, PopSlots
    <3>2. result' \in (Items \cup {Zero}) \X BOOLEAN
      BY <3>1, OkPair
    <3> QED
      BY <2>2, <3>1, <3>2 DEF QueueTypeOK
  <2> QED
    BY <2>1, <2>2 DEF QueueTypeOK
<1>3. ASSUME NEW x \in Items, Push(x) PROVE QueueTypeOK'
  BY <1>3, PushSlots DEF QueueTypeOK
<1>4. CASE UNCHANGED queueVars
  BY <1>4 DEF queueVars, QueueTypeOK
<1> QED
  BY <1>1, <1>2, <1>3, <1>4 DEF QueueNext

(* The zero value of Queue is well typed.                                  *)
LEMMA QueueTypeInit == QueueInit => QueueTypeOK
<1> SUFFICES ASSUME QueueInit PROVE QueueTypeOK
  OBVIOUS
<1>1. result \in (Items \cup {Zero}) \X BOOLEAN
  BY OkPair DEF QueueInit
<1>2. slots \in [0 .. capacity - 1 -> Items \cup {Zero}] /\ 0 - 1 = -1
  BY DEF QueueInit
<1> QED
  BY <1>1, <1>2 DEF QueueInit, QueueTypeOK

(* head and len always fit the buffer of Queue.                            *)
LEMMA QueueTypes == QueueSpec => []QueueTypeOK
  BY QueueTypeInit, QueueTypeStep, PTL DEF QueueSpec

(* Content is a sequence whose items are slots of the buffer.              *)
LEMMA ContentIsSeq ==
  ASSUME QueueTypeOK
  PROVE  /\ Content \in Seq(Items \cup {Zero})
         /\ Len(Content) = count /\ count \in Nat
         /\ \A i \in 1 .. count : Content[i] = slots[pos(i - 1)]
         /\ (Content = <<>>) <=> (count = 0)
         /\ count > 0 => Head(Content) = slots[first] /\ slots[first] \in Items \cup {Zero}
<1>0. capacity \in Nat /\ count \in 0 .. capacity
      /\ slots \in [0 .. capacity - 1 -> Items \cup {Zero}]
  BY DEF QueueTypeOK
<1>1. \A i \in 1 .. count : slots[pos(i - 1)] \in Items \cup {Zero}
  <2> TAKE i \in 1 .. count
  <2>1. capacity > 0 /\ i - 1 \in 0 .. capacity
    BY <1>0
  <2>2. pos(i - 1) \in 0 .. capacity - 1
    BY <2>1, RingSlot
  <2> QED
    BY <1>0, <2>2
<1>2. Content \in [1 .. count -> Items \cup {Zero}]
  BY <1>1 DEF Content
<1>3. Content \in Seq(Items \cup {Zero}) /\ Len(Content) = count
  BY <1>0, <1>2
<1>4. \A i \in 1 .. count : Content[i] = slots[pos(i - 1)]
  BY DEF Content
<1>5. ASSUME count > 0 PROVE Head(Content) = slots[first]
                             /\ slots[first] \in Items \cup {Zero}
  <2>1. 1 \in 1 .. count /\ capacity > 0 /\ 0 \in 0 .. capacity /\ 1 - 1 = 0
    BY <1>0, <1>5
  <2>2. pos(0) = first
    <3>1. pos(0) = IF first + 0 < capacity THEN first + 0 ELSE first + 0 - capacity
      BY <2>1, RingSlot
    <3> QED
      BY <2>1, <3>1 DEF QueueTypeOK
  <2>3. Head(Content) = Content[1]
    BY <1>3, <2>1
  <2> QED
    BY <1>1, <1>4, <2>1, <2>2, <2>3
<1> QED
  BY <1>0, <1>3, <1>4, <1>5

(* The same after a step.                                                  *)
LEMMA ContentIsSeqPrimed ==
  QueueTypeOK' => (Content \in Seq(Items \cup {Zero}) /\ Len(Content) = count)'
<1>1. QueueTypeOK => Content \in Seq(Items \cup {Zero}) /\ Len(Content) = count
  BY ContentIsSeq
<1> QED
  BY <1>1, PTL

(* Every step of the ring buffer is a step of the queue.                   *)
LEMMA FifoStep ==
  QueueTypeOK /\ [QueueNext]_queueVars => [F!FifoNext]_<<Content, result>>
<1> SUFFICES ASSUME QueueTypeOK, [QueueNext]_queueVars
             PROVE  [F!FifoNext]_<<Content, result>>
  OBVIOUS
<1>0. QueueTypeOK'
  BY QueueTypeStep
<1>1. count = 0 => F!Front = <<Zero, FALSE>>
  BY ContentIsSeq DEF F!Front
<1>2. ASSUME count > 0 PROVE F!Front = <<slots[first], TRUE>>
  <2>1. Content # <<>> /\ Head(Content) = slots[first]
    BY <1>2, ContentIsSeq
  <2> QED
    BY <2>1, Zenon DEF F!Front
<1>3. count \in Nat /\ count' \in Nat
  BY <1>0 DEF QueueTypeOK
<1>4. CASE Peek
  <2>1. result' = F!Front
    <3>1. count = 0 \/ (count > 0 /\ count # 0)
      BY <1>3
    <3>2. result' = IF count = 0 THEN <<Zero, FALSE>> ELSE <<slots[first], TRUE>>
      BY <1>4 DEF Peek
    <3> QED
      BY <1>1, <1>2, <3>1, <3>2, Zenon
  <2>2. Content' = Content
    BY <1>4 DEF Peek, Content, pos
  <2> QED
    BY <2>1, <2>2 DEF F!FifoNext, F!FifoPeek
<1>5. CASE Pop /\ count = 0
  <2>1. result' = F!Front
    <3>1. ~(count > 0)
      BY <1>5
    <3>2. result' = <<Zero, FALSE>>
      BY <1>5, <3>1, Zenon DEF Pop
    <3> QED
      BY <1>1, <1>5, <3>2, Zenon
  <2>2. Content' = Content /\ Content = <<>>
    BY <1>5, ContentIsSeq DEF Pop, Content, pos
  <2> QED
    BY <2>1, <2>2 DEF F!FifoNext, F!FifoPop
<1>6. CASE Pop /\ count > 0
  <2>1. result' = F!Front
    BY <1>2, <1>6, PopSlots
  <2>2. Content # <<>> /\ Content \in Seq(Items \cup {Zero}) /\ Len(Content) = count
    BY <1>6, ContentIsSeq
  <2>3. count' = count - 1
    BY <1>6, PopSlots
  <2>4. Content' = [i \in 1 .. count' |-> slots'[(first' + (i - 1)) % capacity']]
    BY DEF Content, pos
  <2>5. ASSUME NEW i \in 1 .. count - 1 PROVE Content'[i] = Content[i + 1]
    <3>1. Content'[i] = slots'[(first' + (i - 1)) % capacity']
      BY <2>3, <2>4
    <3>2. Content'[i] = slots[pos(i)]
      BY <1>6, <3>1, PopSlots
    <3>3. i + 1 \in 1 .. count /\ (i + 1) - 1 = i
      BY <1>3
    <3>4. Content[i + 1] = slots[pos((i + 1) - 1)]
      BY <3>3, ContentIsSeq
    <3> QED
      BY <3>2, <3>3, <3>4
  <2>6. /\ Tail(Content) \in Seq(Items \cup {Zero}) /\ Len(Tail(Content)) = count - 1
        /\ \A i \in 1 .. count - 1 : Tail(Content)[i] = Content[i + 1]
    BY <2>2, HeadTailProperties
  <2>7. Content' = Tail(Content)
    <3>1. Content' \in Seq(Items \cup {Zero}) /\ Len(Content') = count - 1
      BY <1>0, <2>3, ContentIsSeqPrimed
    <3> QED
      BY <2>5, <2>6, <3>1, SeqEqual
  <2> QED
    BY <2>1, <2>2, <2>7 DEF F!FifoNext, F!FifoPop
<1>7. ASSUME NEW x \in Items, Push(x) PROVE F!FifoNext
  <2>1. count' = count + 1 /\ result' = result
    BY <1>7, PushSlots
  <2>2. Content \in Seq(Items \cup {Zero}) /\ Len(Content) = count
    BY ContentIsSeq
  <2>3. Content' = [i \in 1 .. count + 1 |-> slots'[(first' + (i - 1)) % capacity']]
    BY <2>1 DEF Content, pos
  <2>4. ASSUME NEW i \in 1 .. count PROVE Content'[i] = Content[i]
    <3>1. i \in 1 .. count + 1 /\ i - 1 \in 0 .. count - 1
      BY <1>3
    <3>2. Content'[i] = slots[pos(i - 1)]
      BY <1>7, <2>3, <3>1, PushSlots
    <3> QED
      BY <3>2, ContentIsSeq
  <2>5. Content'[count + 1] = x
    <3>1. count + 1 \in 1 .. count + 1 /\ (count + 1) - 1 = count
      BY <1>3
    <3> QED
      BY <1>7, <2>3, <3>1, PushSlots
  <2>6. /\ Append(Content, x) \in Seq(Items \cup {Zero})
        /\ Len(Append(Content, x)) = count + 1
        /\ \A i \in 1 .. count : Append(Content, x)[i] = Content[i]
        /\ Append(Content, x)[count + 1] = x
    BY <2>2, AppendProperties
  <2>7. ASSUME NEW i \in 1 .. count + 1 PROVE Content'[i] = Append(Content, x)[i]
    <3>1. i = count + 1 \/ i \in 1 .. count
      BY <1>3
    <3> QED
      BY <2>4, <2>5, <2>6, <3>1
  <2>8. Content' = Append(Content, x)
    <3>1. Content' \in Seq(Items \cup {Zero}) /\ Len(Content') = count + 1
      BY <1>0, <2>1, ContentIsSeqPrimed
    <3> QED
      BY <2>6, <2>7, <3>1, SeqEqual
  <2>9. F!FifoPush(x)
    BY <2>1, <2>8 DEF F!FifoPush
  <2> QED
    BY <2>9 DEF F!FifoNext
<1>8. CASE UNCHANGED queueVars
  BY <1>8 DEF queueVars, Content, pos
<1> QED
  BY <1>3, <1>4, <1>5, <1>6, <1>7, <1>8 DEF QueueNext

(* The ring buffer of Queue implements a first-in first-out queue: with    *)
(* any number of items, wherever the head is when the ring wraps or grows, *)
(* Peek and Pop return what a plain sequence would return.                 *)
THEOREM QueueImplementsFifo == QueueSpec => ImplementsFifo
<1>1. QueueInit => F!FifoInit
  BY DEF QueueInit, F!FifoInit, Content
<1> QED
  BY <1>1, FifoStep, QueueTypes, PTL DEF QueueSpec, ImplementsFifo, F!FifoSpec
-----------------------------------------------------------------------------
(* The listener and the queue keep their types side by side.               *)
LEMMA PlatformStep ==
  ListenerInv /\ QueueTypeOK /\ [PlatformNext]_<<part, vars, queueVars, rateVars>>
    => ListenerInv' /\ QueueTypeOK'
<1> SUFFICES ASSUME ListenerInv, QueueTypeOK,
                    [PlatformNext]_<<part, vars, queueVars, rateVars>>
             PROVE  ListenerInv' /\ QueueTypeOK'
  OBVIOUS
<1>1. [Next]_vars /\ [QueueNext]_queueVars
  BY DEF PlatformNext
<1> QED
  BY <1>1, ListenerStep, QueueTypeStep

(* No buffer of the UDP listener or of the queue exceeds its capacity:     *)
(* acceptQueue and the reads of a connection keep to their channels'       *)
(* capacities, head and len of Queue to its buffer.                        *)
THEOREM PlatformTypes == PlatformSpec => []PlatformTypeOK
<1>1. PlatformInit => ListenerInv /\ QueueTypeOK
  BY ListenerInit, QueueTypeInit DEF PlatformInit
<1>2. ListenerInv /\ QueueTypeOK => PlatformTypeOK
  BY DEF ListenerInv, PlatformTypeOK
<1> QED
  BY <1>1, <1>2, PlatformStep, PTL DEF PlatformSpec
-----------------------------------------------------------------------------
(* The list of TTLMap.                                                     *)

(* No key is twice in the list.                                            *)
EachOnce(s) == \A i, j \in DOMAIN s : s[i] = s[j] => i = j

(* Keys that are later in the list were used later.                        *)
ByAge(s) == \A i, j \in DOMAIN s : i < j => items[s[i]].age >= items[s[j]].age

Present == {k \in IPs : items[k].lim # NoLimiter}

ListInv ==
  /\ order \in Seq(IPs)
  /\ items \in [IPs -> [lim : Nat, age : Nat]]
  /\ \A k \in IPs : items[k].lim = NoLimiter => items[k] = Absent
  /\ Range(order) = Present
  /\ EachOnce(order)
  /\ ByAge(order)

(* Every set of numbers has a smallest one.                                *)
LEMMA MinOfNumbers ==
  ASSUME NEW S \in SUBSET Nat, S # {}
  PROVE  Min(S) \in S /\ \A y \in S : Min(S) <= y
<1> DEFINE R == OpToRel(<, Nat)
<1>1. IsWellFoundedOn(R, Nat)
  BY NatLessThanWellFounded DEF OpToRel
<1>2. \A x, y \in Nat : <<y, x>> \in R <=> y < x
  BY DEF OpToRel
<1> HIDE DEF R
<1>3. \E x \in S : \A y \in S : ~(<<y, x>> \in R)
  BY <1>1, WFMin
<1>4. \E x \in S : \A y \in S : x <= y
  <2>1. PICK x \in S : \A y \in S : ~(<<y, x>> \in R)
    BY <1>3
  <2>2. \A y \in S : ~(y < x)
    BY <1>2, <2>1
  <2>3. \A y \in S : x <= y
    BY <2>2
  <2> QED BY <2>3
<1> QED BY <1>4 DEF Min

LEMMA MinOfTwo ==
  ASSUME NEW a \in Nat, NEW b \in Nat
  PROVE  Min({a, b}) = IF a <= b THEN a ELSE b
<1>1. Min({a, b}) \in {a, b} /\ \A y \in {a, b} : Min({a, b}) <= y
  BY MinOfNumbers
<1> QED BY <1>1

LEMMA ttlType == ttl \in Nat
  BY RateLimitAssumption DEF ttl

(* The keys of a list in which each is once are as many as its elements.   *)
LEMMA KeysCounted ==
  ASSUME NEW s \in Seq(IPs), EachOnce(s)
  PROVE  Len(s) = Cardinality(Range(s))
<1>1. Len(s) \in Nat /\ DOMAIN s = 1 .. Len(s)
  BY LenProperties
<1>2. s \in [1 .. Len(s) -> Range(s)]
  BY <1>1 DEF Range
<1>3. s \in Surjection(1 .. Len(s), Range(s)) /\ s \in Injection(1 .. Len(s), Range(s))
  BY <1>1, <1>2 DEF Range, Surjection, Injection, IsInjective, EachOnce
<1>4. IsFiniteSet(1 .. Len(s)) /\ Cardinality(1 .. Len(s)) = Len(s)
  <2> DEFINE n == Len(s)
  <2>1. n \in Nat
    BY <1>1
  <2> HIDE DEF n
  <2>2. /\ IsFiniteSet(1 .. n)
        /\ Cardinality(1 .. n) = IF 1 > n THEN 0 ELSE n - 1 + 1
    BY <2>1, FS_Interval
  <2>3. IsFiniteSet(1 .. n) /\ Cardinality(1 .. n) = n
    BY <2>1, <2>2
  <2> QED BY <2>3 DEF n
<1> QED BY <1>3, <1>4, FS_Surjection

(* What the loop of GetOrSet leaves is the end of the list.                *)
LEMMA KeptIsSuffix ==
  ASSUME ListInv
  PROVE  /\ dropExpired \in Seq(IPs)
         /\ EachOnce(dropExpired) /\ ByAge(dropExpired)
         /\ Range(dropExpired) \subseteq Present
<1> DEFINE fresh == {i \in DOMAIN order : items[order[i]].age < ttl}
<1> DEFINE kept == dropExpired
<1>1. order \in Seq(IPs) /\ Len(order) \in Nat /\ DOMAIN order = 1 .. Len(order)
  BY LenProperties DEF ListInv
<1>2. CASE fresh = {}
  <2>1. kept = <<>>
    BY <1>2 DEF dropExpired
  <2> QED BY <2>1, EmptySeq DEF EachOnce, ByAge, Range
<1>3. CASE fresh # {}
  <2> DEFINE p == Min(fresh)
  <2>1. p \in 1 .. Len(order)
    <3>1. fresh \in SUBSET Nat /\ fresh # {} /\ fresh \subseteq 1 .. Len(order)
      BY <1>1, <1>3
    <3> HIDE DEF fresh
    <3>2. p \in fresh
      BY <3>1, MinOfNumbers
    <3> QED BY <3>1, <3>2
  <2>2. kept = SubSeq(order, p, Len(order))
    BY <1>3 DEF dropExpired
  <2> HIDE DEF p, fresh
  <2>3. /\ kept \in Seq(IPs) /\ DOMAIN kept = 1 .. Len(order) - p + 1
        /\ \A i \in DOMAIN kept : kept[i] = order[p + i - 1]
    BY <1>1, <2>1, <2>2, SubSeqProperties
  <2> HIDE DEF kept
  <2>4. \A i \in DOMAIN kept : p + i - 1 \in DOMAIN order
    BY <1>1, <2>1, <2>3
  <2>5. EachOnce(kept)
    <3> SUFFICES ASSUME NEW i \in DOMAIN kept, NEW j \in DOMAIN kept, kept[i] = kept[j]
                 PROVE  i = j
      BY DEF EachOnce
    <3>1. p + i - 1 = p + j - 1
      BY <2>3, <2>4 DEF ListInv, EachOnce
    <3> QED BY <2>1, <2>3, <3>1
  <2>6. ByAge(kept)
    <3> SUFFICES ASSUME NEW i \in DOMAIN kept, NEW j \in DOMAIN kept, i < j
                 PROVE  items[kept[i]].age >= items[kept[j]].age
      BY DEF ByAge
    <3>1. p + i - 1 < p + j - 1
      BY <2>1, <2>3
    <3> QED BY <2>3, <2>4, <3>1 DEF ListInv, ByAge
  <2>7. Range(kept) \subseteq Range(order)
    BY <2>3, <2>4 DEF Range
  <2> QED BY <2>3, <2>5, <2>6, <2>7 DEF ListInv, kept
<1> QED BY <1>2, <1>3

(* touch puts a key at the end of the list and leaves the order of the     *)
(* others alone.                                                           *)
Touched(s, k, t) ==
  /\ t \in Seq(IPs) /\ EachOnce(t)
  /\ Range(t) = Range(s) \cup {k}
  /\ \A i, j \in DOMAIN t : i < j =>
       /\ t[i] # k
       /\ t[j] # k => \E a, b \in DOMAIN s : a < b /\ s[a] = t[i] /\ s[b] = t[j]

LEMMA MoveToBackTouches ==
  ASSUME NEW s \in Seq(IPs), EachOnce(s), NEW p \in DOMAIN s
  PROVE  Touched(s, s[p], MoveToBack(s, p))
<1> DEFINE n == Len(s)
<1> DEFINE t == MoveToBack(s, p)
<1>1. n \in Nat /\ DOMAIN s = 1 .. n /\ s \in [1 .. n -> IPs] /\ p \in 1 .. n
  BY LenProperties
<1>2. /\ DOMAIN t = 1 .. n
      /\ \A i \in 1 .. n : /\ i < p => t[i] = s[i]
                           /\ p <= i /\ i < n => t[i] = s[i + 1]
                           /\ i = n => t[i] = s[p]
  BY <1>1 DEF MoveToBack
<1> HIDE DEF n, t
<1> DEFINE from(i) == IF i < p THEN i ELSE IF i < n THEN i + 1 ELSE p
<1>4. \A i \in 1 .. n : from(i) \in 1 .. n /\ t[i] = s[from(i)]
  BY <1>1, <1>2
<1>5. \A i, j \in 1 .. n : /\ from(i) = from(j) => i = j
                           /\ i < j => from(i) # p
                           /\ i < j /\ from(j) # p => from(i) < from(j)
  BY <1>1
<1>6. \A q \in 1 .. n : \E i \in 1 .. n : from(i) = q
  <2> SUFFICES ASSUME NEW q \in 1 .. n PROVE \E i \in 1 .. n : from(i) = q
    OBVIOUS
  <2>1. CASE q < p
    BY <1>1, <2>1
  <2>2. CASE q = p
    BY <1>1, <2>2
  <2>3. CASE q > p
    <3>1. q - 1 \in 1 .. n /\ from(q - 1) = q
      BY <1>1, <2>3
    <3> QED BY <3>1
  <2> QED BY <1>1, <2>1, <2>2, <2>3
<1> HIDE DEF from
<1>3. t \in Seq(IPs)
  <2>1. t = [i \in 1 .. n |-> t[i]]
    BY <1>1 DEF MoveToBack, t
  <2>2. \A i \in 1 .. n : t[i] \in IPs
    BY <1>1, <1>4
  <2>3. t \in [1 .. n -> IPs]
    BY <2>1, <2>2
  <2> QED BY <1>1, <2>3, SeqDef
<1>7. EachOnce(t)
  BY <1>1, <1>2, <1>4, <1>5 DEF EachOnce
<1>8. Range(t) = Range(s) \cup {s[p]}
  <2>1. ASSUME NEW x \in Range(t) PROVE x \in Range(s)
    BY <1>1, <1>2, <1>4 DEF Range
  <2>2. ASSUME NEW q \in 1 .. n PROVE s[q] \in Range(t)
    <3>1. PICK i \in 1 .. n : from(i) = q
      BY <1>6
    <3>2. s[q] = t[i]
      BY <1>4, <3>1
    <3> QED BY <1>2, <3>2 DEF Range
  <2> QED BY <1>1, <2>1, <2>2 DEF Range
<1>9. ASSUME NEW i \in DOMAIN t, NEW j \in DOMAIN t, i < j
      PROVE  /\ t[i] # s[p]
             /\ t[j] # s[p] => \E a, b \in DOMAIN s : a < b /\ s[a] = t[i] /\ s[b] = t[j]
  <2>1. from(i) # p /\ t[i] = s[from(i)] /\ t[j] = s[from(j)]
        /\ from(i) \in DOMAIN s /\ from(j) \in DOMAIN s
    BY <1>1, <1>2, <1>4, <1>5, <1>9
  <2>2. t[i] # s[p]
    BY <2>1 DEF EachOnce
  <2>3. t[j] # s[p] => from(i) < from(j)
    BY <1>1, <1>2, <1>5, <1>9, <2>1
  <2> QED BY <2>1, <2>2, <2>3
<1> QED BY <1>3, <1>7, <1>8, <1>9 DEF Touched, t

LEMMA TouchTouches ==
  ASSUME NEW s \in Seq(IPs), EachOnce(s), NEW k \in IPs
  PROVE  Touched(s, k, touch(s, k))
<1>1. CASE k \in Range(s)
  <2> DEFINE p == CHOOSE i \in DOMAIN s : s[i] = k
  <2>1. p \in DOMAIN s /\ s[p] = k
    BY <1>1 DEF Range
  <2>2. touch(s, k) = MoveToBack(s, p)
    BY <1>1 DEF touch
  <2> HIDE DEF p
  <2> QED BY <2>1, <2>2, MoveToBackTouches
<1>2. CASE k \notin Range(s)
  <2> DEFINE n == Len(s)
  <2> DEFINE t == Append(s, k)
  <2>1. n \in Nat /\ DOMAIN s = 1 .. n
    BY LenProperties
  <2>2. /\ t \in Seq(IPs) /\ DOMAIN t = 1 .. n + 1
        /\ \A i \in 1 .. n : t[i] = s[i]
        /\ t[n + 1] = k
    BY AppendProperties, LenProperties
  <2>3. touch(s, k) = t
    BY <1>2 DEF touch
  <2> HIDE DEF t, n
  <2>4. \A i \in 1 .. n + 1 : i = n + 1 \/ i \in 1 .. n
    BY <2>1
  <2>5. \A i \in 1 .. n : s[i] # k
    BY <1>2, <2>1 DEF Range
  <2>6. EachOnce(t)
    BY <2>1, <2>2, <2>4, <2>5 DEF EachOnce
  <2>7. Range(t) = Range(s) \cup {k}
    <3>1. n + 1 \in 1 .. n + 1 /\ \A i \in 1 .. n : i \in 1 .. n + 1
      BY <2>1
    <3>2. ASSUME NEW x \in Range(t) PROVE x \in Range(s) \cup {k}
      BY <2>1, <2>2, <2>4 DEF Range
    <3>3. k \in Range(t)
      BY <2>2, <3>1 DEF Range
    <3>4. ASSUME NEW i \in 1 .. n PROVE s[i] \in Range(t)
      <4>1. t[i] = s[i] /\ i \in DOMAIN t
        BY <2>2, <3>1
      <4> QED BY <4>1 DEF Range
    <3> QED BY <2>1, <3>2, <3>3, <3>4 DEF Range
  <2>8. ASSUME NEW i \in DOMAIN t, NEW j \in DOMAIN t, i < j
        PROVE  /\ t[i] # k
               /\ t[j] # k => \E a, b \in DOMAIN s : a < b /\ s[a] = t[i] /\ s[b] = t[j]
    <3>1. i \in 1 .. n
      BY <2>1, <2>2, <2>8
    <3>2. CASE j = n + 1
      BY <2>2, <2>5, <3>1, <3>2
    <3>3. CASE j \in 1 .. n
      BY <2>1, <2>2, <2>5, <2>8, <3>1, <3>3
    <3> QED BY <2>2, <2>4, <3>2, <3>3
  <2> QED BY <2>2, <2>3, <2>6, <2>7, <2>8 DEF Touched
<1> QED BY <1>1, <1>2

(* There are more limiters than the map and the requests hold on to, so    *)
(* that a new one is none of them.                                         *)
LEMMA SpareLimiter ==
  ASSUME NEW r \in Requests, requests[r].pc = "idle"
  PROVE  Min(Limiters \ InUse) \in Limiters \ InUse
<1> DEFINE M == {items[k].lim : k \in IPs}
<1> DEFINE H == {requests[q].lim : q \in Active}
<1>1. /\ IsFiniteSet(Requests \ {r}) /\ Cardinality(Requests \ {r}) = Cardinality(Requests) - 1
      /\ Cardinality(Requests) \in Nat /\ Cardinality(IPs) \in Nat
  BY RateLimitAssumption, FS_RemoveElement, FS_CardinalityType
<1>2. /\ IsFiniteSet(Active) /\ Cardinality(Active) <= Cardinality(Requests) - 1
      /\ Cardinality(Active) \in Nat
  <2>1. Active \in SUBSET (Requests \ {r})
    BY DEF Active
  <2> QED BY <1>1, <2>1, FS_Subset, FS_CardinalityType
<1>3. IsFiniteSet(M) /\ Cardinality(M) <= Cardinality(IPs)
  <2> DEFINE f == [k \in IPs |-> items[k].lim]
  <2>1. f \in Surjection(IPs, M)
    BY DEF Surjection
  <2> HIDE DEF f, M
  <2> QED BY <2>1, RateLimitAssumption, FS_Surjection
<1>4. IsFiniteSet(H) /\ Cardinality(H) <= Cardinality(Active)
  <2> DEFINE f == [q \in Active |-> requests[q].lim]
  <2>1. f \in Surjection(Active, H)
    BY DEF Surjection
  <2> HIDE DEF f, H
  <2> QED BY <1>2, <2>1, FS_Surjection
<1>5. InUse = M \cup H
  BY DEF InUse
<1> HIDE DEF M, H
<1>6. IsFiniteSet(InUse) /\ Cardinality(InUse) < Cardinality(IPs) + Cardinality(Requests)
  <2>1. /\ Cardinality(M \cup H) = Cardinality(M) + Cardinality(H) - Cardinality(M \cap H)
        /\ IsFiniteSet(M \cup H)
    BY <1>3, <1>4, FS_Union
  <2>2. IsFiniteSet(M \cap H)
    BY <1>3, FS_Intersection
  <2>3. /\ Cardinality(M) \in Nat /\ Cardinality(H) \in Nat
        /\ Cardinality(M \cap H) \in Nat
    BY <1>3, <1>4, <2>2, FS_CardinalityType
  <2> QED BY <1>1, <1>2, <1>3, <1>4, <1>5, <2>1, <2>3
<1>7. IsFiniteSet(Limiters) /\ Cardinality(Limiters) = Cardinality(IPs) + Cardinality(Requests)
  <2> DEFINE n == Cardinality(IPs) + Cardinality(Requests)
  <2>1. n \in Nat
    BY <1>1
  <2> HIDE DEF n
  <2>2. /\ IsFiniteSet(1 .. n)
        /\ Cardinality(1 .. n) = IF 1 > n THEN 0 ELSE n - 1 + 1
    BY <2>1, FS_Interval
  <2>3. IsFiniteSet(1 .. n) /\ Cardinality(1 .. n) = n
    BY <2>1, <2>2
  <2> QED BY <2>3 DEF n, Limiters
<1>8. Limiters \ InUse # {}
  <2> SUFFICES ASSUME Limiters \subseteq InUse PROVE FALSE
    OBVIOUS
  <2>1. Cardinality(Limiters) <= Cardinality(InUse) /\ Cardinality(InUse) \in Nat
    BY <1>6, FS_Subset, FS_CardinalityType
  <2> QED BY <1>1, <1>6, <1>7, <2>1
<1>9. Limiters \ InUse \in SUBSET Nat
  BY <1>1 DEF Limiters
<1> QED BY <1>8, <1>9, MinOfNumbers

(* A look-up drops what has expired and puts its key at the end.           *)
LEMMA GetOrSetKeepsList ==
  ASSUME ListInv, NEW r \in Requests, NEW k \in IPs, GetOrSet(r, k)
  PROVE  ListInv'
<1> DEFINE kept == dropExpired
<1> DEFINE l == IF k \in Range(kept) THEN items[k].lim ELSE Min(Limiters \ InUse)
<1>1. /\ requests[r].pc = "idle"
      /\ order' = touch(kept, k)
      /\ items' = [x \in IPs |->
                     CASE x = k -> [lim |-> l, age |-> 0]
                       [] x # k /\ x \in Range(kept) -> items[x]
                       [] OTHER -> Absent]
  BY DEF GetOrSet
<1>2. /\ kept \in Seq(IPs) /\ EachOnce(kept) /\ ByAge(kept)
      /\ Range(kept) \subseteq Present
  BY KeptIsSuffix
<1>3. l \in Nat \ {NoLimiter}
  <2>1. CASE k \in Range(kept)
    BY <1>2, <2>1 DEF Present, ListInv
  <2>2. CASE k \notin Range(kept)
    <3>1. l \in Limiters
      BY <1>1, <2>2, SpareLimiter
    <3>2. Cardinality(IPs) + Cardinality(Requests) \in Nat
      BY RateLimitAssumption, FS_CardinalityType
    <3> QED BY <3>1, <3>2 DEF Limiters, NoLimiter
  <2> QED BY <2>1, <2>2
<1> HIDE DEF kept, l
<1>4. /\ items'[k] = [lim |-> l, age |-> 0]
      /\ \A x \in Range(kept) : x # k => items'[x] = items[x]
      /\ \A x \in IPs : x # k /\ x \notin Range(kept) => items'[x] = Absent
  BY <1>1, <1>2 DEF Present
<1>5. Touched(kept, k, order')
  BY <1>1, <1>2, TouchTouches
<1>6. /\ items' \in [IPs -> [lim : Nat, age : Nat]]
      /\ \A x \in IPs : items'[x].lim = NoLimiter => items'[x] = Absent
  <2>1. Absent \in [lim : Nat, age : Nat] /\ [lim |-> l, age |-> 0] \in [lim : Nat, age : Nat]
    BY <1>3 DEF Absent, NoLimiter
  <2>2. \A x \in IPs : items[x] \in [lim : Nat, age : Nat]
                       /\ (items[x].lim = NoLimiter => items[x] = Absent)
    BY DEF ListInv
  <2>3. ASSUME NEW x \in IPs
        PROVE  items'[x] \in [lim : Nat, age : Nat]
               /\ (items'[x].lim = NoLimiter => items'[x] = Absent)
    <3>1. CASE x = k
      BY <1>3, <1>4, <2>1, <3>1
    <3>2. CASE x # k /\ x \in Range(kept)
      BY <1>4, <2>2, <3>2
    <3>3. CASE x # k /\ x \notin Range(kept)
      BY <1>4, <2>1, <3>3
    <3> QED BY <3>1, <3>2, <3>3
  <2> QED BY <1>1, <2>3
<1>7. Range(order') = Present'
  <2>1. Range(order') = Range(kept) \cup {k}
    BY <1>5 DEF Touched
  <2>2. ASSUME NEW x \in IPs PROVE x \in Range(kept) \cup {k} <=> items'[x].lim # NoLimiter
    <3>1. CASE x = k
      BY <1>3, <1>4, <3>1
    <3>2. CASE x # k /\ x \in Range(kept)
      BY <1>2, <1>4, <3>2 DEF Present
    <3>3. CASE x # k /\ x \notin Range(kept)
      BY <1>4, <3>3 DEF Absent
    <3> QED BY <3>1, <3>2, <3>3
  <2>3. Range(kept) \cup {k} \subseteq IPs
    BY <1>2 DEF Present
  <2> QED BY <2>1, <2>2, <2>3 DEF Present
<1>8. \A i, j \in DOMAIN order' : i < j => items'[order'[i]].age >= items'[order'[j]].age
  <2> SUFFICES ASSUME NEW i \in DOMAIN order', NEW j \in DOMAIN order', i < j
               PROVE  items'[order'[i]].age >= items'[order'[j]].age
    OBVIOUS
  <2>1. order' \in Seq(IPs) /\ order'[i] \in IPs /\ order'[j] \in IPs
    BY <1>5, LenProperties DEF Touched
  <2>2. CASE order'[j] = k
    <3>1. items'[order'[i]].age \in Nat /\ items'[order'[j]].age = 0
      BY <1>4, <1>6, <2>1, <2>2
    <3> QED BY <3>1
  <2>3. CASE order'[j] # k
    <3>1. PICK a, b \in DOMAIN kept : a < b /\ kept[a] = order'[i] /\ kept[b] = order'[j]
      BY <1>5, <2>3 DEF Touched
    <3>2. kept[a] \in Range(kept) /\ kept[b] \in Range(kept) /\ order'[i] # k
      BY <1>5 DEF Range, Touched
    <3>3. items[kept[a]].age >= items[kept[b]].age
      BY <1>2, <3>1 DEF ByAge
    <3> QED BY <1>4, <2>3, <3>1, <3>2, <3>3
  <2> QED BY <2>2, <2>3
<1> QED BY <1>5, <1>6, <1>7, <1>8 DEF ListInv, Touched, EachOnce, ByAge

(* Time passes for all keys alike.                                         *)
LEMMA TickKeepsList ==
  ASSUME ListInv, Tick
  PROVE  ListInv'
<1> DEFINE older(n) == Min({ttl, n + 1})
<1>0. items' = [k \in IPs |-> IF items[k] = Absent THEN Absent
                               ELSE [items[k] EXCEPT !.age = older(@)]]
  BY Zenon DEF Tick
<1>1. order' = order
  BY Zenon DEF Tick
<1>2. \A n \in Nat : older(n) = IF ttl <= n + 1 THEN ttl ELSE n + 1
  <2> SUFFICES ASSUME NEW n \in Nat PROVE older(n) = IF ttl <= n + 1 THEN ttl ELSE n + 1
    OBVIOUS
  <2> DEFINE m == n + 1
  <2>1. m \in Nat
    OBVIOUS
  <2> HIDE DEF m
  <2>2. Min({ttl, m}) = IF ttl <= m THEN ttl ELSE m
    BY <2>1, ttlType, MinOfTwo
  <2> QED BY <2>2 DEF m
<1> HIDE DEF older
<1>3. \A n \in Nat : older(n) \in Nat
  BY <1>2, ttlType
<1>4. \A n, m \in Nat : n >= m => older(n) >= older(m)
  <2> SUFFICES ASSUME NEW n \in Nat, NEW m \in Nat, n >= m PROVE older(n) >= older(m)
    OBVIOUS
  <2>1. CASE ttl <= n + 1
    BY <1>2, <2>1, ttlType
  <2>2. CASE ~(ttl <= n + 1)
    BY <1>2, <2>2, ttlType
  <2> QED BY <2>1, <2>2
<1>5. \A k \in IPs : items[k] \in [lim : Nat, age : Nat]
  BY DEF ListInv
<1>6. ASSUME NEW k \in IPs
      PROVE  /\ items'[k] \in [lim : Nat, age : Nat]
             /\ items'[k].lim = items[k].lim
             /\ items'[k].lim = NoLimiter => items'[k] = Absent
             /\ items[k].lim # NoLimiter => items'[k].age = older(items[k].age)
  <2>1. CASE items[k] = Absent
    <3>1. items'[k] = items[k]
      BY <1>0, <2>1
    <3> QED BY <1>5, <2>1, <3>1 DEF Absent
  <2>2. CASE items[k] # Absent
    <3>1. items'[k] = [items[k] EXCEPT !.age = older(items[k].age)]
      BY <1>0, <2>2
    <3>2. items[k].age \in Nat /\ older(items[k].age) \in Nat
      BY <1>3, <1>5
    <3>3. items[k].lim # NoLimiter
      BY <2>2 DEF ListInv
    <3> QED BY <1>5, <3>1, <3>2, <3>3
  <2> QED BY <2>1, <2>2
<1>7. items' \in [IPs -> [lim : Nat, age : Nat]]
  BY <1>0, <1>6
<1>8. Present' = Present
  BY <1>6 DEF Present
<1>9. ASSUME NEW i \in DOMAIN order, NEW j \in DOMAIN order, i < j
      PROVE  items'[order[i]].age >= items'[order[j]].age
  <2>1. order[i] \in Present /\ order[j] \in Present
    BY DEF ListInv, Range
  <2>2. /\ items'[order[i]].age = older(items[order[i]].age)
        /\ items'[order[j]].age = older(items[order[j]].age)
    BY <1>6, <2>1 DEF Present
  <2>3. items[order[i]].age >= items[order[j]].age
    BY <1>9 DEF ListInv, ByAge
  <2>4. items[order[i]].age \in Nat /\ items[order[j]].age \in Nat
    BY <1>5, <2>1 DEF Present
  <2> QED BY <1>4, <2>2, <2>3, <2>4
<1> QED BY <1>1, <1>6, <1>7, <1>8, <1>9 DEF ListInv, EachOnce, ByAge

LEMMA ListInvInit == RateInit => ListInv
<1> SUFFICES ASSUME RateInit PROVE ListInv
  OBVIOUS
<1>1. order = <<>> /\ items = [k \in IPs |-> Absent]
  BY DEF RateInit
<1>2. Absent \in [lim : Nat, age : Nat] /\ Absent.lim = NoLimiter
  BY DEF Absent, NoLimiter
<1>3. Present = {} /\ items \in [IPs -> [lim : Nat, age : Nat]]
  BY <1>1, <1>2 DEF Present
<1>4. order \in Seq(IPs) /\ DOMAIN order = {}
  BY <1>1, EmptySeq
<1> QED BY <1>1, <1>3, <1>4 DEF ListInv, Range, EachOnce, ByAge

LEMMA ListInvStep == ListInv /\ [RateNext]_rateVars => ListInv'
<1> SUFFICES ASSUME ListInv, [RateNext]_rateVars PROVE ListInv'
  OBVIOUS
<1>1. CASE order' = order /\ items' = items
  BY <1>1 DEF ListInv, Present, EachOnce, ByAge
<1>2. CASE Tick
  BY <1>2, TickKeepsList
<1>3. ASSUME NEW r \in Requests, Handle(r) PROVE ListInv'
  BY <1>1, <1>3, GetOrSetKeepsList DEF Handle, Reserve, Admit, Refuse, Cancel
<1> QED BY <1>1, <1>2, <1>3 DEF RateNext, rateVars

(* The list and the map of TTLMap hold the same keys, each once, and the   *)
(* list is in the order of the last access, for any number of addresses,   *)
(* of requests at a time and any burst: get moves an item to the back, set *)
(* adds one there, and the loop of GetOrSet only takes from the front.     *)
THEOREM ListIsInAccessOrder == RateSpec => []ListInAccessOrder
<1>1. ListInv => ListInAccessOrder
  BY KeysCounted DEF ListInv, Present, EachOnce, ByAge, ListInAccessOrder
<1> QED BY <1>1, ListInvInit, ListInvStep, PTL DEF RateSpec
-----------------------------------------------------------------------------
(* The budget of an address.                                               *)

(* What as many admissions cost.                                           *)
Cost(S) == Every * Cardinality(S)

(* Requests of an address that have taken a token.                         *)
Taken(k) == {r \in Active : requests[r].ip = k /\ requests[r].pc # "got"}

(* Of requests q that have taken a token from one limiter: those that wait *)
(* for theirs or may still give it back, those that took it at most s      *)
(* ticks after their look-up, and those whose token is there in h ticks.   *)
Waits(q, T) ==
  {r \in T : q[r].delay >= 0 /\ (q[r].pc = "refused" \/ q[r].delay > 0)}
Recent(q, T, s) == {r \in T : q[r].stall <= s}
After(q, T, r) == {c \in T : q[c].delay > q[r].delay}
Served(q, T, s, h) == {r \in T : q[r].stall <= s /\ q[r].delay <= h}
Due(q, T, h) == {r \in T : q[r].pc = "reserved" /\ q[r].delay <= h}

TakenTypes(q, T) ==
  /\ T \subseteq Requests
  /\ \A r \in T : /\ q[r].delay \in Int /\ q[r].delay >= Past
                  /\ q[r].stall \in Nat /\ q[r].stall <= MaxStall
                  /\ q[r].pc \in {"reserved", "refused"}

(* Waiting requests queue up one token apart, the last of them at          *)
(* lastEvent, and the limiter is overdrawn by them.                        *)
WaitInv(l, q, T) ==
  \A r \in Waits(q, T) :
    /\ l.event >= q[r].delay
    /\ l.tokens + Cost(After(q, T, r)) <= -q[r].delay
    /\ \A c \in Waits(q, T) :
         c # r => \/ q[c].delay + Every <= q[r].delay
                  \/ q[r].delay + Every <= q[c].delay

(* No more tokens were taken, or may come back, in the last s ticks than   *)
(* the bucket had then and got since.                                      *)
RecentInv(l, q, T) ==
  \A s \in Nat : l.tokens + Cost(Recent(q, T, s) \cup Waits(q, T)) <= Full + s

ServedInv(q, T) == \A s, h \in Nat : Cost(Served(q, T, s, h)) <= Full + s + h

(* The budget covers what the limiter has left and has given away, and     *)
(* will cover every admission by the time it is due.                       *)
CoverInv(l, b, q, T) ==
  /\ b >= l.tokens + Cost(T)
  /\ \A h \in Nat : b + h >= Cost(Due(q, T, h))

BucketInv(l, b, q, T) ==
  /\ l \in [tokens : Int, event : Int] /\ l.tokens <= Full /\ b \in Int
  /\ TakenTypes(q, T)
  /\ WaitInv(l, q, T)
  /\ RecentInv(l, q, T)
  /\ ServedInv(q, T)
  /\ CoverInv(l, b, q, T)

(* A request uses the limiter that the map has for its address, and no     *)
(* other address has.                                                      *)
UseInv ==
  /\ requests \in [Requests ->
       [pc : {"idle"}] \cup
       [pc : {"got", "reserved", "refused"}, ip : IPs, lim : Nat, delay : Int, stall : Nat]]
  /\ \A r \in Active : /\ requests[r].ip \in Present
                       /\ requests[r].lim = items[requests[r].ip].lim
                       /\ items[requests[r].ip].age <= requests[r].stall
                       /\ requests[r].stall <= MaxStall
  /\ \A k \in Present : items[k].lim \in Limiters
  /\ \A j, k \in Present : items[j].lim = items[k].lim => j = k

(* An address without a limiter may start with a full one; one whose       *)
(* limiter is idle has had the time to.                                    *)
KeyInv(k) ==
  /\ k \notin Present => budget[k] >= Full
  /\ k \in Present =>
       /\ BucketInv(limiters[items[k].lim], budget[k], requests, Taken(k))
       /\ budget[k] >= items[k].age - MaxStall

BudgetInv ==
  /\ ListInv
  /\ limiters \in [Limiters -> [tokens : Int, event : Int]]
  /\ budget \in [IPs -> Int]
  /\ UseInv
  /\ \A k \in IPs : KeyInv(k)

(* The sizes of the bucket: a limiter lives as long as it takes to fill.   *)
LEMMA Sizes ==
  /\ Every \in Nat \ {0} /\ Full \in Nat /\ Every <= Full /\ ttl = Full
  /\ MaxStall \in Nat
<1>1. Every \in Nat \ {0} /\ Burst \in Nat \ {0} /\ MaxStall \in Nat
  BY RateLimitAssumption
<1>2. Burst * Every \in Nat /\ Every <= Burst * Every
  BY <1>1
<1>3. ttl = Full
  BY <1>1 DEF ttl, Full
<1> QED BY <1>1, <1>2, <1>3 DEF Full

LEMMA CostType ==
  ASSUME NEW S \in SUBSET Requests
  PROVE  IsFiniteSet(S) /\ Cost(S) \in Nat
<1>1. IsFiniteSet(S) /\ Cardinality(S) \in Nat
  BY RateLimitAssumption, FS_Subset, FS_CardinalityType
<1> QED BY <1>1, RateLimitAssumption DEF Cost

LEMMA CostSubset ==
  ASSUME NEW T \in SUBSET Requests, NEW S \in SUBSET T
  PROVE  Cost(S) <= Cost(T)
<1>1. IsFiniteSet(T) /\ S \in SUBSET Requests
  BY CostType
<1>2. Cardinality(S) <= Cardinality(T) /\ Cardinality(S) \in Nat /\ Cardinality(T) \in Nat
  BY <1>1, FS_Subset, FS_CardinalityType
<1>3. \A n, m \in Nat : n <= m => Every * n <= Every * m
  BY RateLimitAssumption
<1> QED BY <1>2, <1>3 DEF Cost

LEMMA CostAdd ==
  ASSUME NEW T \in SUBSET Requests, NEW r \in Requests \ T
  PROVE  Cost(T \cup {r}) = Cost(T) + Every
<1>1. IsFiniteSet(T) /\ Cardinality(T) \in Nat
  BY CostType, FS_CardinalityType
<1>2. Cardinality(T \cup {r}) = Cardinality(T) + 1
  BY <1>1, FS_AddElement
<1>3. \A n \in Nat : Every * (n + 1) = Every * n + Every
  BY RateLimitAssumption
<1> QED BY <1>1, <1>2, <1>3 DEF Cost

LEMMA CostRemove ==
  ASSUME NEW T \in SUBSET Requests, NEW r \in T
  PROVE  Cost(T \ {r}) = Cost(T) - Every
<1>1. (T \ {r}) \cup {r} = T /\ T \ {r} \in SUBSET Requests /\ r \in Requests \ (T \ {r})
  OBVIOUS
<1>2. Cost(T) = Cost(T \ {r}) + Every
  BY <1>1, CostAdd
<1> QED BY <1>1, <1>2, CostType, Sizes

LEMMA CostEmpty == Cost({}) = 0
  BY FS_EmptySet, RateLimitAssumption DEF Cost

(* A larger set, less one element.                                         *)
LEMMA CostBut ==
  ASSUME NEW T \in SUBSET Requests, NEW r \in Requests, NEW S \in SUBSET (T \cup {r})
  PROVE  Cost(S) <= Cost(T) + Every
<1>1. T \cup {r} \in SUBSET Requests
  OBVIOUS
<1>2. Cost(S) <= Cost(T \cup {r}) /\ Cost(S) \in Nat /\ Cost(T \cup {r}) \in Nat
      /\ Cost(T) \in Nat
  BY <1>1, CostSubset, CostType
<1>3. CASE r \in T
  <2>1. T \cup {r} = T
    BY <1>3
  <2> QED BY <1>2, <2>1, Sizes
<1>4. CASE r \notin T
  BY <1>2, <1>4, CostAdd, Sizes
<1> QED BY <1>3, <1>4

(* The sets of requests that the invariant counts.                         *)
LEMMA Counted ==
  ASSUME NEW q, NEW T \in SUBSET Requests
  PROVE  /\ Waits(q, T) \in SUBSET T
         /\ \A s : Recent(q, T, s) \cup Waits(q, T) \in SUBSET T
         /\ \A r : After(q, T, r) \in SUBSET T
         /\ \A s, h : Served(q, T, s, h) \in SUBSET T
         /\ \A h : Due(q, T, h) \in SUBSET T
  BY DEF Waits, Recent, After, Served, Due

(* Only the requests of the limiter count.                                 *)
LEMMA SameBucket ==
  ASSUME NEW l, NEW b, NEW q, NEW T, BucketInv(l, b, q, T),
         NEW p, \A c \in T : p[c] = q[c]
  PROVE  BucketInv(l, b, p, T)
<1>1. Waits(p, T) = Waits(q, T)
  BY DEF Waits
<1>2. \A s : Recent(p, T, s) = Recent(q, T, s)
  BY DEF Recent
<1>3. \A c \in T : After(p, T, c) = After(q, T, c)
  BY DEF After
<1>4. \A s, h : Served(p, T, s, h) = Served(q, T, s, h)
  BY DEF Served
<1>5. \A h : Due(p, T, h) = Due(q, T, h)
  BY DEF Due
<1>6. \A c \in Waits(q, T) : c \in T
  BY DEF Waits
<1>7. TakenTypes(p, T)
  BY DEF BucketInv, TakenTypes
<1>8. WaitInv(l, p, T)
  BY <1>1, <1>3, <1>6 DEF BucketInv, WaitInv
<1> QED BY <1>1, <1>2, <1>4, <1>5, <1>7, <1>8 DEF BucketInv, RecentInv, ServedInv, CoverInv

(* A new limiter is full, and nobody has taken anything from it.           *)
LEMMA NewBucket ==
  ASSUME NEW b \in Int, b >= Full, NEW q
  PROVE  BucketInv(NewLimiter, b, q, {})
<1>1. /\ Waits(q, {}) = {}
      /\ \A s : Recent(q, {}, s) = {}
      /\ \A s, h : Served(q, {}, s, h) = {}
      /\ \A h : Due(q, {}, h) = {}
  BY DEF Waits, Recent, Served, Due
<1>2. NewLimiter = [tokens |-> Full, event |-> Past] /\ Past \in Int
  BY DEF NewLimiter, Past
<1>3. TakenTypes(q, {}) /\ WaitInv(NewLimiter, q, {})
  BY <1>1 DEF TakenTypes, WaitInv
<1>5. NewLimiter.tokens = Full
  BY <1>2
<1>6. \A s : Recent(q, {}, s) \cup Waits(q, {}) = {}
  BY <1>1
<1>4. RecentInv(NewLimiter, q, {}) /\ ServedInv(q, {}) /\ CoverInv(NewLimiter, b, q, {})
  BY <1>1, <1>5, <1>6, CostEmpty, Sizes DEF RecentInv, ServedInv, CoverInv
<1> QED BY <1>2, <1>3, <1>4, Sizes DEF BucketInv

(* Reserve takes a token, which comes after those of all who wait.         *)
LEMMA ReserveBucket ==
  ASSUME NEW l, NEW b, NEW q, NEW T, BucketInv(l, b, q, T),
         NEW r \in Requests \ T, q[r].stall \in Nat, q[r].stall <= MaxStall,
         NEW left, left = l.tokens - Every,
         NEW wait, wait = IF left < 0 THEN -left ELSE 0,
         NEW p, \A c \in T : p[c] = q[c],
         p[r].pc = "reserved", p[r].delay = wait, p[r].stall = q[r].stall
  PROVE  BucketInv([tokens |-> left, event |-> wait], b, p, T \cup {r})
<1> DEFINE N == T \cup {r}
<1> DEFINE m == [tokens |-> left, event |-> wait]
<1>t. /\ T \in SUBSET Requests /\ l.tokens \in Int /\ l.event \in Int /\ b \in Int
      /\ l.tokens <= Full
      /\ Every \in Nat \ {0} /\ Full \in Nat /\ MaxStall \in Nat
      /\ left \in Int /\ wait \in Nat /\ wait >= -left /\ left = l.tokens - Every
  BY Sizes DEF BucketInv, TakenTypes
<1>d. \A c \in T : q[c].delay \in Int /\ q[c].pc \in {"reserved", "refused"}
  BY DEF BucketInv, TakenTypes
<1>m. m.tokens = left /\ m.event = wait /\ m \in [tokens : Int, event : Int]
  BY <1>t
<1>c. \A S \in SUBSET T : Cost(S) \in Nat
  BY <1>t, CostType
<1>w. \A c \in Waits(q, T) : q[c].delay + Every <= wait /\ left < 0 /\ c \in T
  <2> SUFFICES ASSUME NEW c \in Waits(q, T)
               PROVE  q[c].delay + Every <= wait /\ left < 0 /\ c \in T
    OBVIOUS
  <2>1. c \in T /\ q[c].delay >= 0
    BY DEF Waits
  <2>2. l.tokens + Cost(After(q, T, c)) <= -q[c].delay
    BY DEF BucketInv, WaitInv
  <2>3. Cost(After(q, T, c)) \in Nat
    BY <1>t, <1>c, Counted
  <2> QED BY <1>t, <1>d, <2>1, <2>2, <2>3
<1>a. \A c \in T : q[c].delay <= wait
  <2> SUFFICES ASSUME NEW c \in T PROVE q[c].delay <= wait
    OBVIOUS
  <2>1. CASE q[c].delay > 0
    <3>1. c \in Waits(q, T)
      BY <1>d, <2>1 DEF Waits
    <3> QED BY <1>t, <1>d, <1>w, <3>1
  <2>2. CASE ~(q[c].delay > 0)
    BY <1>t, <1>d, <2>2
  <2> QED BY <2>1, <2>2
<1>v. /\ Waits(p, N) \in SUBSET (Waits(q, T) \cup {r})
      /\ r \in Waits(p, N) => left < 0
  BY <1>t DEF Waits
<1> HIDE DEF m
<1>1. TakenTypes(p, N)
  BY <1>t, <1>d DEF BucketInv, TakenTypes, Past
<1>2. WaitInv(m, p, N)
  <2> SUFFICES ASSUME NEW c \in Waits(p, N)
               PROVE  /\ wait >= p[c].delay
                      /\ left + Cost(After(p, N, c)) <= -p[c].delay
                      /\ \A e \in Waits(p, N) :
                           e # c => \/ p[e].delay + Every <= p[c].delay
                                    \/ p[c].delay + Every <= p[e].delay
    BY <1>m DEF WaitInv
  <2>1. CASE c = r
    <3>1. After(p, N, c) = {}
      BY <1>t, <1>d, <1>a, <2>1 DEF After
    <3>4. p[c].delay = wait /\ Cost(After(p, N, c)) = 0
      BY <2>1, <3>1, CostEmpty
    <3>5. left < 0
      BY <1>v, <2>1
    <3>6. wait = -left
      BY <3>5
    <3>2. left + Cost(After(p, N, c)) <= -p[c].delay
      BY <1>t, <3>4, <3>6
    <3>3. ASSUME NEW e \in Waits(p, N), e # c PROVE p[e].delay + Every <= p[c].delay
      BY <1>w, <1>v, <2>1, <3>3
    <3>7. wait >= p[c].delay
      BY <1>t, <3>4
    <3> QED BY <3>2, <3>3, <3>7
  <2>2. CASE c # r
    <3>1. c \in Waits(q, T) /\ c \in T /\ p[c] = q[c] /\ q[c].delay \in Int
      BY <1>d, <1>w, <1>v, <2>2
    <3>2. After(p, N, c) \in SUBSET (After(q, T, c) \cup {r})
      BY <3>1 DEF After
    <3>3. After(q, T, c) \in SUBSET Requests /\ After(q, T, c) \in SUBSET T
      BY <1>t, Counted
    <3>4. Cost(After(p, N, c)) <= Cost(After(q, T, c)) + Every
      BY <3>2, <3>3, CostBut
    <3>5. l.tokens + Cost(After(q, T, c)) <= -q[c].delay
      BY <3>1 DEF BucketInv, WaitInv
    <3>6. Cost(After(q, T, c)) \in Nat /\ Cost(After(p, N, c)) \in Nat
      BY <1>c, <1>t, <3>2, <3>3, CostType
    <3>7. left + Cost(After(p, N, c)) <= -p[c].delay
      BY <1>t, <3>1, <3>4, <3>5, <3>6
    <3>8. ASSUME NEW e \in Waits(p, N), e # c
          PROVE  p[e].delay + Every <= p[c].delay \/ p[c].delay + Every <= p[e].delay
      <4>1. CASE e = r
        BY <1>w, <3>1, <4>1
      <4>2. CASE e # r
        <5>1. e \in Waits(q, T) /\ p[e] = q[e]
          BY <1>v, <1>w, <4>2
        <5> QED BY <3>1, <3>8, <5>1 DEF BucketInv, WaitInv
      <4> QED BY <4>1, <4>2
    <3>9. wait >= p[c].delay
      BY <1>a, <1>t, <3>1
    <3> QED BY <3>7, <3>8, <3>9
  <2> QED BY <2>1, <2>2
<1>3. RecentInv(m, p, N)
  <2> SUFFICES ASSUME NEW s \in Nat
               PROVE  left + Cost(Recent(p, N, s) \cup Waits(p, N)) <= Full + s
    BY <1>m DEF RecentInv
  <2> DEFINE A == Recent(q, T, s) \cup Waits(q, T)
  <2> DEFINE B == Recent(p, N, s) \cup Waits(p, N)
  <2>1. B \in SUBSET (A \cup {r})
    BY <1>v DEF Recent
  <2>2. A \in SUBSET T
    BY <1>t, Counted
  <2>3. l.tokens + Cost(A) <= Full + s
    BY DEF BucketInv, RecentInv
  <2> HIDE DEF A, B
  <2>4. Cost(B) <= Cost(A) + Every /\ Cost(A) \in Nat /\ Cost(B) \in Nat
    BY <1>t, <1>c, <2>1, <2>2, CostBut, CostType
  <2>5. left + Cost(B) <= Full + s
    BY <1>t, <2>3, <2>4
  <2> QED BY <2>5 DEF B
<1>4. ServedInv(p, N)
  <2> SUFFICES ASSUME NEW s \in Nat, NEW h \in Nat
               PROVE  Cost(Served(p, N, s, h)) <= Full + s + h
    BY DEF ServedInv
  <2>1. CASE r \in Served(p, N, s, h)
    <3> DEFINE A == Recent(q, T, s) \cup Waits(q, T)
    <3>1. Served(p, N, s, h) \in SUBSET (A \cup {r}) /\ wait <= h
      BY <2>1 DEF Served, Recent
    <3>2. A \in SUBSET T
      BY <1>t, Counted
    <3>3. l.tokens + Cost(A) <= Full + s
      BY DEF BucketInv, RecentInv
    <3> HIDE DEF A
    <3>4. /\ Cost(Served(p, N, s, h)) <= Cost(A) + Every
          /\ Cost(A) \in Nat /\ Cost(Served(p, N, s, h)) \in Nat
      BY <1>t, <1>c, <3>1, <3>2, CostBut, CostType
    <3> QED BY <1>t, <3>1, <3>3, <3>4
  <2>2. CASE r \notin Served(p, N, s, h)
    <3>1. Served(p, N, s, h) = Served(q, T, s, h)
      BY <2>2 DEF Served
    <3> QED BY <3>1 DEF BucketInv, ServedInv
  <2> QED BY <2>1, <2>2
<1>5. CoverInv(m, b, p, N)
  <2>1. b >= l.tokens + Cost(T) /\ Cost(T) \in Nat
    BY <1>c DEF BucketInv, CoverInv
  <2>2. Cost(N) = Cost(T) + Every
    BY <1>t, CostAdd
  <2>3. b >= m.tokens + Cost(N)
    BY <1>t, <1>m, <2>1, <2>2
  <2>4. ASSUME NEW h \in Nat PROVE b + h >= Cost(Due(p, N, h))
    <3>1. CASE r \in Due(p, N, h)
      <4>1. Due(p, N, h) \in SUBSET N /\ wait <= h /\ N \in SUBSET Requests
        BY <1>t, <3>1 DEF Due
      <4>2. Cost(Due(p, N, h)) <= Cost(N) /\ Cost(Due(p, N, h)) \in Nat
        BY <4>1, CostSubset, CostType
      <4> QED BY <1>t, <2>1, <2>2, <4>1, <4>2
    <3>2. CASE r \notin Due(p, N, h)
      <4>1. Due(p, N, h) = Due(q, T, h)
        BY <3>2 DEF Due
      <4> QED BY <4>1 DEF BucketInv, CoverInv
    <3> QED BY <3>1, <3>2
  <2> QED BY <2>3, <2>4 DEF CoverInv
<1>6. m.tokens <= Full
  BY <1>t, <1>m
<1>7. BucketInv(m, b, p, N)
  BY <1>t, <1>m, <1>1, <1>2, <1>3, <1>4, <1>5, <1>6 DEF BucketInv
<1> QED BY <1>7 DEF m

(* Admit and Refuse: a request whose token is there leaves and is paid     *)
(* for; one that has to wait for it will give it back.                     *)
LEMMA AdmitBucket ==
  ASSUME NEW l, NEW b, NEW q, NEW T, BucketInv(l, b, q, T),
         NEW r \in T, q[r].pc = "reserved", q[r].delay <= 0,
         NEW p, \A c \in T \ {r} : p[c] = q[c]
  PROVE  BucketInv(l, b - Every, p, T \ {r})
<1> DEFINE N == T \ {r}
<1>t. /\ T \in SUBSET Requests /\ N \in SUBSET Requests /\ N \in SUBSET T
      /\ l \in [tokens : Int, event : Int] /\ l.tokens \in Int /\ l.tokens <= Full /\ b \in Int
      /\ Every \in Nat \ {0} /\ Full \in Nat
      /\ \A c \in T : q[c].delay \in Int
  BY Sizes DEF BucketInv, TakenTypes
<1>c. \A S \in SUBSET T : Cost(S) \in Nat
  BY <1>t, CostType
<1>w. Waits(p, N) = Waits(q, T)
  BY <1>t DEF Waits
<1>1. TakenTypes(p, N)
  BY <1>t DEF BucketInv, TakenTypes
<1>2. WaitInv(l, p, N)
  <2> SUFFICES ASSUME NEW c \in Waits(q, T)
               PROVE  /\ l.event >= p[c].delay
                      /\ l.tokens + Cost(After(p, N, c)) <= -p[c].delay
                      /\ \A e \in Waits(q, T) :
                           e # c => \/ p[e].delay + Every <= p[c].delay
                                    \/ p[c].delay + Every <= p[e].delay
    BY <1>w DEF WaitInv
  <2>1. \A e \in Waits(q, T) : e \in N /\ p[e] = q[e]
    BY <1>t, <1>w DEF Waits
  <2>2. After(p, N, c) \in SUBSET After(q, T, c) /\ After(q, T, c) \in SUBSET T
    BY <2>1 DEF After
  <2>3. /\ Cost(After(p, N, c)) <= Cost(After(q, T, c))
        /\ Cost(After(p, N, c)) \in Nat /\ Cost(After(q, T, c)) \in Nat
    BY <1>t, <1>c, <2>2, CostSubset
  <2>4. l.tokens + Cost(After(q, T, c)) <= -q[c].delay /\ q[c].delay \in Int
    BY <1>t, <2>1 DEF BucketInv, WaitInv
  <2>5. l.tokens + Cost(After(p, N, c)) <= -q[c].delay
    BY <1>t, <2>3, <2>4
  <2> QED BY <2>1, <2>5 DEF BucketInv, WaitInv
<1>3. RecentInv(l, p, N)
  <2> SUFFICES ASSUME NEW s \in Nat
               PROVE  l.tokens + Cost(Recent(p, N, s) \cup Waits(p, N)) <= Full + s
    BY DEF RecentInv
  <2> DEFINE A == Recent(q, T, s) \cup Waits(q, T)
  <2> DEFINE B == Recent(p, N, s) \cup Waits(p, N)
  <2>1. B \in SUBSET A /\ A \in SUBSET T
    BY <1>w, <1>t, Counted DEF Recent
  <2>2. l.tokens + Cost(A) <= Full + s
    BY DEF BucketInv, RecentInv
  <2> HIDE DEF A, B
  <2>3. Cost(B) <= Cost(A) /\ Cost(A) \in Nat /\ Cost(B) \in Nat
    BY <1>t, <1>c, <2>1, CostSubset
  <2>4. l.tokens + Cost(B) <= Full + s
    BY <1>t, <2>2, <2>3
  <2> QED BY <2>4 DEF B
<1>4. ServedInv(p, N)
  <2> SUFFICES ASSUME NEW s \in Nat, NEW h \in Nat
               PROVE  Cost(Served(p, N, s, h)) <= Full + s + h
    BY DEF ServedInv
  <2>1. Served(p, N, s, h) \in SUBSET Served(q, T, s, h) /\ Served(q, T, s, h) \in SUBSET T
    BY DEF Served
  <2>2. /\ Cost(Served(p, N, s, h)) <= Cost(Served(q, T, s, h))
        /\ Cost(Served(p, N, s, h)) \in Nat /\ Cost(Served(q, T, s, h)) \in Nat
    BY <1>t, <1>c, <2>1, CostSubset
  <2>3. Cost(Served(q, T, s, h)) <= Full + s + h
    BY DEF BucketInv, ServedInv
  <2> QED BY <1>t, <2>2, <2>3
<1>5. CoverInv(l, b - Every, p, N)
  <2>1. Cost(N) = Cost(T) - Every /\ Cost(T) \in Nat /\ b >= l.tokens + Cost(T)
    BY <1>t, <1>c, CostRemove DEF BucketInv, CoverInv
  <2>2. b - Every >= l.tokens + Cost(N)
    BY <1>t, <2>1
  <2>3. ASSUME NEW h \in Nat PROVE (b - Every) + h >= Cost(Due(p, N, h))
    <3>1. /\ Due(p, N, h) = Due(q, T, h) \ {r} /\ r \in Due(q, T, h)
          /\ Due(q, T, h) \in SUBSET T
      BY <1>t DEF Due
    <3>2. /\ Cost(Due(p, N, h)) = Cost(Due(q, T, h)) - Every
          /\ Cost(Due(q, T, h)) \in Nat
      BY <1>t, <1>c, <3>1, CostRemove
    <3>3. b + h >= Cost(Due(q, T, h))
      BY DEF BucketInv, CoverInv
    <3> QED BY <1>t, <3>2, <3>3
  <2> QED BY <2>2, <2>3 DEF CoverInv
<1>6. b - Every \in Int
  BY <1>t
<1> QED BY <1>t, <1>1, <1>2, <1>3, <1>4, <1>5, <1>6 DEF BucketInv

LEMMA RefuseBucket ==
  ASSUME NEW l, NEW b, NEW q, NEW T, BucketInv(l, b, q, T),
         NEW r \in T, q[r].delay > 0,
         NEW p, \A c \in T \ {r} : p[c] = q[c],
         p[r].pc = "refused", p[r].delay = q[r].delay, p[r].stall = q[r].stall
  PROVE  BucketInv(l, b, p, T)
<1>t. T \in SUBSET Requests /\ b \in Int
  BY DEF BucketInv, TakenTypes
<1>p. \A c \in T : p[c].delay = q[c].delay /\ p[c].stall = q[c].stall
                   /\ (p[c].pc = "reserved" => q[c].pc = "reserved")
  OBVIOUS
<1>w. Waits(p, T) = Waits(q, T)
  <2>1. \A c \in T : c # r => p[c] = q[c]
    OBVIOUS
  <2>2. r \in Waits(p, T) /\ r \in Waits(q, T)
    BY DEF BucketInv, TakenTypes, Waits
  <2>3. \A c \in T : c # r => (c \in Waits(p, T) <=> c \in Waits(q, T))
    BY <2>1 DEF Waits
  <2> QED BY <2>2, <2>3 DEF Waits
<1>1. TakenTypes(p, T)
  BY <1>p DEF BucketInv, TakenTypes
<1>2. WaitInv(l, p, T)
  <2>1. \A c \in T : After(p, T, c) = After(q, T, c)
    BY <1>p DEF After
  <2>2. \A c \in Waits(q, T) : c \in T
    BY DEF Waits
  <2> QED BY <1>p, <1>w, <2>1, <2>2 DEF BucketInv, WaitInv
<1>3. RecentInv(l, p, T)
  <2>1. \A s : Recent(p, T, s) = Recent(q, T, s)
    BY <1>p DEF Recent
  <2> QED BY <1>w, <2>1 DEF BucketInv, RecentInv
<1>4. ServedInv(p, T)
  <2>1. \A s, h : Served(p, T, s, h) = Served(q, T, s, h)
    BY <1>p DEF Served
  <2> QED BY <2>1 DEF BucketInv, ServedInv
<1>5. CoverInv(l, b, p, T)
  <2>1. ASSUME NEW h \in Nat PROVE b + h >= Cost(Due(p, T, h))
    <3>1. Due(p, T, h) \in SUBSET Due(q, T, h) /\ Due(q, T, h) \in SUBSET Requests
          /\ Due(p, T, h) \in SUBSET Requests
      BY <1>t, <1>p DEF Due
    <3>2. /\ Cost(Due(p, T, h)) <= Cost(Due(q, T, h))
          /\ Cost(Due(p, T, h)) \in Nat /\ Cost(Due(q, T, h)) \in Nat
      BY <3>1, CostSubset, CostType
    <3>3. b + h >= Cost(Due(q, T, h))
      BY DEF BucketInv, CoverInv
    <3> QED BY <1>t, <3>2, <3>3
  <2> QED BY <2>1 DEF BucketInv, CoverInv
<1> QED BY <1>1, <1>2, <1>3, <1>4, <1>5 DEF BucketInv

(* Cancel gives back at most a token, and only if no later request waits.  *)
LEMMA CancelBucket ==
  ASSUME NEW l, NEW b, NEW q, NEW T, BucketInv(l, b, q, T),
         NEW r \in T, q[r].pc = "refused",
         NEW p, \A c \in T \ {r} : p[c] = q[c],
         NEW back \in Nat,
         back # 0 => q[r].delay >= 0 /\ back <= Every - (l.event - q[r].delay),
         NEW m \in [tokens : Int, event : Int],
         m.tokens <= Full, m.tokens <= l.tokens + back,
         m.event = l.event \/ (back # 0 /\ q[r].delay = l.event /\ m.event = q[r].delay - Every)
  PROVE  BucketInv(m, b, p, T \ {r})
<1> DEFINE N == T \ {r}
<1>t. /\ T \in SUBSET Requests /\ N \in SUBSET Requests /\ N \in SUBSET T
      /\ l.tokens \in Int /\ l.event \in Int /\ b \in Int /\ m.tokens \in Int /\ m.event \in Int
      /\ Every \in Nat \ {0} /\ Full \in Nat
      /\ \A c \in T : q[c].delay \in Int
  BY Sizes DEF BucketInv, TakenTypes
<1>c. \A S \in SUBSET T : Cost(S) \in Nat
  BY <1>t, CostType
<1>w. Waits(p, N) = Waits(q, T) \ {r} /\ Waits(q, T) \in SUBSET T
  BY DEF Waits
<1>e. \A c \in Waits(p, N) : c \in Waits(q, T) /\ c \in N /\ c # r /\ p[c] = q[c]
  BY <1>w
<1>r. back # 0 => r \in Waits(q, T) /\ back <= Every
  <2> SUFFICES ASSUME back # 0 PROVE r \in Waits(q, T) /\ back <= Every
    OBVIOUS
  <2>1. r \in Waits(q, T)
    BY DEF Waits
  <2>2. l.event >= q[r].delay
    BY <2>1 DEF BucketInv, WaitInv
  <2> QED BY <1>t, <2>1, <2>2
<1>q. back # 0 => \A c \in Waits(p, N) : q[c].delay + Every <= q[r].delay
  <2> SUFFICES ASSUME back # 0, NEW c \in Waits(p, N)
               PROVE  q[c].delay + Every <= q[r].delay
    OBVIOUS
  <2>1. /\ q[c].delay + Every <= q[r].delay \/ q[r].delay + Every <= q[c].delay
        /\ l.event >= q[c].delay
    BY <1>e, <1>r DEF BucketInv, WaitInv
  <2>3. q[c].delay \in Int /\ q[r].delay \in Int
    BY <1>t, <1>e
  <2>4. back >= 1 /\ back <= Every - (l.event - q[r].delay)
    OBVIOUS
  <2>2. ~(q[r].delay + Every <= q[c].delay)
    BY <1>t, <2>1, <2>3, <2>4
  <2> QED BY <2>1, <2>2
<1>1. TakenTypes(p, N)
  BY <1>t DEF BucketInv, TakenTypes
<1>2. WaitInv(m, p, N)
  <2> SUFFICES ASSUME NEW c \in Waits(p, N)
               PROVE  /\ m.event >= p[c].delay
                      /\ m.tokens + Cost(After(p, N, c)) <= -p[c].delay
                      /\ \A e \in Waits(p, N) :
                           e # c => \/ p[e].delay + Every <= p[c].delay
                                    \/ p[c].delay + Every <= p[e].delay
    BY DEF WaitInv
  <2>1. c \in Waits(q, T) /\ c \in N /\ p[c] = q[c] /\ q[c].delay \in Int /\ q[r].delay \in Int
    BY <1>t, <1>e
  <2>2. l.tokens + Cost(After(q, T, c)) <= -q[c].delay /\ l.event >= q[c].delay
    BY <2>1 DEF BucketInv, WaitInv
  <2>3. After(p, N, c) = After(q, T, c) \ {r} /\ After(q, T, c) \in SUBSET T
    BY <2>1 DEF After
  <2>4. Cost(After(p, N, c)) \in Nat /\ Cost(After(q, T, c)) \in Nat
        /\ Cost(After(p, N, c)) <= Cost(After(q, T, c))
    BY <1>t, <1>c, <2>3, CostSubset
  <2>5. m.tokens + Cost(After(p, N, c)) <= -q[c].delay
    <3>1. CASE back = 0
      BY <1>t, <2>1, <2>2, <2>4, <3>1
    <3>2. CASE back # 0
      <4>3. q[c].delay + Every <= q[r].delay
        BY <1>q, <3>2
      <4>4. q[r].delay > q[c].delay
        BY <1>t, <2>1, <4>3
      <4>1. r \in After(q, T, c) /\ back <= Every
        BY <1>r, <3>2, <4>4 DEF After
      <4>2. Cost(After(p, N, c)) = Cost(After(q, T, c)) - Every
        BY <1>t, <2>3, <4>1, CostRemove
      <4> QED BY <1>t, <2>1, <2>2, <2>4, <4>1, <4>2
    <3> QED BY <3>1, <3>2
  <2>6. m.event >= q[c].delay
    <3>1. CASE m.event = l.event
      BY <2>2, <3>1
    <3>2. CASE back # 0 /\ m.event = q[r].delay - Every
      <4>1. q[c].delay + Every <= q[r].delay
        BY <1>q, <3>2
      <4> QED BY <1>t, <2>1, <3>2, <4>1
    <3> QED BY <3>1, <3>2
  <2>7. ASSUME NEW e \in Waits(p, N), e # c
        PROVE  p[e].delay + Every <= p[c].delay \/ p[c].delay + Every <= p[e].delay
    BY <1>e, <2>1, <2>7 DEF BucketInv, WaitInv
  <2> QED BY <2>1, <2>5, <2>6, <2>7
<1>3. RecentInv(m, p, N)
  <2> SUFFICES ASSUME NEW s \in Nat
               PROVE  m.tokens + Cost(Recent(p, N, s) \cup Waits(p, N)) <= Full + s
    BY DEF RecentInv
  <2> DEFINE A == Recent(q, T, s) \cup Waits(q, T)
  <2> DEFINE B == Recent(p, N, s) \cup Waits(p, N)
  <2>1. B = A \ {r} /\ A \in SUBSET T /\ (back # 0 => r \in A /\ back <= Every)
    BY <1>w, <1>r DEF Recent
  <2>2. l.tokens + Cost(A) <= Full + s
    BY DEF BucketInv, RecentInv
  <2> HIDE DEF A, B
  <2>3. Cost(B) <= Cost(A) /\ Cost(A) \in Nat /\ Cost(B) \in Nat
    BY <1>t, <1>c, <2>1, CostSubset
  <2>4. CASE back = 0
    <3>1. m.tokens + Cost(B) <= Full + s
      BY <1>t, <2>2, <2>3, <2>4
    <3> QED BY <3>1 DEF B
  <2>5. CASE back # 0
    <3>1. Cost(B) = Cost(A) - Every
      BY <1>t, <2>1, <2>5, CostRemove
    <3>2. m.tokens + Cost(B) <= Full + s
      BY <1>t, <2>1, <2>2, <2>3, <2>5, <3>1
    <3> QED BY <3>2 DEF B
  <2> QED BY <2>4, <2>5
<1>4. ServedInv(p, N)
  <2> SUFFICES ASSUME NEW s \in Nat, NEW h \in Nat
               PROVE  Cost(Served(p, N, s, h)) <= Full + s + h
    BY DEF ServedInv
  <2>1. Served(p, N, s, h) \in SUBSET Served(q, T, s, h) /\ Served(q, T, s, h) \in SUBSET T
    BY DEF Served
  <2>2. /\ Cost(Served(p, N, s, h)) <= Cost(Served(q, T, s, h))
        /\ Cost(Served(p, N, s, h)) \in Nat /\ Cost(Served(q, T, s, h)) \in Nat
    BY <1>t, <1>c, <2>1, CostSubset
  <2>3. Cost(Served(q, T, s, h)) <= Full + s + h
    BY DEF BucketInv, ServedInv
  <2> QED BY <1>t, <2>2, <2>3
<1>5. CoverInv(m, b, p, N)
  <2>1. Cost(N) = Cost(T) - Every /\ Cost(T) \in Nat /\ b >= l.tokens + Cost(T)
    BY <1>t, <1>c, CostRemove DEF BucketInv, CoverInv
  <2>2. back <= Every
    BY <1>t, <1>r
  <2>3. b >= m.tokens + Cost(N)
    BY <1>t, <2>1, <2>2
  <2>4. ASSUME NEW h \in Nat PROVE b + h >= Cost(Due(p, N, h))
    <3>1. Due(p, N, h) \in SUBSET Due(q, T, h) /\ Due(q, T, h) \in SUBSET T
      BY DEF Due
    <3>2. /\ Cost(Due(p, N, h)) <= Cost(Due(q, T, h))
          /\ Cost(Due(p, N, h)) \in Nat /\ Cost(Due(q, T, h)) \in Nat
      BY <1>t, <1>c, <3>1, CostSubset
    <3>3. b + h >= Cost(Due(q, T, h))
      BY DEF BucketInv, CoverInv
    <3> QED BY <1>t, <3>2, <3>3
  <2> QED BY <2>3, <2>4 DEF CoverInv
<1> QED BY <1>t, <1>1, <1>2, <1>3, <1>4, <1>5 DEF BucketInv

(* The smaller and the larger of two integers.                             *)
LEMMA MinMaxOfInts ==
  ASSUME NEW a \in Int, NEW b \in Int
  PROVE  /\ Min({a, b}) = IF a <= b THEN a ELSE b
         /\ Max({a, b}) = IF a <= b THEN b ELSE a
<1>1. /\ \E x \in {a, b} : \A y \in {a, b} : x <= y
      /\ \E x \in {a, b} : \A y \in {a, b} : x >= y
  OBVIOUS
<1>2. Min({a, b}) \in {a, b} /\ \A y \in {a, b} : Min({a, b}) <= y
  BY <1>1 DEF Min
<1>3. Max({a, b}) \in {a, b} /\ \A y \in {a, b} : Max({a, b}) >= y
  BY <1>1 DEF Max
<1> QED BY <1>2, <1>3

(* Of requests that queue up, one is the first.                            *)
LEMMA FirstWaits ==
  ASSUME NEW q, NEW W, W # {}, \A c \in W : q[c].delay \in Nat
  PROVE  \E r \in W : \A c \in W : q[r].delay <= q[c].delay
<1> DEFINE D == {q[c].delay : c \in W}
<1>1. D \in SUBSET Nat /\ D # {}
  OBVIOUS
<1> HIDE DEF D
<1>2. Min(D) \in D /\ \A y \in D : Min(D) <= y
  BY <1>1, MinOfNumbers
<1>3. PICK r \in W : q[r].delay = Min(D)
  BY <1>2 DEF D
<1>4. \A c \in W : q[c].delay \in D
  BY DEF D
<1> QED BY <1>2, <1>3, <1>4

(* A tick: the bucket fills, the tokens that are waited for come closer.   *)
LEMMA TickBucket ==
  ASSUME NEW l, NEW b, NEW q, NEW T, BucketInv(l, b, q, T),
         \A c \in T : q[c].stall < MaxStall,
         NEW m \in [tokens : Int, event : Int],
         m.tokens <= Full, m.tokens <= l.tokens + 1, m.event >= l.event - 1,
         NEW a \in Int, a = b + 1 \/ a = Allowance,
         NEW p, \A c \in T : /\ p[c].pc = q[c].pc
                             /\ p[c].stall = q[c].stall + 1
                             /\ p[c].delay = IF q[c].delay >= 0 THEN q[c].delay - 1 ELSE Past
  PROVE  BucketInv(m, a, p, T)
<1>t. /\ T \in SUBSET Requests
      /\ l.tokens \in Int /\ l.event \in Int /\ b \in Int /\ m.tokens \in Int /\ m.event \in Int
      /\ Every \in Nat \ {0} /\ Full \in Nat /\ Every <= Full /\ MaxStall \in Nat
      /\ \A c \in T : /\ q[c].delay \in Int /\ q[c].delay >= -1 /\ q[c].stall \in Nat
                      /\ q[c].stall + 1 <= MaxStall
                      /\ q[c].pc \in {"reserved", "refused"}
  BY Sizes DEF BucketInv, TakenTypes, Past
<1>c. \A S \in SUBSET T : Cost(S) \in Nat
  BY <1>t, CostType
<1>p. \A c \in T : /\ p[c].delay \in Int /\ p[c].delay >= -1 /\ p[c].delay >= q[c].delay - 1
                   /\ p[c].delay >= 0 => p[c].delay = q[c].delay - 1
                   /\ p[c].stall \in Nat /\ p[c].stall > 0 /\ p[c].stall <= MaxStall
                   /\ p[c].pc = q[c].pc
  BY <1>t DEF Past
<1>w. \A c \in Waits(p, T) : /\ c \in T /\ c \in Waits(q, T)
                             /\ p[c].delay = q[c].delay - 1 /\ p[c].delay \in Nat
                             /\ q[c].delay \in Int
  <2> SUFFICES ASSUME NEW c \in Waits(p, T)
               PROVE  /\ c \in T /\ c \in Waits(q, T)
                      /\ p[c].delay = q[c].delay - 1 /\ p[c].delay \in Nat
                      /\ q[c].delay \in Int
    OBVIOUS
  <2>1. c \in T /\ p[c].delay >= 0
    BY DEF Waits
  <2>2. p[c].delay = q[c].delay - 1 /\ p[c].delay \in Nat /\ q[c].delay \in Int
    BY <1>t, <1>p, <2>1
  <2>3. q[c].delay > 0 /\ q[c].delay >= 0
    BY <2>1, <2>2
  <2> QED BY <2>1, <2>2, <2>3 DEF Waits
<1>1. TakenTypes(p, T)
  BY <1>t, <1>p DEF TakenTypes, Past
<1>2. WaitInv(m, p, T)
  <2> SUFFICES ASSUME NEW c \in Waits(p, T)
               PROVE  /\ m.event >= p[c].delay
                      /\ m.tokens + Cost(After(p, T, c)) <= -p[c].delay
                      /\ \A e \in Waits(p, T) :
                           e # c => \/ p[e].delay + Every <= p[c].delay
                                    \/ p[c].delay + Every <= p[e].delay
    BY DEF WaitInv
  <2>1. /\ c \in T /\ c \in Waits(q, T) /\ p[c].delay = q[c].delay - 1 /\ p[c].delay \in Nat
        /\ q[c].delay \in Int
    BY <1>w
  <2>2. l.tokens + Cost(After(q, T, c)) <= -q[c].delay /\ l.event >= q[c].delay
    BY <2>1 DEF BucketInv, WaitInv
  <2>3. After(p, T, c) \in SUBSET After(q, T, c) /\ After(q, T, c) \in SUBSET T
    <3>1. ASSUME NEW e \in After(p, T, c) PROVE e \in After(q, T, c)
      <4>1. e \in T /\ p[e].delay > p[c].delay
        BY DEF After
      <4>2. p[e].delay \in Int /\ q[e].delay \in Int /\ p[e].delay >= 0
        BY <1>t, <1>p, <2>1, <4>1
      <4>3. p[e].delay = q[e].delay - 1
        BY <1>p, <4>1, <4>2
      <4>4. q[e].delay > q[c].delay
        BY <2>1, <4>1, <4>2, <4>3
      <4> QED BY <4>1, <4>4 DEF After
    <3> QED BY <3>1, <1>t, Counted
  <2>4. /\ Cost(After(p, T, c)) <= Cost(After(q, T, c))
        /\ Cost(After(p, T, c)) \in Nat /\ Cost(After(q, T, c)) \in Nat
    BY <1>t, <1>c, <2>3, CostSubset
  <2>5. m.tokens + Cost(After(p, T, c)) <= -p[c].delay
    BY <1>t, <2>1, <2>2, <2>4
  <2>6. m.event >= p[c].delay
    BY <1>t, <2>1, <2>2
  <2>7. ASSUME NEW e \in Waits(p, T), e # c
        PROVE  p[e].delay + Every <= p[c].delay \/ p[c].delay + Every <= p[e].delay
    <3>1. e \in Waits(q, T) /\ p[e].delay = q[e].delay - 1 /\ q[e].delay \in Int
      BY <1>w
    <3>2. q[e].delay + Every <= q[c].delay \/ q[c].delay + Every <= q[e].delay
      BY <2>1, <2>7, <3>1 DEF BucketInv, WaitInv
    <3> QED BY <1>t, <2>1, <3>1, <3>2
  <2> QED BY <2>5, <2>6, <2>7
<1>3. RecentInv(m, p, T)
  <2> SUFFICES ASSUME NEW s \in Nat
               PROVE  m.tokens + Cost(Recent(p, T, s) \cup Waits(p, T)) <= Full + s
    BY DEF RecentInv
  <2>1. CASE s = 0
    <3>1. Recent(p, T, s) \cup Waits(p, T) = Waits(p, T)
      BY <1>p, <2>1 DEF Recent
    <3>2. CASE Waits(p, T) = {}
      <4>1. Cost(Recent(p, T, s) \cup Waits(p, T)) = 0
        BY <3>1, <3>2, CostEmpty
      <4> QED BY <1>t, <2>1, <4>1
    <3>3. CASE Waits(p, T) # {}
      <4>1. PICK c \in Waits(p, T) : \A e \in Waits(p, T) : p[c].delay <= p[e].delay
        <5> DEFINE W == Waits(p, T)
        <5>1. W # {} /\ \A e \in W : p[e].delay \in Nat
          BY <1>w, <3>3
        <5> HIDE DEF W
        <5>2. \E x \in W : \A e \in W : p[x].delay <= p[e].delay
          BY <5>1, FirstWaits
        <5> QED BY <5>2 DEF W
      <4>2. Waits(p, T) \in SUBSET (After(p, T, c) \cup {c})
        <5> SUFFICES ASSUME NEW e \in Waits(p, T), e # c PROVE e \in After(p, T, c)
          OBVIOUS
        <5>1. p[e].delay \in Nat /\ p[c].delay \in Nat /\ e \in T /\ p[c].delay <= p[e].delay
          BY <1>w, <4>1
        <5>2. p[e].delay + Every <= p[c].delay \/ p[c].delay + Every <= p[e].delay
          BY <1>2 DEF WaitInv
        <5>3. p[e].delay > p[c].delay
          BY <1>t, <5>1, <5>2
        <5> QED BY <5>1, <5>3 DEF After
      <4>3. After(p, T, c) \in SUBSET T /\ c \in T /\ p[c].delay \in Nat
        BY <1>t, <1>w, Counted
      <4>4. /\ Cost(Waits(p, T)) <= Cost(After(p, T, c)) + Every
            /\ Cost(After(p, T, c)) \in Nat /\ Cost(Waits(p, T)) \in Nat
        BY <1>t, <1>c, <4>2, <4>3, CostBut, Counted
      <4>5. m.tokens + Cost(After(p, T, c)) <= -p[c].delay
        BY <1>2 DEF WaitInv
      <4>6. m.tokens + Cost(Waits(p, T)) <= Full
        BY <1>t, <4>3, <4>4, <4>5
      <4> QED BY <1>t, <2>1, <3>1, <4>6
    <3> QED BY <3>2, <3>3
  <2>2. CASE s # 0
    <3> DEFINE n == s - 1
    <3> DEFINE A == Recent(q, T, n) \cup Waits(q, T)
    <3> DEFINE B == Recent(p, T, s) \cup Waits(p, T)
    <3>1. n \in Nat /\ s = n + 1
      BY <2>2
    <3> HIDE DEF n
    <3>2. B \in SUBSET A /\ A \in SUBSET T
      <4>1. Recent(p, T, s) \in SUBSET Recent(q, T, n)
        BY <1>t, <3>1 DEF Recent
      <4>2. Waits(p, T) \in SUBSET Waits(q, T)
        BY <1>w
      <4> QED BY <1>t, <4>1, <4>2, Counted
    <3>3. l.tokens + Cost(A) <= Full + n
      BY <3>1 DEF BucketInv, RecentInv
    <3> HIDE DEF A, B
    <3>4. Cost(B) <= Cost(A) /\ Cost(A) \in Nat /\ Cost(B) \in Nat
      BY <1>t, <1>c, <3>2, CostSubset
    <3>5. m.tokens + Cost(B) <= Full + s
      BY <1>t, <3>1, <3>3, <3>4
    <3> QED BY <3>5 DEF B
  <2> QED BY <2>1, <2>2
<1>4. ServedInv(p, T)
  <2> SUFFICES ASSUME NEW s \in Nat, NEW h \in Nat
               PROVE  Cost(Served(p, T, s, h)) <= Full + s + h
    BY DEF ServedInv
  <2>1. CASE s = 0
    <3>1. Served(p, T, s, h) = {}
      BY <1>p, <2>1 DEF Served
    <3>2. Cost(Served(p, T, s, h)) = 0
      BY <3>1, CostEmpty
    <3> QED BY <1>t, <2>1, <3>2
  <2>2. CASE s # 0
    <3> DEFINE n == s - 1
    <3> DEFINE g == h + 1
    <3>1. n \in Nat /\ s = n + 1 /\ g \in Nat /\ g = h + 1
      BY <2>2
    <3> HIDE DEF n, g
    <3>2. Served(p, T, s, h) \in SUBSET Served(q, T, n, g)
      <4>1. ASSUME NEW c \in Served(p, T, s, h) PROVE c \in Served(q, T, n, g)
        <5>1. c \in T /\ q[c].stall + 1 <= s /\ p[c].delay <= h /\ q[c].stall \in Nat
          BY <1>t DEF Served
        <5>2. q[c].stall <= n
          BY <3>1, <5>1
        <5>3. q[c].delay <= g
          BY <1>t, <1>p, <3>1, <5>1
        <5> QED BY <5>1, <5>2, <5>3 DEF Served
      <4> QED BY <4>1
    <3>3. Cost(Served(q, T, n, g)) <= Full + n + g
      BY <3>1 DEF BucketInv, ServedInv
    <3>4. /\ Cost(Served(p, T, s, h)) <= Cost(Served(q, T, n, g))
          /\ Cost(Served(p, T, s, h)) \in Nat /\ Cost(Served(q, T, n, g)) \in Nat
      BY <1>t, <1>c, <3>2, CostSubset, Counted
    <3> QED BY <1>t, <3>1, <3>3, <3>4
  <2> QED BY <2>1, <2>2
<1>5. CoverInv(m, a, p, T)
  <2>1. a >= m.tokens + Cost(T)
    <3>1. CASE a = b + 1
      <4>1. b >= l.tokens + Cost(T) /\ Cost(T) \in Nat
        BY <1>c DEF BucketInv, CoverInv
      <4> QED BY <1>t, <3>1, <4>1
    <3>2. CASE a = Allowance
      <4>1. Recent(p, T, MaxStall) \cup Waits(p, T) = T
        BY <1>p DEF Recent, Waits
      <4>2. m.tokens + Cost(T) <= Full + MaxStall
        BY <1>t, <1>3, <4>1 DEF RecentInv
      <4>3. Cost(T) \in Nat
        BY <1>c
      <4> QED BY <1>t, <3>2, <4>2, <4>3 DEF Allowance
    <3> QED BY <3>1, <3>2
  <2>2. ASSUME NEW h \in Nat PROVE a + h >= Cost(Due(p, T, h))
    <3>1. CASE a = b + 1
      <4> DEFINE g == h + 1
      <4>1. g \in Nat /\ g = h + 1
        OBVIOUS
      <4> HIDE DEF g
      <4>2. Due(p, T, h) \in SUBSET Due(q, T, g)
        <5>1. ASSUME NEW c \in Due(p, T, h) PROVE c \in Due(q, T, g)
          <6>1. c \in T /\ q[c].pc = "reserved" /\ p[c].delay <= h
            BY <1>p DEF Due
          <6>2. q[c].delay <= g
            BY <1>t, <1>p, <4>1, <6>1
          <6> QED BY <6>1, <6>2 DEF Due
        <5> QED BY <5>1
      <4>3. b + g >= Cost(Due(q, T, g))
        BY <4>1 DEF BucketInv, CoverInv
      <4>4. /\ Cost(Due(p, T, h)) <= Cost(Due(q, T, g))
            /\ Cost(Due(p, T, h)) \in Nat /\ Cost(Due(q, T, g)) \in Nat
        BY <1>t, <1>c, <4>2, CostSubset, Counted
      <4> QED BY <1>t, <3>1, <4>1, <4>3, <4>4
    <3>2. CASE a = Allowance
      <4>1. Due(p, T, h) \in SUBSET Served(p, T, MaxStall, h)
        BY <1>p DEF Due, Served
      <4>2. Cost(Served(p, T, MaxStall, h)) <= Full + MaxStall + h
        BY <1>t, <1>4 DEF ServedInv
      <4>3. /\ Cost(Due(p, T, h)) <= Cost(Served(p, T, MaxStall, h))
            /\ Cost(Due(p, T, h)) \in Nat /\ Cost(Served(p, T, MaxStall, h)) \in Nat
        BY <1>t, <1>c, <4>1, CostSubset, Counted
      <4> QED BY <1>t, <3>2, <4>2, <4>3 DEF Allowance
    <3> QED BY <3>1, <3>2
  <2> QED BY <2>1, <2>2 DEF CoverInv
<1> QED BY <1>1, <1>2, <1>3, <1>4, <1>5 DEF BucketInv

(* What the invariant says of one address and of one request.              *)
LEMMA OfKey ==
  ASSUME BudgetInv, NEW k \in Present
  PROVE  /\ k \in IPs
         /\ items[k] \in [lim : Nat, age : Nat] /\ items[k].lim \in Limiters
         /\ BucketInv(limiters[items[k].lim], budget[k], requests, Taken(k))
         /\ budget[k] \in Int /\ budget[k] >= 0 /\ budget[k] >= items[k].age - MaxStall
<1>1. /\ k \in IPs /\ items[k] \in [lim : Nat, age : Nat] /\ items[k].lim \in Limiters
      /\ budget[k] \in Int
  BY DEF Present, BudgetInv, ListInv, UseInv
<1>2. /\ BucketInv(limiters[items[k].lim], budget[k], requests, Taken(k))
      /\ budget[k] >= items[k].age - MaxStall
  BY <1>1 DEF BudgetInv, KeyInv
<1>3. /\ budget[k] + 0 >= Cost(Due(requests, Taken(k), 0))
      /\ Taken(k) \in SUBSET Requests
  BY <1>2 DEF BucketInv, CoverInv, TakenTypes
<1>4. Cost(Due(requests, Taken(k), 0)) \in Nat
  BY <1>3, Counted, CostType
<1> QED BY <1>1, <1>2, <1>3, <1>4

LEMMA OfRequest ==
  ASSUME BudgetInv, NEW r \in Active
  PROVE  /\ r \in Requests /\ requests[r].ip \in Present
         /\ requests[r] \in [pc : {"got", "reserved", "refused"}, ip : IPs, lim : Nat,
                             delay : Int, stall : Nat]
         /\ requests[r].lim = items[requests[r].ip].lim
         /\ requests[r].stall <= MaxStall /\ items[requests[r].ip].age <= requests[r].stall
<1>1. r \in Requests /\ requests[r].pc # "idle"
  BY DEF Active
<1>2. requests[r] \in [pc : {"idle"}] \cup [pc : {"got", "reserved", "refused"}, ip : IPs,
                                            lim : Nat, delay : Int, stall : Nat]
  BY <1>1 DEF BudgetInv, UseInv
<1> QED BY <1>1, <1>2 DEF BudgetInv, UseInv

(* A step of one request that keeps its address and limiter, or leaves,    *)
(* concerns no other address.                                              *)
LEMMA OneRequest ==
  ASSUME BudgetInv, NEW r \in Active, NEW k, k = requests[r].ip,
         NEW n, \/ n = [pc |-> "idle"]
                \/ /\ n \in [pc : {"reserved", "refused"}, ip : IPs, lim : Nat,
                             delay : Int, stall : Nat]
                   /\ n.ip = k /\ n.lim = requests[r].lim /\ n.stall = requests[r].stall,
         NEW m \in [tokens : Int, event : Int], NEW b \in Int, NEW N,
         N = IF n.pc = "idle" THEN Taken(k) \ {r} ELSE Taken(k) \cup {r},
         order' = order, items' = items,
         requests' = [requests EXCEPT ![r] = n],
         limiters' = [limiters EXCEPT ![items[k].lim] = m],
         budget' = [budget EXCEPT ![k] = b],
         BucketInv(m, b, requests', N)
  PROVE  BudgetInv'
<1>r. /\ r \in Requests /\ k \in Present /\ k \in IPs /\ requests[r].lim = items[k].lim
      /\ requests[r].stall <= MaxStall /\ items[k].age <= requests[r].stall
      /\ requests[r].stall \in Nat
  BY OfRequest, OfKey
<1>k. items[k].lim \in Limiters /\ items[k].age \in Nat
  BY <1>r, OfKey
<1>q. /\ requests'[r] = n
      /\ \A c \in Requests : c # r => requests'[c] = requests[c]
      /\ DOMAIN requests' = Requests
  BY <1>r DEF BudgetInv, UseInv
<1>a. /\ \A c \in Requests : c # r => (c \in Active' <=> c \in Active)
      /\ r \in Active' <=> n.pc # "idle"
      /\ Active' \subseteq Requests /\ Active \subseteq Requests
  BY <1>r, <1>q DEF Active
<1>p. Present' = Present
  BY DEF Present
<1>1. ListInv'
  BY <1>p DEF BudgetInv, ListInv, EachOnce, ByAge
<1>2. /\ limiters' \in [Limiters -> [tokens : Int, event : Int]]
      /\ budget' \in [IPs -> Int]
  BY <1>k, <1>r DEF BudgetInv
<1>3. UseInv'
  <2>1. requests' \in [Requests ->
          [pc : {"idle"}] \cup
          [pc : {"got", "reserved", "refused"}, ip : IPs, lim : Nat, delay : Int, stall : Nat]]
    <3>1. n \in [pc : {"idle"}] \cup
             [pc : {"got", "reserved", "refused"}, ip : IPs, lim : Nat, delay : Int, stall : Nat]
      OBVIOUS
    <3> QED BY <3>1 DEF BudgetInv, UseInv
  <2>2. ASSUME NEW c \in Active'
        PROVE  /\ requests'[c].ip \in Present
               /\ requests'[c].lim = items[requests'[c].ip].lim
               /\ items[requests'[c].ip].age <= requests'[c].stall
               /\ requests'[c].stall <= MaxStall
    <3>1. CASE c = r
      <4>1. n.ip = k /\ n.lim = requests[r].lim /\ n.stall = requests[r].stall
        BY <1>a, <3>1
      <4> QED BY <1>r, <1>q, <3>1, <4>1
    <3>2. CASE c # r
      <4>1. c \in Active /\ requests'[c] = requests[c]
        BY <1>a, <1>q, <3>2
      <4> QED BY <4>1, OfRequest
    <3> QED BY <3>1, <3>2
  <2>3. /\ \A j \in Present : items[j].lim \in Limiters
        /\ \A i, j \in Present : items[i].lim = items[j].lim => i = j
    BY DEF BudgetInv, UseInv
  <2> QED BY <1>p, <2>1, <2>2, <2>3 DEF UseInv
<1>4. ASSUME NEW j \in IPs PROVE KeyInv(j)'
  <2>1. CASE j = k
    <3>1. Taken(k)' = N
      <4>1. \A c \in Requests : c # r => (c \in Taken(k)' <=> c \in Taken(k))
        BY <1>a, <1>q DEF Taken
      <4>2. Taken(k)' \subseteq Requests /\ Taken(k) \subseteq Requests
        BY <1>a DEF Taken
      <4>3. r \in Taken(k)' <=> n.pc # "idle"
        BY <1>a, <1>q DEF Taken
      <4> QED BY <1>r, <4>1, <4>2, <4>3
    <3>2. limiters'[items[k].lim] = m /\ budget'[k] = b
      BY <1>k, <1>r DEF BudgetInv
    <3>3. BucketInv(limiters[items[k].lim], budget[k], requests, Taken(k))'
      BY <3>1, <3>2
    <3>4. b >= 0
      <4>1. b + 0 >= Cost(Due(requests', N, 0)) /\ N \in SUBSET Requests
        BY DEF BucketInv, CoverInv, TakenTypes
      <4>2. Cost(Due(requests', N, 0)) \in Nat
        BY <4>1, Counted, CostType
      <4> QED BY <4>1, <4>2
    <3>5. b >= items[k].age - MaxStall
      BY <1>r, <1>k, <3>4, Sizes
    <3>6. budget'[k] >= items'[k].age - MaxStall
      BY <3>2, <3>5
    <3> QED BY <1>r, <1>p, <2>1, <3>3, <3>6 DEF KeyInv
  <2>2. CASE j # k
    <3>1. budget'[j] = budget[j]
      BY <1>r, <2>2 DEF BudgetInv
    <3>2. CASE j \notin Present
      BY <1>p, <3>1, <3>2 DEF BudgetInv, KeyInv
    <3>3. CASE j \in Present
      <4>1. Taken(j)' = Taken(j) /\ r \notin Taken(j) /\ Taken(j) \subseteq Requests
        BY <1>a, <1>q, <1>r, <2>2 DEF Taken, Active
      <4>2. items[j].lim # items[k].lim /\ items[j].lim \in Limiters
        BY <1>r, <2>2, <3>3 DEF BudgetInv, UseInv
      <4>3. limiters'[items[j].lim] = limiters[items[j].lim]
        BY <1>k, <4>2 DEF BudgetInv
      <4>4. \A c \in Taken(j) : requests'[c] = requests[c]
        BY <1>q, <4>1
      <4>5. BucketInv(limiters[items[j].lim], budget[j], requests, Taken(j))
        BY <3>3, OfKey
      <4>6. BucketInv(limiters[items[j].lim], budget[j], requests', Taken(j))
        BY <4>4, <4>5, SameBucket
      <4>7. BucketInv(limiters[items[j].lim], budget[j], requests, Taken(j))'
        BY <3>1, <4>1, <4>3, <4>6
      <4>8. budget'[j] >= items'[j].age - MaxStall
        BY <3>1, <3>3, OfKey
      <4> QED BY <1>p, <3>3, <4>7, <4>8 DEF KeyInv
    <3> QED BY <3>2, <3>3
  <2> QED BY <2>1, <2>2
<1> QED BY <1>1, <1>2, <1>3, <1>4 DEF BudgetInv

LEMMA ReserveKeepsBudget ==
  ASSUME BudgetInv, NEW r \in Requests, Reserve(r)
  PROVE  BudgetInv'
<1> DEFINE k == requests[r].ip
<1> DEFINE l == limiters[items[k].lim]
<1> DEFINE left == l.tokens - Every
<1> DEFINE wait == IF left < 0 THEN -left ELSE 0
<1> DEFINE n == [requests[r] EXCEPT !.pc = "reserved", !.delay = wait]
<1> DEFINE m == [tokens |-> left, event |-> wait]
<1> DEFINE b == budget[k]
<1> DEFINE T == Taken(k)
<1> DEFINE p == [requests EXCEPT ![r] = n]
<1>1. requests[r].pc = "got" /\ r \in Active
  BY DEF Reserve, Active
<1>2. /\ requests[r] \in [pc : {"got", "reserved", "refused"}, ip : IPs, lim : Nat,
                          delay : Int, stall : Nat]
      /\ k \in Present /\ requests[r].lim = items[k].lim /\ requests[r].stall <= MaxStall
  BY <1>1, OfRequest
<1>3. BucketInv(l, b, requests, T) /\ b \in Int /\ k \in IPs
  BY <1>2, OfKey
<1>4. requests' = p /\ limiters' = [limiters EXCEPT ![items[k].lim] = m]
      /\ order' = order /\ items' = items /\ budget' = budget
  BY <1>2 DEF Reserve
<1>5. l.tokens \in Int /\ left \in Int /\ wait \in Int
  <2>1. l.tokens \in Int
    BY <1>3 DEF BucketInv
  <2> QED BY <2>1, Sizes
<1>6. /\ n \in [pc : {"reserved", "refused"}, ip : IPs, lim : Nat, delay : Int, stall : Nat]
      /\ n.ip = k /\ n.lim = requests[r].lim /\ n.stall = requests[r].stall
      /\ n.pc = "reserved" /\ n.delay = wait
  BY <1>2, <1>5
<1>7. r \notin T
  BY <1>1 DEF Taken
<1>8. p[r] = n /\ \A c \in T : p[c] = requests[c]
  BY <1>7 DEF BudgetInv, UseInv
<1>9. m \in [tokens : Int, event : Int]
  BY <1>5
<1>10. left = l.tokens - Every /\ wait = IF left < 0 THEN -left ELSE 0
  OBVIOUS
<1>12. m = [tokens |-> left, event |-> wait]
  OBVIOUS
<1>13. budget' = [budget EXCEPT ![k] = b]
  BY <1>3, <1>4 DEF BudgetInv
<1>14. k = requests[r].ip /\ l = limiters[items[k].lim] /\ T = Taken(k)
  OBVIOUS
<1> HIDE DEF b, n, m, p, l, left, wait, T, k
<1>11. BucketInv(m, b, p, T \cup {r})
  BY <1>2, <1>3, <1>6, <1>7, <1>8, <1>10, <1>12, ReserveBucket
<1>15. BucketInv(m, b, requests', T \cup {r})
  BY <1>4, <1>11
<1>16. requests' = [requests EXCEPT ![r] = n]
  BY <1>4 DEF p
<1>17. T \cup {r} = IF n.pc = "idle" THEN Taken(k) \ {r} ELSE Taken(k) \cup {r}
  BY <1>6, <1>14
<1>18. order' = order /\ items' = items
  BY <1>4
<1>19. \/ n = [pc |-> "idle"]
       \/ /\ n \in [pc : {"reserved", "refused"}, ip : IPs, lim : Nat, delay : Int, stall : Nat]
          /\ n.ip = k /\ n.lim = requests[r].lim /\ n.stall = requests[r].stall
  BY <1>6
<1>20. limiters' = [limiters EXCEPT ![items[k].lim] = m]
  BY <1>4
<1> QED BY <1>1, <1>3, <1>9, <1>13, <1>14, <1>15, <1>16, <1>17, <1>18, <1>19, <1>20, OneRequest

LEMMA AdmitKeepsBudget ==
  ASSUME BudgetInv, NEW r \in Requests, Admit(r)
  PROVE  BudgetInv'
<1> DEFINE k == requests[r].ip
<1> DEFINE l == limiters[items[k].lim]
<1> DEFINE n == [pc |-> "idle"]
<1> DEFINE T == Taken(k)
<1> DEFINE p == [requests EXCEPT ![r] = n]
<1> DEFINE b == budget[k] - Every
<1>1. requests[r].pc = "reserved" /\ requests[r].delay <= 0 /\ r \in Active /\ r \in T
  BY DEF Admit, Active, Taken
<1>2. k \in Present
  BY <1>1, OfRequest
<1>3. /\ BucketInv(l, budget[k], requests, T) /\ budget[k] \in Int /\ k \in IPs
      /\ items[k].lim \in Limiters
  BY <1>2, OfKey
<1>4. requests' = p /\ limiters' = limiters /\ order' = order /\ items' = items
      /\ budget' = [budget EXCEPT ![k] = b]
  BY <1>3 DEF Admit, BudgetInv
<1>5. l \in [tokens : Int, event : Int] /\ b \in Int
  BY <1>3, Sizes DEF BucketInv
<1>6. \A c \in T \ {r} : p[c] = requests[c]
  BY DEF BudgetInv, UseInv, Taken, Active
<1>7. limiters' = [limiters EXCEPT ![items[k].lim] = l]
  BY <1>3, <1>4 DEF BudgetInv
<1>8. k = requests[r].ip /\ T = Taken(k) /\ b = budget[k] - Every
      /\ n = [pc |-> "idle"]
  OBVIOUS
<1> HIDE DEF n, p, l, T, k, b
<1>9. BucketInv(l, b, p, T \ {r})
  BY <1>1, <1>3, <1>6, <1>8, AdmitBucket
<1>10. BucketInv(l, b, requests', T \ {r})
  BY <1>4, <1>9
<1>11. requests' = [requests EXCEPT ![r] = n]
  BY <1>4 DEF p
<1>12. T \ {r} = IF n.pc = "idle" THEN Taken(k) \ {r} ELSE Taken(k) \cup {r}
  BY <1>8
<1> QED BY <1>1, <1>4, <1>5, <1>7, <1>8, <1>10, <1>11, <1>12, OneRequest

LEMMA RefuseKeepsBudget ==
  ASSUME BudgetInv, NEW r \in Requests, Refuse(r)
  PROVE  BudgetInv'
<1> DEFINE k == requests[r].ip
<1> DEFINE l == limiters[items[k].lim]
<1> DEFINE n == [requests[r] EXCEPT !.pc = "refused"]
<1> DEFINE b == budget[k]
<1> DEFINE T == Taken(k)
<1> DEFINE p == [requests EXCEPT ![r] = n]
<1>1. requests[r].pc = "reserved" /\ requests[r].delay > 0 /\ r \in Active /\ r \in T
  BY DEF Refuse, Active, Taken
<1>2. /\ k \in Present
      /\ requests[r] \in [pc : {"got", "reserved", "refused"}, ip : IPs, lim : Nat,
                          delay : Int, stall : Nat]
  BY <1>1, OfRequest
<1>3. /\ BucketInv(l, b, requests, T) /\ b \in Int /\ k \in IPs
      /\ items[k].lim \in Limiters
  BY <1>2, OfKey
<1>4. requests' = p /\ limiters' = limiters /\ order' = order /\ items' = items
      /\ budget' = budget
  BY DEF Refuse
<1>5. l \in [tokens : Int, event : Int]
  BY <1>3 DEF BucketInv
<1>6. p[r] = n /\ \A c \in T \ {r} : p[c] = requests[c]
  BY DEF BudgetInv, UseInv, Taken, Active
<1>7. /\ n \in [pc : {"reserved", "refused"}, ip : IPs, lim : Nat, delay : Int, stall : Nat]
      /\ n.ip = k /\ n.lim = requests[r].lim /\ n.stall = requests[r].stall
      /\ n.pc = "refused" /\ n.delay = requests[r].delay
  BY <1>2
<1>8. /\ limiters' = [limiters EXCEPT ![items[k].lim] = l]
      /\ budget' = [budget EXCEPT ![k] = b]
  BY <1>3, <1>4 DEF BudgetInv
<1>9. k = requests[r].ip /\ T = Taken(k)
  OBVIOUS
<1> HIDE DEF b, n, p, l, T, k
<1>10. BucketInv(l, b, p, T)
  BY <1>1, <1>3, <1>6, <1>7, RefuseBucket
<1>11. BucketInv(l, b, requests', T)
  BY <1>4, <1>10
<1>12. requests' = [requests EXCEPT ![r] = n]
  BY <1>4 DEF p
<1>13. T = IF n.pc = "idle" THEN Taken(k) \ {r} ELSE Taken(k) \cup {r}
  BY <1>1, <1>7, <1>9
<1>18. order' = order /\ items' = items
  BY <1>4
<1>19. \/ n = [pc |-> "idle"]
       \/ /\ n \in [pc : {"reserved", "refused"}, ip : IPs, lim : Nat, delay : Int, stall : Nat]
          /\ n.ip = k /\ n.lim = requests[r].lim /\ n.stall = requests[r].stall
  BY <1>7
<1> QED BY <1>1, <1>3, <1>5, <1>8, <1>9, <1>11, <1>12, <1>13, <1>18, <1>19, OneRequest

LEMMA CancelKeepsBudget ==
  ASSUME BudgetInv, NEW r \in Requests, Cancel(r)
  PROVE  BudgetInv'
<1> DEFINE q == requests[r]
<1> DEFINE k == q.ip
<1> DEFINE l == limiters[items[k].lim]
<1> DEFINE back == restored(q)
<1> DEFINE n == [pc |-> "idle"]
<1> DEFINE b == budget[k]
<1> DEFINE T == Taken(k)
<1> DEFINE p == [requests EXCEPT ![r] = n]
<1> DEFINE m == IF back = 0 THEN l
                ELSE [tokens |-> Min({Full, l.tokens + back}),
                      event |-> IF q.delay = l.event /\ q.delay - Every >= 0
                                THEN q.delay - Every ELSE l.event]
<1>1. requests[r].pc = "refused" /\ r \in Active /\ r \in T
  BY DEF Cancel, Active, Taken
<1>2. k \in Present /\ q.lim = items[k].lim /\ q.delay \in Int
  BY <1>1, OfRequest
<1>3. /\ BucketInv(l, b, requests, T) /\ b \in Int /\ k \in IPs
      /\ items[k].lim \in Limiters
  BY <1>2, OfKey
<1>4. requests' = p /\ limiters' = [limiters EXCEPT ![items[k].lim] = m]
      /\ order' = order /\ items' = items /\ budget' = budget
  BY <1>2 DEF Cancel
<1>5. /\ l \in [tokens : Int, event : Int] /\ l.tokens \in Int /\ l.event \in Int
      /\ l.tokens <= Full /\ Full \in Int /\ Every \in Nat \ {0}
  BY <1>3, Sizes DEF BucketInv
<1>6. \A c \in T \ {r} : p[c] = requests[c]
  BY DEF BudgetInv, UseInv, Taken, Active
<1>7. /\ back \in Nat
      /\ back # 0 => q.delay >= 0 /\ back <= Every - (l.event - q.delay)
  <2> DEFINE g == Every - (l.event - q.delay)
  <2>1. g \in Int
    BY <1>2, <1>5
  <2>2. back = IF q.delay < 0 THEN 0 ELSE Max({0, g})
    BY <1>2 DEF restored
  <2> HIDE DEF g
  <2>3. Max({0, g}) = IF 0 <= g THEN g ELSE 0
    BY <2>1, MinMaxOfInts
  <2> HIDE DEF back
  <2>4. back \in Nat /\ (back # 0 => q.delay >= 0 /\ back <= g)
    BY <1>2, <2>1, <2>2, <2>3
  <2> QED BY <2>4 DEF g
<1> HIDE DEF back
<1>8. /\ m \in [tokens : Int, event : Int] /\ m.tokens <= Full /\ m.tokens <= l.tokens + back
      /\ m.event = l.event \/ (back # 0 /\ q.delay = l.event /\ m.event = q.delay - Every)
  <2>1. CASE back = 0
    <3>1. m = l
      BY <2>1
    <3> QED BY <1>5, <2>1, <3>1
  <2>2. CASE back # 0
    <3> DEFINE t == l.tokens + back
    <3>1. t \in Int
      BY <1>5, <1>7
    <3> HIDE DEF t
    <3>2. Min({Full, t}) = IF Full <= t THEN Full ELSE t
      BY <1>5, <3>1, MinMaxOfInts
    <3> DEFINE v == Min({Full, t})
    <3>3. v \in Int /\ v <= Full /\ v <= t
      BY <1>5, <3>1, <3>2
    <3> HIDE DEF v
    <3> DEFINE w == IF q.delay = l.event /\ q.delay - Every >= 0
                    THEN q.delay - Every ELSE l.event
    <3>4. w \in Int /\ (w = l.event \/ (q.delay = l.event /\ w = q.delay - Every))
      BY <1>2, <1>5
    <3>5. m = [tokens |-> v, event |-> w]
      BY <2>2 DEF v, t
    <3> HIDE DEF w, m
    <3>6. m.tokens = v /\ m.event = w /\ m \in [tokens : Int, event : Int]
      BY <3>3, <3>4, <3>5
    <3>7. v <= l.tokens + back
      BY <3>3 DEF t
    <3> QED BY <2>2, <3>3, <3>4, <3>6, <3>7
  <2> QED BY <2>1, <2>2
<1>9. q = requests[r] /\ k = requests[r].ip /\ T = Taken(k) /\ n = [pc |-> "idle"]
  OBVIOUS
<1>10. budget' = [budget EXCEPT ![k] = b]
  BY <1>3, <1>4 DEF BudgetInv
<1> HIDE DEF b, n, p, l, T, k, m, q
<1>15. /\ back # 0 => /\ requests[r].delay >= 0
                     /\ back <= Every - (l.event - requests[r].delay)
       /\ \/ m.event = l.event
          \/ /\ back # 0 /\ requests[r].delay = l.event
             /\ m.event = requests[r].delay - Every
  BY <1>7, <1>8, <1>9
<1>11. BucketInv(m, b, p, T \ {r})
  BY <1>1, <1>3, <1>6, <1>7, <1>8, <1>15, CancelBucket
<1>12. BucketInv(m, b, requests', T \ {r})
  BY <1>4, <1>11
<1>13. requests' = [requests EXCEPT ![r] = n]
  BY <1>4 DEF p
<1>14. T \ {r} = IF n.pc = "idle" THEN Taken(k) \ {r} ELSE Taken(k) \cup {r}
  BY <1>9
<1>18. order' = order /\ items' = items
  BY <1>4
<1>19. \/ n = [pc |-> "idle"]
       \/ /\ n \in [pc : {"reserved", "refused"}, ip : IPs, lim : Nat, delay : Int, stall : Nat]
          /\ n.ip = k /\ n.lim = requests[r].lim /\ n.stall = requests[r].stall
  BY <1>9
<1>20. limiters' = [limiters EXCEPT ![items[k].lim] = m]
  BY <1>4
<1> QED BY <1>1, <1>3, <1>20, <1>8, <1>9, <1>10, <1>12, <1>13, <1>14, <1>18, <1>19, OneRequest

(* The loop of GetOrSet keeps every item that has not expired.             *)
LEMMA FreshIsKept ==
  ASSUME ListInv, NEW k \in Present, items[k].age < ttl
  PROVE  k \in Range(dropExpired)
<1> DEFINE fresh == {i \in DOMAIN order : items[order[i]].age < ttl}
<1>1. order \in Seq(IPs) /\ Len(order) \in Nat /\ DOMAIN order = 1 .. Len(order)
  BY LenProperties DEF ListInv
<1>2. PICK i \in DOMAIN order : order[i] = k
  BY DEF ListInv, Range
<1>3. i \in fresh /\ fresh \in SUBSET Nat /\ fresh \in SUBSET (1 .. Len(order))
  BY <1>1, <1>2
<1>4. dropExpired = SubSeq(order, Min(fresh), Len(order))
  BY <1>3 DEF dropExpired
<1> HIDE DEF fresh
<1> DEFINE a == Min(fresh)
<1>5. a \in fresh /\ a <= i
  BY <1>3, MinOfNumbers
<1>6. a \in 1 .. Len(order) /\ a <= i /\ i \in 1 .. Len(order)
  BY <1>1, <1>2, <1>3, <1>5
<1>7. dropExpired = SubSeq(order, a, Len(order))
  BY <1>4
<1> HIDE DEF a
<1> DEFINE n == Len(order)
<1> DEFINE j == i - a + 1
<1>8. n \in Nat /\ j \in 1 .. n - a + 1 /\ a + j - 1 = i
  BY <1>1, <1>6
<1>9. /\ Len(dropExpired) = n - a + 1
      /\ DOMAIN dropExpired = 1 .. n - a + 1
      /\ dropExpired[j] = order[a + j - 1]
  <2>1. SubSeq(order, a, n) = [x \in 1 .. (n - a + 1) |-> order[a + x - 1]]
    BY <1>1, <1>6, <1>8
  <2> QED BY <1>1, <1>6, <1>7, <1>8, <2>1
<1> HIDE DEF j
<1> QED BY <1>2, <1>8, <1>9 DEF Range

(* A look-up: the key gets its limiter, or a new one if it had none or has *)
(* not used it for so long that it would be full.                          *)
LEMMA GetOrSetKeepsBudget ==
  ASSUME BudgetInv, MaxStall < ttl, NEW r \in Requests, NEW k \in IPs, GetOrSet(r, k)
  PROVE  BudgetInv'
<1> DEFINE kept == dropExpired
<1> DEFINE l == IF k \in Range(kept) THEN items[k].lim ELSE Min(Limiters \ InUse)
<1> DEFINE n == [pc |-> "got", ip |-> k, lim |-> l, delay |-> Past, stall |-> 0]
<1>1. /\ requests[r].pc = "idle"
      /\ items' = [x \in IPs |->
                     CASE x = k -> [lim |-> l, age |-> 0]
                       [] x # k /\ x \in Range(kept) -> items[x]
                       [] OTHER -> Absent]
      /\ limiters' = IF k \in Range(kept) THEN limiters
                     ELSE [limiters EXCEPT ![l] = NewLimiter]
      /\ requests' = [requests EXCEPT ![r] = n]
      /\ budget' = [x \in IPs |-> IF x \in Range(order) /\ items'[x].lim # items[x].lim
                                  THEN Min({Allowance, budget[x] + MaxStall})
                                  ELSE budget[x]]
  BY DEF GetOrSet
<1>b. ListInv /\ UseInv /\ limiters \in [Limiters -> [tokens : Int, event : Int]]
      /\ budget \in [IPs -> Int]
  BY DEF BudgetInv
<1>2. Range(kept) \subseteq Present /\ Range(order) = Present /\ Present \subseteq IPs
  BY <1>b, KeptIsSuffix DEF ListInv, Present
<1>3. \A x \in Present : x \notin Range(kept) => items[x].age >= ttl
  BY <1>b, FreshIsKept, ttlType DEF ListInv, Present
<1>l. /\ k \in Range(kept) => l = items[k].lim
      /\ k \notin Range(kept) => l \in Limiters \ InUse
  BY <1>1, SpareLimiter
<1>z. Limiters \subseteq Nat \ {NoLimiter}
  <2>1. Cardinality(IPs) + Cardinality(Requests) \in Nat
    BY RateLimitAssumption, FS_CardinalityType
  <2> QED BY <2>1 DEF Limiters, NoLimiter
<1>4. l \in Limiters /\ l # NoLimiter /\ l \in Nat
  BY <1>b, <1>l, <1>2, <1>z DEF UseInv
<1> HIDE DEF kept, l
<1>5. /\ items'[k] = [lim |-> l, age |-> 0]
      /\ \A x \in Range(kept) : x # k => items'[x] = items[x]
      /\ \A x \in IPs : x # k /\ x \notin Range(kept) => items'[x] = Absent
  BY <1>1, <1>2
<1>6. /\ requests'[r] = n
      /\ \A c \in Requests : c # r => requests'[c] = requests[c]
  BY <1>1, <1>b DEF UseInv
<1>n. /\ n.pc = "got" /\ n.ip = k /\ n.lim = l /\ n.stall = 0
      /\ n \in [pc : {"idle"}] \cup
            [pc : {"got", "reserved", "refused"}, ip : IPs, lim : Nat, delay : Int, stall : Nat]
  BY <1>4 DEF Past
<1> HIDE DEF n
<1>7. /\ r \notin Active /\ Active \subseteq Requests
      /\ Active' = Active \cup {r}
  BY <1>1, <1>6, <1>n DEF Active
<1>8. \A c \in Active : /\ requests[c].ip \in Range(kept) /\ c # r /\ requests'[c] = requests[c]
  <2> SUFFICES ASSUME NEW c \in Active
               PROVE  requests[c].ip \in Range(kept) /\ c # r /\ requests'[c] = requests[c]
    OBVIOUS
  <2>1. /\ c \in Requests /\ requests[c].ip \in Present /\ requests[c].stall \in Nat
        /\ requests[c].stall <= MaxStall /\ items[requests[c].ip].age <= requests[c].stall
        /\ items[requests[c].ip].age \in Nat
    BY OfRequest, OfKey
  <2>2. ~(items[requests[c].ip].age >= ttl)
    BY <2>1, ttlType, Sizes
  <2> QED BY <1>3, <1>6, <1>7, <2>1, <2>2
<1>9. /\ Present' = Range(kept) \cup {k}
  <2>1. ASSUME NEW x \in IPs PROVE x \in Range(kept) \cup {k} <=> items'[x].lim # NoLimiter
    <3>1. CASE x = k
      BY <1>4, <1>5, <3>1
    <3>2. CASE x # k /\ x \in Range(kept)
      BY <1>2, <1>5, <3>2 DEF Present
    <3>3. CASE x # k /\ x \notin Range(kept)
      BY <1>5, <3>3 DEF Absent
    <3> QED BY <3>1, <3>2, <3>3
  <2> QED BY <1>2, <2>1 DEF Present
<1>10. ASSUME NEW x \in IPs PROVE Taken(x)' = Taken(x) /\ \A c \in Taken(x) : requests'[c] = requests[c]
  BY <1>6, <1>7, <1>8, <1>n DEF Taken
<1>11. ASSUME NEW x \in IPs, x \notin Range(kept) PROVE Taken(x) = {}
  BY <1>8, <1>11 DEF Taken
<1>12. ASSUME NEW x \in Present, x \notin Range(kept)
       PROVE  budget'[x] \in Int /\ budget'[x] >= Full
  <2>1. /\ x \in IPs /\ items[x].age >= Full /\ items[x].age \in Nat /\ items[x].lim \in Limiters
        /\ budget[x] \in Int /\ budget[x] >= items[x].age - MaxStall
    BY <1>3, <1>12, OfKey, Sizes
  <2>2. items'[x].lim # items[x].lim
    <3>1. CASE x = k
      <4>1. l \notin InUse /\ items[x].lim \in InUse
        BY <1>l, <1>12, <2>1, <3>1 DEF InUse
      <4> QED BY <1>5, <3>1, <4>1
    <3>2. CASE x # k
      <4>1. items'[x] = Absent
        BY <1>5, <1>12, <2>1, <3>2
      <4>2. items'[x].lim = NoLimiter
        BY <4>1 DEF Absent
      <4>3. items[x].lim # NoLimiter
        BY <1>z, <2>1
      <4> QED BY <4>2, <4>3
    <3> QED BY <3>1, <3>2
  <2>3. budget'[x] = Min({Allowance, budget[x] + MaxStall})
    BY <1>1, <1>2, <2>1, <2>2
  <2> DEFINE v == budget[x] + MaxStall
  <2>4. v \in Int /\ v >= Full /\ Allowance \in Int /\ Allowance >= Full
    BY <2>1, Sizes DEF Allowance
  <2> HIDE DEF v
  <2>5. Min({Allowance, v}) = IF Allowance <= v THEN Allowance ELSE v
    BY <2>4, MinMaxOfInts
  <2>6. Min({Allowance, v}) \in Int /\ Min({Allowance, v}) >= Full
    BY <2>4, <2>5
  <2> QED BY <2>3, <2>6 DEF v
<1>13. ASSUME NEW x \in IPs, x \notin Present
       PROVE  budget'[x] \in Int /\ budget'[x] >= Full
  <2>1. budget'[x] = budget[x]
    BY <1>1, <1>2, <1>13
  <2> QED BY <1>b, <1>13, <2>1 DEF BudgetInv, KeyInv
<1>14. ASSUME NEW x \in Range(kept)
       PROVE  /\ items'[x].lim = items[x].lim /\ budget'[x] = budget[x]
              /\ items'[x].age <= items[x].age /\ items'[x].age \in Nat
  <2>1. x \in Present /\ x \in IPs /\ items[x].age \in Nat
    BY <1>2, OfKey
  <2>2. items'[x].lim = items[x].lim /\ items'[x].age <= items[x].age /\ items'[x].age \in Nat
    <3>1. CASE x = k
      BY <1>5, <1>l, <2>1, <3>1
    <3>2. CASE x # k
      BY <1>5, <2>1, <3>2
    <3> QED BY <3>1, <3>2
  <2> QED BY <1>1, <2>1, <2>2
<1>15. limiters' \in [Limiters -> [tokens : Int, event : Int]]
  <2>1. NewLimiter \in [tokens : Int, event : Int]
    BY Sizes DEF NewLimiter, Past
  <2>2. CASE k \in Range(kept)
    BY <1>1, <1>b, <2>2
  <2>3. CASE k \notin Range(kept)
    BY <1>1, <1>b, <1>4, <2>1, <2>3
  <2> QED BY <2>2, <2>3
<1>16. ASSUME NEW x \in Range(kept) PROVE limiters'[items[x].lim] = limiters[items[x].lim]
  <2>1. CASE k \in Range(kept)
    BY <1>1, <2>1
  <2>2. CASE k \notin Range(kept)
    <3>1. items[x].lim \in InUse /\ l \notin InUse
      BY <1>2, <1>l, <2>2 DEF InUse
    <3>2. items[x].lim \in Limiters
      BY <1>2, OfKey
    <3> QED BY <1>1, <1>b, <2>2, <3>1, <3>2
  <2> QED BY <2>1, <2>2
<1>17. UseInv'
  <2>1. requests' \in [Requests ->
          [pc : {"idle"}] \cup
          [pc : {"got", "reserved", "refused"}, ip : IPs, lim : Nat, delay : Int, stall : Nat]]
    BY <1>1, <1>b, <1>n DEF UseInv
  <2>2. ASSUME NEW c \in Active'
        PROVE  /\ requests'[c].ip \in Range(kept) \cup {k}
               /\ requests'[c].lim = items'[requests'[c].ip].lim
               /\ items'[requests'[c].ip].age <= requests'[c].stall
               /\ requests'[c].stall <= MaxStall
    <3>1. CASE c = r
      BY <1>5, <1>6, <1>n, <3>1, Sizes
    <3>2. CASE c # r
      <4>1. c \in Active /\ requests'[c] = requests[c] /\ requests[c].ip \in Range(kept)
        BY <1>7, <1>8, <3>2
      <4> DEFINE x == requests[c].ip
      <4>2. /\ requests[c].lim = items[x].lim /\ items[x].age <= requests[c].stall
            /\ requests[c].stall <= MaxStall /\ items[x].age \in Nat /\ requests[c].stall \in Nat
        BY <4>1, OfRequest, OfKey
      <4>3. /\ items'[x].lim = items[x].lim
            /\ items'[x].age <= items[x].age /\ items'[x].age \in Nat
        BY <1>14, <4>1
      <4>5. requests'[c].ip = x /\ requests'[c].stall = requests[c].stall
            /\ requests'[c].lim = requests[c].lim /\ x \in Range(kept)
        BY <4>1
      <4> HIDE DEF x
      <4> DEFINE g == items'[x].age
      <4>6. g <= items[x].age /\ g \in Nat
        BY <4>3
      <4> HIDE DEF g
      <4>7. g <= requests[c].stall
        BY <4>2, <4>6
      <4>8. items'[x].age <= requests[c].stall
        BY <4>7 DEF g
      <4> QED BY <4>2, <4>3, <4>5, <4>8
    <3> QED BY <3>1, <3>2
  <2>3. ASSUME NEW x \in Range(kept) \cup {k} PROVE items'[x].lim \in Limiters
    <3>1. CASE x = k
      BY <1>4, <1>5, <3>1
    <3>2. CASE x # k
      BY <1>2, <1>14, <3>2, OfKey
    <3> QED BY <3>1, <3>2
  <2>4. ASSUME NEW x \in Range(kept) \cup {k}, NEW y \in Range(kept) \cup {k},
               items'[x].lim = items'[y].lim
        PROVE  x = y
    <3>1. CASE x \in Range(kept) /\ y \in Range(kept)
      BY <1>2, <1>14, <1>b, <2>4, <3>1 DEF UseInv
    <3>2. ASSUME NEW z \in Range(kept), k \notin Range(kept) PROVE items'[z].lim # items'[k].lim
      <4>1. items[z].lim \in InUse /\ l \notin InUse
        BY <1>2, <1>l, <3>2 DEF InUse
      <4> QED BY <1>5, <1>14, <4>1
    <3> QED BY <2>4, <3>1, <3>2
  <2> QED BY <1>9, <2>1, <2>2, <2>3, <2>4 DEF UseInv
<1>18. ASSUME NEW x \in IPs PROVE KeyInv(x)' /\ budget'[x] \in Int
  <2>1. CASE x \in Range(kept)
    <3>1. /\ BucketInv(limiters[items[x].lim], budget[x], requests, Taken(x))
          /\ budget[x] \in Int /\ budget[x] >= items[x].age - MaxStall /\ items[x].age \in Nat
      BY <1>2, <2>1, OfKey
    <3>2. BucketInv(limiters[items[x].lim], budget[x], requests', Taken(x))
      BY <1>10, <3>1, SameBucket
    <3>3. BucketInv(limiters[items[x].lim], budget[x], requests, Taken(x))'
      BY <1>10, <1>14, <1>16, <2>1, <3>2
    <3> DEFINE g == items'[x].age
    <3>4. g <= items[x].age /\ g \in Nat
      BY <1>14, <2>1
    <3> HIDE DEF g
    <3>5. budget[x] >= g - MaxStall
      BY <3>1, <3>4, Sizes
    <3>6. budget'[x] >= items'[x].age - MaxStall /\ budget'[x] \in Int
      BY <1>14, <2>1, <3>1, <3>5 DEF g
    <3> QED BY <1>9, <2>1, <3>3, <3>6 DEF KeyInv
  <2>2. CASE x \notin Range(kept)
    <3>1. budget'[x] \in Int /\ budget'[x] >= Full
      BY <1>12, <1>13, <2>2
    <3>2. CASE x # k
      <4>1. x \notin Present'
        BY <1>9, <2>2, <3>2
      <4> QED BY <3>1, <4>1 DEF KeyInv
    <3>3. CASE x = k
      <4>1. items'[x].lim = l /\ items'[x].age = 0 /\ limiters'[l] = NewLimiter
        BY <1>1, <1>4, <1>5, <1>b, <2>2, <3>3
      <4>2. Taken(x)' = {}
        BY <1>10, <1>11, <2>2
      <4> DEFINE v == budget'[x]
      <4>3. v \in Int /\ v >= Full
        BY <3>1
      <4> HIDE DEF v
      <4>4. BucketInv(NewLimiter, v, requests', {})
        BY <4>3, NewBucket
      <4>5. BucketInv(limiters[items[x].lim], budget[x], requests, Taken(x))'
        BY <4>1, <4>2, <4>4 DEF v
      <4>6. v >= 0 - MaxStall
        BY <4>3, Sizes
      <4>7. budget'[x] >= items'[x].age - MaxStall
        BY <4>1, <4>6 DEF v
      <4> QED BY <1>9, <3>1, <3>3, <4>5, <4>7 DEF KeyInv
    <3> QED BY <3>2, <3>3
  <2> QED BY <2>1, <2>2
<1>19. ListInv'
  BY <1>b, GetOrSetKeepsList
<1>20. budget' \in [IPs -> Int]
  BY <1>1, <1>18
<1> QED BY <1>15, <1>17, <1>18, <1>19, <1>20 DEF BudgetInv

(* Time passes for all limiters, requests and budgets alike.               *)
LEMMA TickKeepsBudget ==
  ASSUME BudgetInv, Tick
  PROVE  BudgetInv'
<1>b. /\ ListInv /\ UseInv /\ limiters \in [Limiters -> [tokens : Int, event : Int]]
      /\ budget \in [IPs -> Int] /\ items \in [IPs -> [lim : Nat, age : Nat]]
  BY DEF BudgetInv, ListInv
<1>s. /\ Full \in Int /\ Allowance \in Int /\ MaxStall \in Nat /\ Past = -1
      /\ Allowance = Full + MaxStall /\ ttl = Full /\ Full \in Nat
  BY Sizes DEF Allowance, Past
<1>i. items' = [k \in IPs |-> IF items[k] = Absent THEN Absent
                              ELSE [items[k] EXCEPT !.age = Min({ttl, @ + 1})]]
  BY Zenon DEF Tick
<1>l. limiters' = [l \in Limiters |->
                     [tokens |-> Min({Full, limiters[l].tokens + 1}),
                      event |-> Max({Past, limiters[l].event - 1})]]
  BY Zenon DEF Tick
<1> DEFINE aged(q) == [q EXCEPT !.stall = @ + 1, !.delay = Max({Past, @ - 1})]
<1>r. requests' = [r \in Requests |-> IF r \in Active THEN aged(requests[r]) ELSE requests[r]]
  BY Zenon DEF Tick
<1> HIDE DEF aged
<1>g. budget' = [k \in IPs |-> Min({Allowance, budget[k] + 1})]
  BY Zenon DEF Tick
<1>e. \A r \in Active : requests[r].stall < MaxStall
  BY Zenon DEF Tick
<1>1. ASSUME NEW k \in Present
      PROVE  /\ items'[k].lim = items[k].lim
             /\ items'[k].age \in Nat /\ items'[k].age <= items[k].age + 1
             /\ items'[k].age <= ttl
  <2>1. k \in IPs /\ items[k] \in [lim : Nat, age : Nat] /\ items[k] # Absent
    BY <1>b DEF Present, Absent
  <2> DEFINE n == items[k].age + 1
  <2> DEFINE v == Min({ttl, n})
  <2>2. n \in Nat
    BY <2>1
  <2>3. items'[k] = [items[k] EXCEPT !.age = v]
    BY <1>i, <2>1
  <2> HIDE DEF n
  <2>4. v = IF ttl <= n THEN ttl ELSE n
    BY <2>2, ttlType, MinOfTwo
  <2> HIDE DEF v
  <2>5. v \in Nat /\ v <= n /\ v <= ttl
    BY <2>2, <2>4, ttlType
  <2>6. items'[k].lim = items[k].lim /\ items'[k].age = v
    BY <2>1, <2>3
  <2> QED BY <2>5, <2>6 DEF n
<1>2. Present' = Present
  <2>1. ASSUME NEW k \in IPs, k \notin Present PROVE items'[k].lim = NoLimiter
    <3>1. items[k] = Absent
      BY <1>b, <2>1 DEF Present, ListInv
    <3>2. items'[k] = Absent
      BY <1>i, <3>1
    <3> QED BY <3>2 DEF Absent
  <2> QED BY <1>1, <2>1 DEF Present
<1>3. ASSUME NEW l \in Limiters
      PROVE  /\ limiters'[l] \in [tokens : Int, event : Int]
             /\ limiters'[l].tokens <= Full /\ limiters'[l].tokens <= limiters[l].tokens + 1
             /\ limiters'[l].event >= limiters[l].event - 1
  <2>1. limiters[l].tokens \in Int /\ limiters[l].event \in Int
    BY <1>b
  <2> DEFINE t == limiters[l].tokens + 1
  <2> DEFINE e == limiters[l].event - 1
  <2> DEFINE v == Min({Full, t})
  <2> DEFINE w == Max({Past, e})
  <2>2. t \in Int /\ e \in Int /\ Past \in Int
    BY <1>s, <2>1
  <2>3. limiters'[l] = [tokens |-> v, event |-> w]
    BY <1>l
  <2> HIDE DEF t, e
  <2>4. v = (IF Full <= t THEN Full ELSE t) /\ w = (IF Past <= e THEN e ELSE Past)
    BY <1>s, <2>2, MinMaxOfInts
  <2> HIDE DEF v, w
  <2>5. v \in Int /\ w \in Int /\ v <= Full /\ v <= t /\ w >= e
    BY <1>s, <2>2, <2>4
  <2>6. limiters'[l].tokens = v /\ limiters'[l].event = w
        /\ limiters'[l] \in [tokens : Int, event : Int]
    BY <2>3, <2>5
  <2> QED BY <2>5, <2>6 DEF t, e
<1>4. ASSUME NEW r \in Active
      PROVE  /\ requests'[r] \in [pc : {"got", "reserved", "refused"}, ip : IPs, lim : Nat,
                                  delay : Int, stall : Nat]
             /\ requests'[r].pc = requests[r].pc /\ requests'[r].ip = requests[r].ip
             /\ requests'[r].lim = requests[r].lim
             /\ requests'[r].stall = requests[r].stall + 1
             /\ requests[r].delay >= Past =>
                  requests'[r].delay = IF requests[r].delay >= 0 THEN requests[r].delay - 1
                                       ELSE Past
  <2>1. /\ r \in Requests
        /\ requests[r] \in [pc : {"got", "reserved", "refused"}, ip : IPs, lim : Nat,
                            delay : Int, stall : Nat]
    BY OfRequest
  <2> DEFINE d == requests[r].delay - 1
  <2> DEFINE w == Max({Past, d})
  <2> DEFINE n == requests[r].stall + 1
  <2>2. d \in Int /\ Past \in Int /\ n \in Nat
    BY <1>s, <2>1
  <2>3. requests'[r] = [requests[r] EXCEPT !.stall = n, !.delay = w]
    <3>1. requests'[r] = aged(requests[r])
      BY <1>r, <2>1
    <3>2. aged(requests[r]) = [requests[r] EXCEPT !.stall = n, !.delay = w]
      BY Zenon DEF aged
    <3> QED BY <3>1, <3>2
  <2> HIDE DEF d, n
  <2>4. w = IF Past <= d THEN d ELSE Past
    BY <2>2, MinMaxOfInts
  <2> HIDE DEF w
  <2>5. w \in Int
    BY <2>2, <2>4
  <2>6. /\ requests'[r] \in [pc : {"got", "reserved", "refused"}, ip : IPs, lim : Nat,
                             delay : Int, stall : Nat]
        /\ requests'[r].pc = requests[r].pc /\ requests'[r].ip = requests[r].ip
        /\ requests'[r].lim = requests[r].lim
        /\ requests'[r].stall = n /\ requests'[r].delay = w
    BY <2>1, <2>2, <2>3, <2>5
  <2>7. requests[r].delay >= Past =>
          w = IF requests[r].delay >= 0 THEN requests[r].delay - 1 ELSE Past
    BY <1>s, <2>1, <2>4 DEF d
  <2> QED BY <2>6, <2>7 DEF n
<1>5. \A r \in Requests : r \notin Active => requests'[r] = requests[r]
  BY <1>r
<1>6. Active' = Active /\ Active \subseteq Requests
  BY <1>4, <1>5 DEF Active
<1>7. \A k : Taken(k)' = Taken(k) /\ Taken(k) \subseteq Active
  BY <1>4, <1>6 DEF Taken
<1>8. UseInv'
  <2>1. requests' \in [Requests ->
          [pc : {"idle"}] \cup
          [pc : {"got", "reserved", "refused"}, ip : IPs, lim : Nat, delay : Int, stall : Nat]]
    <3>1. ASSUME NEW r \in Requests
          PROVE  requests'[r] \in [pc : {"idle"}] \cup
                   [pc : {"got", "reserved", "refused"}, ip : IPs, lim : Nat, delay : Int,
                    stall : Nat]
      BY <1>4, <1>5, <1>b DEF UseInv
    <3> QED BY <1>r, <3>1
  <2>2. ASSUME NEW r \in Active
        PROVE  /\ requests'[r].ip \in Present
               /\ requests'[r].lim = items'[requests'[r].ip].lim
               /\ items'[requests'[r].ip].age <= requests'[r].stall
               /\ requests'[r].stall <= MaxStall
    <3> DEFINE x == requests[r].ip
    <3>1. /\ x \in Present /\ requests[r].lim = items[x].lim
          /\ items[x].age <= requests[r].stall /\ requests[r].stall \in Nat
          /\ requests[r].stall < MaxStall /\ items[x].age \in Nat
      BY <1>e, OfRequest, OfKey
    <3>2. requests'[r].ip = x
      BY <1>4
    <3> HIDE DEF x
    <3> DEFINE g == items'[x].age
    <3> DEFINE n == requests'[r].stall
    <3>3. g \in Nat /\ g <= items[x].age + 1 /\ n = requests[r].stall + 1
      BY <1>1, <1>4, <3>1
    <3> HIDE DEF g, n
    <3>4. g <= n /\ n <= MaxStall
      BY <1>s, <3>1, <3>3
    <3>5. requests'[r].lim = items'[x].lim
      BY <1>1, <1>4, <3>1
    <3> QED BY <3>1, <3>2, <3>4, <3>5 DEF g, n
  <2>3. /\ \A k \in Present : items'[k].lim \in Limiters
        /\ \A j, k \in Present : items'[j].lim = items'[k].lim => j = k
    BY <1>1, <1>b DEF UseInv
  <2> QED BY <1>2, <1>6, <2>1, <2>2, <2>3 DEF UseInv
<1>9. ASSUME NEW k \in IPs
      PROVE  /\ budget'[k] \in Int
             /\ budget'[k] = budget[k] + 1 \/ budget'[k] = Allowance
             /\ budget[k] + 1 >= budget'[k]
  <2> DEFINE n == budget[k] + 1
  <2>1. n \in Int
    BY <1>b
  <2>2. budget'[k] = Min({Allowance, n})
    BY <1>g
  <2> HIDE DEF n
  <2>3. Min({Allowance, n}) = IF Allowance <= n THEN Allowance ELSE n
    BY <1>s, <2>1, MinMaxOfInts
  <2>4. /\ Min({Allowance, n}) \in Int
        /\ Min({Allowance, n}) = n \/ Min({Allowance, n}) = Allowance
        /\ n >= Min({Allowance, n})
    BY <1>s, <2>1, <2>3
  <2> QED BY <2>2, <2>4 DEF n
<1>10. ASSUME NEW k \in IPs PROVE KeyInv(k)'
  <2> DEFINE a == budget'[k]
  <2>a. a \in Int /\ (a = budget[k] + 1 \/ a = Allowance)
    BY <1>9, <1>b, <1>s
  <2>1. CASE k \notin Present
    <3>1. budget[k] >= Full /\ budget[k] \in Int
      BY <1>b, <2>1 DEF BudgetInv, KeyInv
    <3> HIDE DEF a
    <3>2. a >= Full
      BY <1>s, <2>a, <3>1
    <3>3. budget'[k] >= Full
      BY <3>2 DEF a
    <3> QED BY <1>2, <2>1, <3>3 DEF KeyInv
  <2>2. CASE k \in Present
    <3> DEFINE l == limiters[items[k].lim]
    <3> DEFINE m == limiters'[items[k].lim]
    <3> DEFINE p == requests'
    <3> DEFINE T == Taken(k)
    <3> DEFINE b == budget[k]
    <3>1. /\ BucketInv(l, b, requests, T) /\ items[k].lim \in Limiters
          /\ b \in Int /\ b >= items[k].age - MaxStall /\ items[k].age \in Nat
      BY <2>2, OfKey
    <3>2. /\ m \in [tokens : Int, event : Int] /\ m.tokens <= Full
          /\ m.tokens <= l.tokens + 1 /\ m.event >= l.event - 1
      BY <1>3, <3>1
    <3>3. \A c \in T : c \in Active /\ requests[c].delay >= Past
      BY <1>7, <3>1 DEF BucketInv, TakenTypes
    <3>4. /\ \A c \in T : /\ p[c].pc = requests[c].pc
                          /\ p[c].stall = requests[c].stall + 1
                          /\ p[c].delay = IF requests[c].delay >= 0
                                          THEN requests[c].delay - 1 ELSE Past
          /\ \A c \in T : requests[c].stall < MaxStall
      BY <1>4, <1>e, <3>3
    <3> DEFINE g == items'[k].age
    <3>5. g \in Nat /\ g <= items[k].age + 1 /\ g <= ttl
      BY <1>1, <2>2
    <3>9. a = b + 1 \/ a = Allowance
      BY <2>a
    <3> HIDE DEF a, l, m, p, T, b, g
    <3>6. BucketInv(m, a, p, T)
      BY <2>a, <3>1, <3>2, <3>4, <3>9, TickBucket
    <3>7. a >= g - MaxStall
      BY <1>s, <2>a, <3>1, <3>5, <3>9
    <3>8. BucketInv(limiters[items[k].lim], budget[k], requests, Taken(k))'
      <4>1. items'[k].lim = items[k].lim /\ Taken(k)' = Taken(k)
        BY <1>1, <1>7, <2>2
      <4> QED BY <3>6, <4>1 DEF m, a, p, T
    <3>10. budget'[k] >= items'[k].age - MaxStall
      BY <3>7 DEF a, g
    <3> QED BY <1>2, <2>2, <3>8, <3>10 DEF KeyInv
  <2> QED BY <2>1, <2>2
<1>11. /\ limiters' \in [Limiters -> [tokens : Int, event : Int]]
       /\ budget' \in [IPs -> Int]
  <2>1. \A k \in IPs : budget'[k] \in Int
    BY <1>9, <1>b, <1>s
  <2> QED BY <1>3, <1>l, <1>g, <2>1
<1>12. ListInv'
  BY <1>b, TickKeepsList
<1> QED BY <1>8, <1>10, <1>11, <1>12 DEF BudgetInv

LEMMA BudgetInvInit == RateInit => BudgetInv
<1> SUFFICES ASSUME RateInit PROVE BudgetInv
  OBVIOUS
<1>1. /\ items = [k \in IPs |-> Absent] /\ limiters = [l \in Limiters |-> NewLimiter]
      /\ requests = [r \in Requests |-> [pc |-> "idle"]] /\ budget = [k \in IPs |-> Allowance]
  BY DEF RateInit
<1>2. Present = {} /\ Active = {}
  BY <1>1 DEF Present, Active, Absent
<1>3. NewLimiter \in [tokens : Int, event : Int] /\ Allowance \in Int /\ Allowance >= Full
  BY Sizes DEF NewLimiter, Past, Allowance
<1>4. UseInv
  BY <1>1, <1>2 DEF UseInv
<1>5. \A k \in IPs : KeyInv(k)
  BY <1>1, <1>2, <1>3 DEF KeyInv
<1> QED BY <1>1, <1>3, <1>4, <1>5, ListInvInit DEF BudgetInv

LEMMA BudgetInvStep ==
  ASSUME MaxStall < ttl
  PROVE  BudgetInv /\ [RateNext]_rateVars => BudgetInv'
<1> SUFFICES ASSUME BudgetInv, [RateNext]_rateVars PROVE BudgetInv'
  OBVIOUS
<1>1. CASE UNCHANGED rateVars
  <2>1. /\ order' = order /\ items' = items /\ limiters' = limiters
        /\ requests' = requests /\ budget' = budget
    BY <1>1 DEF rateVars
  <2>2. Present' = Present /\ Active' = Active /\ \A k : Taken(k)' = Taken(k)
    BY <2>1 DEF Present, Active, Taken
  <2>3. ListInv'
    BY <2>1, ListInvStep DEF BudgetInv, rateVars
  <2>4. UseInv'
    BY <2>1, <2>2 DEF BudgetInv, UseInv
  <2>5. \A k \in IPs : KeyInv(k)'
    BY <2>1, <2>2 DEF BudgetInv, KeyInv
  <2> QED BY <2>1, <2>3, <2>4, <2>5 DEF BudgetInv
<1>2. CASE Tick
  BY <1>2, TickKeepsBudget
<1>3. ASSUME NEW r \in Requests, Handle(r) PROVE BudgetInv'
  <2>1. ASSUME NEW k \in IPs, GetOrSet(r, k) PROVE BudgetInv'
    BY <2>1, GetOrSetKeepsBudget
  <2> QED BY <1>3, <2>1, ReserveKeepsBudget, AdmitKeepsBudget, RefuseKeepsBudget,
             CancelKeepsBudget DEF Handle
<1> QED BY <1>1, <1>2, <1>3 DEF RateNext

(* Forgetting a limiter grants nothing: as long as a request decides in    *)
(* less time than a limiter lives, no interleaving of the requests of an   *)
(* address, and no moment at which its limiter is dropped and made anew,   *)
(* admits it more often than one bucket of size Burst would allow.         *)
THEOREM ForgettingGrantsNothing == RateSpec => []BudgetKept
<1>1. CASE MaxStall < ttl
  <2>1. BudgetInv => BudgetKept
    <3> SUFFICES ASSUME BudgetInv, NEW k \in IPs PROVE budget[k] >= 0
      BY DEF BudgetKept
    <3>1. CASE k \in Present
      BY <3>1, OfKey
    <3>2. CASE k \notin Present
      <4>1. budget[k] >= Full /\ budget[k] \in Int
        BY <3>2 DEF BudgetInv, KeyInv
      <4> QED BY <4>1, Sizes
    <3> QED BY <3>1, <3>2
  <2>2. BudgetInv /\ [RateNext]_rateVars => BudgetInv'
    BY <1>1, BudgetInvStep
  <2> QED BY <2>1, <2>2, BudgetInvInit, PTL DEF RateSpec
<1>2. CASE ~(MaxStall < ttl)
  <2>1. BudgetKept
    BY <1>2 DEF BudgetKept
  <2> QED BY <2>1, PTL
<1> QED BY <1>1, <1>2
=============================================================================
