----------------------------- MODULE PageProofs -----------------------------
(***************************************************************************)
(* Theorems of the pages: the log of the client's web UI (SseLog), the     *)
(* event stream of the admin page (Admin) and its bandwidth graph          *)
(* (Bandwidth), for any pages, any sizes of the buffers and any number of  *)
(* lines, events and scrapes.                                              *)
(***************************************************************************)
EXTENDS SseLog, Admin, Bandwidth, SequenceTheorems, TLAPS

(* A number below twice the size of a ring, wrapped around once.           *)
LEMMA WrapOnce ==
  ASSUME NEW n \in Nat \ {0}, NEW a \in 0 .. 2 * n - 1
  PROVE  a % n = IF a < n THEN a ELSE a - n
<1>1. CASE a < n
  BY <1>1, SMT
<1>2. CASE a >= n
  BY <1>2, SMT
<1> QED
  BY <1>1, <1>2

(* The slot i elements after slot s of a ring of n.                        *)
LEMMA SlotAfter ==
  ASSUME NEW n \in Nat \ {0}, NEW s \in 0 .. n - 1, NEW i \in 0 .. n
  PROVE  (s + i) % n = IF s + i < n THEN s + i ELSE s + i - n
<1> DEFINE a == s + i
<1>1. a \in 0 .. 2 * n - 1
  OBVIOUS
<1> HIDE DEF a
<1>2. a % n = IF a < n THEN a ELSE a - n
  BY <1>1, WrapOnce
<1> QED
  BY <1>2 DEF a

(* The same for a walk that counts from one.                               *)
LEMMA SlotOfIth ==
  ASSUME NEW n \in Nat \ {0}, NEW s \in 0 .. n - 1, NEW i \in 1 .. n
  PROVE  (s + i - 1) % n = IF s + i - 1 < n THEN s + i - 1 ELSE s + i - 1 - n
<1> DEFINE a == s + i - 1
<1>1. a \in 0 .. 2 * n - 1
  OBVIOUS
<1> HIDE DEF a
<1>2. a % n = IF a < n THEN a ELSE a - n
  BY <1>1, WrapOnce
<1> QED
  BY <1>2 DEF a

LEMMA SeqOfSubset ==
  ASSUME NEW S, NEW T, S \subseteq T, NEW s \in Seq(S)
  PROVE  s \in Seq(T)
<1>1. Len(s) \in Nat /\ s \in [1 .. Len(s) -> S]
  BY LenProperties
<1> QED
  BY <1>1

(* Moving the head of the second sequence to the end of the first one does *)
(* not change the two in a row.                                            *)
LEMMA MoveHead ==
  ASSUME NEW S, NEW s \in Seq(S), NEW t \in Seq(S), t # <<>>
  PROVE  Append(s, Head(t)) \o Tail(t) = s \o t
<1> DEFINE a == Append(s, Head(t)) \o Tail(t)
           b == s \o t
<1>1. /\ Head(t) \in S /\ Tail(t) \in Seq(S) /\ Len(Tail(t)) = Len(t) - 1
      /\ \A i \in 1 .. Len(Tail(t)) : Tail(t)[i] = t[i + 1]
      /\ Len(t) \in Nat \ {0} /\ Head(t) = t[1] /\ Len(s) \in Nat
  BY HeadTailProperties, EmptySeq
<1>2. /\ Append(s, Head(t)) \in Seq(S) /\ Len(Append(s, Head(t))) = Len(s) + 1
      /\ \A i \in 1 .. Len(s) : Append(s, Head(t))[i] = s[i]
      /\ Append(s, Head(t))[Len(s) + 1] = t[1]
  BY <1>1, AppendProperties
<1>3. /\ a \in Seq(S) /\ Len(a) = (Len(s) + 1) + (Len(t) - 1)
      /\ \A i \in 1 .. (Len(s) + 1) + (Len(t) - 1) :
           a[i] = IF i <= Len(s) + 1 THEN Append(s, Head(t))[i]
                  ELSE Tail(t)[i - (Len(s) + 1)]
  BY <1>1, <1>2, ConcatProperties
<1>4. /\ b \in Seq(S) /\ Len(b) = Len(s) + Len(t)
      /\ \A i \in 1 .. Len(s) + Len(t) :
           b[i] = IF i <= Len(s) THEN s[i] ELSE t[i - Len(s)]
  BY ConcatProperties
<1> HIDE DEF a, b
<1>5. Len(a) = Len(b)
  BY <1>1, <1>3, <1>4
<1>6. ASSUME NEW i \in 1 .. Len(a) PROVE a[i] = b[i]
  <2>0. i \in 1 .. Len(s) + Len(t) /\ i \in 1 .. (Len(s) + 1) + (Len(t) - 1)
    BY <1>1, <1>3
  <2>1. CASE i <= Len(s)
    <3>1. i \in 1 .. Len(s) /\ i <= Len(s) + 1
      BY <1>1, <2>1
    <3> QED
      BY <1>2, <1>3, <1>4, <2>0, <3>1
  <2>2. CASE i = Len(s) + 1
    <3>1. i - Len(s) = 1 /\ ~(i <= Len(s)) /\ i <= Len(s) + 1
      BY <1>1, <2>2
    <3> QED
      BY <1>2, <1>3, <1>4, <2>0, <2>2, <3>1
  <2>3. CASE i > Len(s) + 1
    <3>1. /\ i - (Len(s) + 1) \in 1 .. Len(Tail(t))
          /\ (i - (Len(s) + 1)) + 1 = i - Len(s)
          /\ ~(i <= Len(s)) /\ ~(i <= Len(s) + 1)
      BY <1>1, <2>0, <2>3
    <3>2. Tail(t)[i - (Len(s) + 1)] = t[i - Len(s)]
      BY <1>1, <3>1
    <3> QED
      BY <1>3, <1>4, <2>0, <3>1, <3>2
  <2> QED
    BY <1>1, <2>0, <2>1, <2>2, <2>3
<1>7. a = b
  BY <1>3, <1>4, <1>5, <1>6, SeqEqual
<1> QED
  BY <1>7 DEF a, b

(* An element appended to the second sequence is appended to both in a     *)
(* row.                                                                    *)
LEMMA AppendToSecond ==
  ASSUME NEW S, NEW s \in Seq(S), NEW t \in Seq(S), NEW e \in S
  PROVE  s \o Append(t, e) = Append(s \o t, e)
<1> DEFINE a == s \o Append(t, e)
           c == s \o t
           b == Append(c, e)
<1>0. Len(s) \in Nat /\ Len(t) \in Nat
  OBVIOUS
<1>1. /\ Append(t, e) \in Seq(S) /\ Len(Append(t, e)) = Len(t) + 1
      /\ \A i \in 1 .. Len(t) : Append(t, e)[i] = t[i]
      /\ Append(t, e)[Len(t) + 1] = e
  BY AppendProperties
<1>2. /\ a \in Seq(S) /\ Len(a) = Len(s) + (Len(t) + 1)
      /\ \A i \in 1 .. Len(s) + (Len(t) + 1) :
           a[i] = IF i <= Len(s) THEN s[i] ELSE Append(t, e)[i - Len(s)]
  BY <1>1, ConcatProperties
<1>3. /\ c \in Seq(S) /\ Len(c) = Len(s) + Len(t)
      /\ \A i \in 1 .. Len(s) + Len(t) :
           c[i] = IF i <= Len(s) THEN s[i] ELSE t[i - Len(s)]
  BY ConcatProperties
<1> HIDE DEF c
<1>4. /\ b \in Seq(S) /\ Len(b) = Len(c) + 1
      /\ \A i \in 1 .. Len(c) : b[i] = c[i]
      /\ b[Len(c) + 1] = e
  BY <1>3, AppendProperties
<1> HIDE DEF a, b
<1>5. Len(a) = Len(b)
  BY <1>0, <1>2, <1>3, <1>4
<1>6. ASSUME NEW i \in 1 .. Len(a) PROVE a[i] = b[i]
  <2>0. i \in 1 .. Len(s) + (Len(t) + 1)
    BY <1>2
  <2>1. CASE i <= Len(s)
    <3>1. i \in 1 .. Len(s) + Len(t) /\ i \in 1 .. Len(c)
      BY <1>0, <1>3, <2>0, <2>1
    <3> QED
      BY <1>2, <1>3, <1>4, <2>0, <2>1, <3>1
  <2>2. CASE ~(i <= Len(s)) /\ i # Len(c) + 1
    <3>1. /\ i \in 1 .. Len(s) + Len(t) /\ i \in 1 .. Len(c)
          /\ i - Len(s) \in 1 .. Len(t)
      BY <1>0, <1>3, <2>0, <2>2
    <3> QED
      BY <1>1, <1>2, <1>3, <1>4, <2>0, <2>2, <3>1
  <2>3. CASE i = Len(c) + 1
    <3>1. ~(i <= Len(s)) /\ i - Len(s) = Len(t) + 1
      BY <1>0, <1>3, <2>3
    <3> QED
      BY <1>1, <1>2, <1>4, <2>0, <2>3, <3>1
  <2> QED
    BY <2>1, <2>2, <2>3
<1>7. a = b
  BY <1>2, <1>4, <1>5, <1>6, SeqEqual
<1> QED
  BY <1>7 DEF a, b, c

(* The same for numbers.                                                   *)
LEMMA AppendNumber ==
  \A s \in Seq(Nat) : \A t \in Seq(Nat) : \A e \in Nat :
    s \o Append(t, e) = Append(s \o t, e)
<1> TAKE s \in Seq(Nat)
<1> TAKE t \in Seq(Nat)
<1> TAKE e \in Nat
<1> DEFINE S == Nat
<1>1. s \in Seq(S) /\ t \in Seq(S) /\ e \in S
  OBVIOUS
<1> HIDE DEF S
<1> QED
  BY <1>1, AppendToSecond
-----------------------------------------------------------------------------
(* The log page.  The slot of the oldest line, and of the i-th one from    *)
(* there.                                                                  *)
Oldest == IF count < Capacity THEN 0 ELSE head
SlotOf(i) == IF Oldest + i - 1 < Capacity THEN Oldest + i - 1
             ELSE Oldest + i - 1 - Capacity

(* The ring fills from slot 0 and holds the last count lines from its      *)
(* oldest slot on.                                                         *)
RingInv ==
  /\ count = IF logged - erased < Capacity THEN logged - erased ELSE Capacity
  /\ count < Capacity => head = count
  /\ \A i \in 1 .. count : ring[SlotOf(i)] = logged - count + i

(* The walk of entries back from the write position reaches the oldest     *)
(* slot and goes on from there.                                            *)
LEMMA WalkFromOldest ==
  ASSUME LogTypeOK, RingInv
  PROVE  /\ start = Oldest
         /\ \A i \in 1 .. count : (start + i - 1) % Capacity = SlotOf(i)
<1>0. /\ Capacity \in Nat \ {0} /\ head \in 0 .. Capacity - 1
      /\ count \in 0 .. Capacity /\ Oldest \in 0 .. Capacity - 1
  BY SseAssumption DEF LogTypeOK, Slots, Oldest
<1>1. start = Oldest
  <2> DEFINE a == head + Capacity - count
  <2>1. a \in 0 .. 2 * Capacity - 1 /\ (count < Capacity => a = Capacity)
        /\ (count = Capacity => a = head)
    BY <1>0 DEF RingInv
  <2> HIDE DEF a
  <2>2. a % Capacity = IF a < Capacity THEN a ELSE a - Capacity
    BY <1>0, <2>1, WrapOnce
  <2>3. a % Capacity = Oldest
    BY <1>0, <2>1, <2>2 DEF Oldest
  <2> QED
    BY <2>3 DEF a, start
<1>2. ASSUME NEW i \in 1 .. count
      PROVE  (start + i - 1) % Capacity = SlotOf(i)
  <2>1. start \in 0 .. Capacity - 1 /\ i \in 1 .. Capacity
    BY <1>0, <1>1
  <2>2. (start + i - 1) % Capacity
          = IF start + i - 1 < Capacity THEN start + i - 1 ELSE start + i - 1 - Capacity
    BY <1>0, <2>1, SlotOfIth
  <2> QED
    BY <1>1, <2>2 DEF SlotOf
<1> QED
  BY <1>1, <1>2

(* So what Subscribe returns are the last count lines.                     *)
LEMMA EntriesAre ==
  ASSUME LogTypeOK, RingInv
  PROVE  entries = [i \in 1 .. count |-> logged - count + i]
<1>1. ASSUME NEW i \in 1 .. count
      PROVE  ring[(start + i - 1) % Capacity] = logged - count + i
  BY <1>1, WalkFromOldest DEF RingInv
<1> QED
  BY <1>1 DEF entries

LEMMA RingIsNewest ==
  LogTypeOK /\ RingInv => HistoryIsNewest
<1> SUFFICES ASSUME LogTypeOK, RingInv PROVE HistoryIsNewest
  OBVIOUS
<1> QED
  BY EntriesAre DEF RingInv, HistoryIsNewest

(* Logging a line keeps the ring in order, whether it grows or takes the   *)
(* slot of the oldest line.                                                *)
LEMMA AddKeepsRing ==
  ASSUME LogTypeOK, RingInv, logged < MaxLines, logged' = logged + 1,
         add(logged + 1), erased' = erased
  PROVE  /\ RingInv'
         /\ ring' \in [Slots -> Lines \cup {NoLine}] /\ head' \in Slots
         /\ count' \in 0 .. Capacity
<1>0. /\ Capacity \in Nat \ {0} /\ MaxLines \in Nat /\ head \in 0 .. Capacity - 1
      /\ count \in 0 .. Capacity /\ logged \in Nat /\ erased \in 0 .. logged
      /\ ring \in [0 .. Capacity - 1 -> Lines \cup {NoLine}]
  BY SseAssumption DEF LogTypeOK, Slots
<1>1. logged + 1 \in Lines
  BY <1>0 DEF Lines
<1> DEFINE g == IF head + 1 < Capacity THEN head + 1 ELSE 0
           k == IF count < Capacity THEN count + 1 ELSE count
<1>2. (head + 1) % Capacity = g
  <2>1. 1 \in 0 .. Capacity
    BY <1>0
  <2>2. (head + 1) % Capacity
          = IF head + 1 < Capacity THEN head + 1 ELSE head + 1 - Capacity
    BY <1>0, <2>1, SlotAfter
  <2> QED
    BY <1>0, <2>2
<1>3. g \in 0 .. Capacity - 1 /\ k \in 0 .. Capacity
  BY <1>0
<1>4. ring' = [ring EXCEPT ![head] = logged + 1] /\ head' = g /\ count' = k
  BY <1>2 DEF add, nextCount
<1>5. /\ ring' \in [Slots -> Lines \cup {NoLine}] /\ head' \in Slots
      /\ count' \in 0 .. Capacity
  BY <1>0, <1>1, <1>3, <1>4 DEF Slots
<1>6. /\ k = IF (logged + 1) - erased < Capacity THEN (logged + 1) - erased ELSE Capacity
      /\ k < Capacity => g = k
  BY <1>0 DEF RingInv
<1> DEFINE o == IF k < Capacity THEN 0 ELSE g
           sl(i) == IF o + i - 1 < Capacity THEN o + i - 1 ELSE o + i - 1 - Capacity
<1>7. ASSUME NEW i \in 1 .. k
      PROVE  ring'[sl(i)] = (logged + 1) - k + i
  <2>1. CASE i = k
    <3>1. sl(i) = head
      BY <1>0, <2>1 DEF RingInv
    <3> QED
      BY <1>0, <1>4, <2>1, <3>1
  <2>2. CASE i # k /\ count < Capacity
    <3>1. i \in 1 .. count /\ sl(i) = i - 1 /\ SlotOf(i) = i - 1 /\ i - 1 # head
          /\ i - 1 \in 0 .. Capacity - 1
      BY <1>0, <2>2 DEF RingInv, SlotOf, Oldest
    <3>2. ring'[i - 1] = ring[i - 1]
      BY <1>0, <1>4, <3>1
    <3>3. ring[i - 1] = logged - count + i
      BY <3>1 DEF RingInv
    <3>4. ring'[sl(i)] = logged - count + i
      BY <3>1, <3>2, <3>3
    <3> QED
      BY <1>0, <2>2, <3>4
  <2>3. CASE i # k /\ count = Capacity
    <3>0. i \in 1 .. Capacity - 1 /\ k = Capacity
      BY <1>0, <2>3
    <3>1. /\ i + 1 \in 1 .. count /\ sl(i) = SlotOf(i + 1) /\ sl(i) # head
          /\ sl(i) \in 0 .. Capacity - 1
      BY <1>0, <2>3, <3>0 DEF SlotOf, Oldest
    <3>2. ring'[sl(i)] = ring[SlotOf(i + 1)]
      BY <1>0, <1>4, <3>1
    <3>3. ring[SlotOf(i + 1)] = logged - count + (i + 1)
      BY <3>1 DEF RingInv
    <3>4. ring'[sl(i)] = logged - count + (i + 1)
      BY <3>2, <3>3
    <3> QED
      BY <1>0, <2>3, <3>0, <3>4
  <2> QED
    BY <1>0, <2>1, <2>2, <2>3
<1>8. Oldest' = o
  BY <1>4 DEF Oldest
<1>9. \A i : SlotOf(i)' = sl(i)
  BY <1>8 DEF SlotOf
<1> HIDE DEF g, k, o, sl
<1>10. RingInv'
  BY <1>4, <1>6, <1>7, <1>9 DEF RingInv
<1> QED
  BY <1>5, <1>10

(* A run of lines without gaps, and one that may have some.                *)
Consecutive(w) == \A i \in 1 .. Len(w) - 1 : w[i + 1] = w[i] + 1
Rising(w) == \A i \in 1 .. Len(w) - 1 : w[i] < w[i + 1]

(* Its last line.                                                          *)
EndsAt(w, n) == w # <<>> => w[Len(w)] = n
EndsBy(w, n) == w # <<>> => w[Len(w)] <= n

(* A page that has not subscribed has nothing; what a page has and will    *)
(* get is in order, and goes up to the newest line while it is subscribed. *)
PageInv(p) ==
  /\ pc[p] = "new" => /\ p \notin subs /\ p \notin slow
                      /\ chan[p] = <<>> /\ closes[p] = 0
  /\ p \in slow => /\ Rising(Written(p))
                   /\ p \in subs => EndsBy(Written(p), logged)
  /\ p \notin slow => /\ Consecutive(Written(p))
                      /\ p \in subs => EndsAt(Written(p), logged)

LogInv ==
  /\ LogTypeOK /\ RingInv /\ ChannelClosedOnce
  /\ \A p \in Pages : PageInv(p)

(* Lines and the missing line are numbers.                                 *)
LEMMA LinesAreNumbers ==
  ASSUME LogTypeOK
  PROVE  /\ Lines \subseteq Nat /\ NoLine \in Nat
         /\ \A p \in Pages : /\ chan[p] \in Seq(Nat) /\ history[p] \in Seq(Nat)
                             /\ shown[p] \in Seq(Nat) /\ Written(p) \in Seq(Nat)
<1>1. Lines \subseteq Nat /\ NoLine \in Nat
  BY SseAssumption DEF Lines, NoLine
<1>2. \A s \in Seq(Lines) : s \in Seq(Nat)
  BY <1>1, SeqOfSubset
<1>3. \A s \in Seq(Lines \cup {NoLine}) : s \in Seq(Nat)
  <2>1. Lines \cup {NoLine} \subseteq Nat
    BY <1>1
  <2> QED
    BY <2>1, SeqOfSubset
<1>4. ASSUME NEW p \in Pages
      PROVE  chan[p] \in Seq(Nat) /\ history[p] \in Seq(Nat) /\ shown[p] \in Seq(Nat)
  BY <1>2, <1>3 DEF LogTypeOK
<1>5. ASSUME NEW p \in Pages PROVE Written(p) \in Seq(Nat)
  BY <1>4, ConcatProperties DEF Written
<1> QED
  BY <1>1, <1>4, <1>5

(* The next line keeps a run in order, ...                                 *)
LEMMA NextInOrder ==
  ASSUME NEW w \in Seq(Nat), NEW n \in Nat
  PROVE  /\ Consecutive(w) /\ EndsAt(w, n)
             => Consecutive(Append(w, n + 1)) /\ EndsAt(Append(w, n + 1), n + 1)
         /\ Rising(w) /\ EndsBy(w, n)
             => Rising(Append(w, n + 1)) /\ EndsBy(Append(w, n + 1), n + 1)
<1> DEFINE v == Append(w, n + 1)
<1>1. /\ v \in Seq(Nat) /\ Len(v) = Len(w) + 1 /\ Len(w) \in Nat
      /\ \A i \in 1 .. Len(w) : v[i] = w[i] /\ v[i] \in Nat
      /\ v[Len(w) + 1] = n + 1 /\ v[Len(v)] = n + 1 /\ n + 1 \in Nat
  BY AppendProperties
<1> HIDE DEF v
<1>2. ASSUME NEW i \in 1 .. Len(v) - 1
      PROVE  \/ i \in 1 .. Len(w) - 1 /\ v[i] = w[i] /\ v[i + 1] = w[i + 1]
             \/ w # <<>> /\ v[i] = w[Len(w)] /\ v[i + 1] = n + 1 /\ v[i] \in Nat
  <2>1. i \in 1 .. Len(w)
    BY <1>1
  <2>2. CASE i = Len(w)
    <3>1. w # <<>>
      BY <2>1, <2>2, EmptySeq
    <3> QED
      BY <1>1, <2>1, <2>2, <3>1
  <2>3. CASE i # Len(w)
    <3>1. i \in 1 .. Len(w) - 1 /\ i + 1 \in 1 .. Len(w)
      BY <1>1, <2>1, <2>3
    <3> QED
      BY <1>1, <2>1, <3>1
  <2> QED
    BY <2>2, <2>3
<1>3. Consecutive(w) /\ EndsAt(w, n) => Consecutive(v) /\ EndsAt(v, n + 1)
  BY <1>1, <1>2 DEF Consecutive, EndsAt
<1>4. Rising(w) /\ EndsBy(w, n) => Rising(v) /\ EndsBy(v, n + 1)
  <2> SUFFICES ASSUME Rising(w), EndsBy(w, n) PROVE Rising(v) /\ EndsBy(v, n + 1)
    OBVIOUS
  <2>1. ASSUME NEW i \in 1 .. Len(v) - 1 PROVE v[i] < v[i + 1]
    <3>1. w # <<>> => w[Len(w)] <= n
      BY DEF EndsBy
    <3>2. CASE w # <<>> /\ v[i] = w[Len(w)] /\ v[i + 1] = n + 1 /\ v[i] \in Nat
      <4>1. v[i] <= n
        BY <3>1, <3>2
      <4> QED
        BY <3>2, <4>1
    <3>3. CASE i \in 1 .. Len(w) - 1 /\ v[i] = w[i] /\ v[i + 1] = w[i + 1]
      BY <3>3 DEF Rising
    <3> QED
      BY <1>2, <3>2, <3>3
  <2>2. EndsBy(v, n + 1)
    BY <1>1 DEF EndsBy
  <2> QED
    BY <2>1, <2>2 DEF Rising
<1> QED
  BY <1>3, <1>4 DEF v

(* ... and a line that is dropped leaves a gap after it.                   *)
LEMMA GapInOrder ==
  ASSUME NEW w \in Seq(Nat), NEW n \in Nat
  PROVE  /\ Consecutive(w) /\ EndsAt(w, n) => Rising(w) /\ EndsBy(w, n + 1)
         /\ EndsBy(w, n) => EndsBy(w, n + 1)
<1>1. ASSUME NEW i \in 1 .. Len(w) - 1 PROVE w[i] \in Nat /\ w[i + 1] \in Nat
  OBVIOUS
<1>2. w # <<>> => w[Len(w)] \in Nat
  <2>1. w # <<>> => Len(w) \in 1 .. Len(w)
    BY EmptySeq
  <2> QED
    BY <2>1
<1>3. Consecutive(w) => Rising(w)
  BY <1>1 DEF Consecutive, Rising
<1>4. EndsAt(w, n) \/ EndsBy(w, n) => EndsBy(w, n + 1)
  BY <1>2 DEF EndsAt, EndsBy
<1> QED
  BY <1>3, <1>4

(* A page starts with the newest lines.                                    *)
LEMMA EntriesInOrder ==
  ASSUME LogTypeOK, RingInv
  PROVE  /\ entries \in Seq(Lines \cup {NoLine})
         /\ Consecutive(entries) /\ EndsAt(entries, logged)
<1>0. /\ Capacity \in Nat \ {0} /\ count \in Nat /\ count <= logged
      /\ logged \in 0 .. MaxLines
  BY SseAssumption DEF LogTypeOK, RingInv
<1>1. entries = [i \in 1 .. count |-> logged - count + i]
  BY EntriesAre
<1>2. \A i \in 1 .. count : logged - count + i \in Lines \cup {NoLine}
  BY <1>0, SseAssumption DEF Lines
<1>3. entries \in Seq(Lines \cup {NoLine}) /\ Len(entries) = count
  BY <1>0, <1>1, <1>2
<1>4. Consecutive(entries)
  BY <1>0, <1>1, <1>3 DEF Consecutive
<1>5. entries # <<>> => count \in 1 .. count
  BY <1>0, <1>3, EmptySeq
<1>6. EndsAt(entries, logged)
  BY <1>0, <1>1, <1>3, <1>5 DEF EndsAt
<1> QED
  BY <1>3, <1>4, <1>6

(* ChannelClosedOnce for one page.                                         *)
LEMMA ClosedOnceIs ==
  ASSUME LogTypeOK
  PROVE  ChannelClosedOnce
           <=> \A p \in Pages : closes[p] <= 1 /\ (p \in subs => closes[p] = 0)
<1>1. ASSUME NEW p \in Pages
      PROVE  closes[p] <= (IF p \in subs THEN 0 ELSE 1)
               <=> closes[p] <= 1 /\ (p \in subs => closes[p] = 0)
  <2>1. closes[p] \in Nat
    BY DEF LogTypeOK
  <2>2. CASE p \in subs
    BY <2>1, <2>2
  <2>3. CASE p \notin subs
    BY <2>1, <2>3
  <2> QED
    BY <2>2, <2>3
<1> QED
  BY <1>1 DEF ChannelClosedOnce

LEMMA ClosedOnceNext ==
  LogTypeOK' => (ChannelClosedOnce
                   <=> \A p \in Pages : closes[p] <= 1 /\ (p \in subs => closes[p] = 0))'
<1>1. LogTypeOK => (ChannelClosedOnce
                   <=> \A p \in Pages : closes[p] <= 1 /\ (p \in subs => closes[p] = 0))
  BY ClosedOnceIs
<1> QED
  BY <1>1, PTL

LEMMA LogInvInit == LogInit => LogInv
<1> SUFFICES ASSUME LogInit PROVE LogInv
  OBVIOUS
<1> USE SseAssumption DEF LogInit
<1>0. <<>> \in Seq(Lines) /\ <<>> \in Seq(Lines \cup {NoLine}) /\ Len(<<>>) = 0
  BY EmptySeq
<1>1. LogTypeOK
  BY <1>0 DEF LogTypeOK, Slots
<1>2. RingInv
  BY DEF RingInv, Slots
<1>3. ChannelClosedOnce
  <2>1. \A p \in Pages : closes[p] = 0 /\ p \notin subs
    OBVIOUS
  <2> QED
    BY <1>1, <2>1, ClosedOnceIs
<1>4. ASSUME NEW p \in Pages PROVE PageInv(p)
  <2>0. <<>> \in Seq(Nat) /\ Len(<<>>) = 0
    BY EmptySeq
  <2>1. Written(p) = <<>>
    BY <2>0 DEF Written
  <2> QED
    BY <2>0, <2>1 DEF PageInv, Consecutive, EndsAt
<1> QED
  BY <1>1, <1>2, <1>3, <1>4 DEF LogInv

(* Every step keeps the types: a line is sent only to a channel with room. *)
LEMMA LogTypeStep ==
  ASSUME LogTypeOK, RingInv, [LogNext]_logVars
  PROVE  LogTypeOK'
<1> USE DEF LogTypeOK, ringVars
<1>0. Len(<<>>) = 0 /\ ChanCap \in Nat \ {0} /\ MaxLines \in Nat
  BY SseAssumption
<1>1. CASE Handle
  <2>1. /\ ring' \in [Slots -> Lines \cup {NoLine}] /\ head' \in Slots
        /\ count' \in 0 .. Capacity
    BY <1>1, AddKeepsRing DEF Handle
  <2>2. logged' \in 0 .. MaxLines /\ erased' \in 0 .. logged' /\ logged' \in Lines
    BY <1>0, <1>1 DEF Handle, Lines
  <2>3. ASSUME NEW p \in Pages
        PROVE  chan'[p] \in Seq(Lines) /\ Len(chan'[p]) <= ChanCap
    <3>1. CASE p \in subs /\ hasRoom(p)
      <4>1. chan'[p] = Append(chan[p], logged')
        BY <1>1, <3>1 DEF Handle
      <4> QED
        BY <1>0, <2>2, <3>1, <4>1, AppendProperties DEF hasRoom
    <3>2. CASE ~(p \in subs /\ hasRoom(p))
      BY <1>1, <3>2 DEF Handle
    <3> QED
      BY <3>1, <3>2
  <2>4. chan' \in [Pages -> Seq(Lines)]
    <3>1. chan' = [p \in Pages |-> chan'[p]]
      BY <1>1 DEF Handle
    <3> QED
      BY <2>3, <3>1
  <2>5. slow' \subseteq Pages
    BY <1>1 DEF Handle
  <2> QED
    BY <1>1, <2>1, <2>2, <2>3, <2>4, <2>5 DEF Handle
<1>2. CASE Reset
  BY <1>0, <1>2, SseAssumption DEF Reset, disconnectAll, Slots
<1>3. ASSUME NEW p \in Pages, Subscribe(p) PROVE LogTypeOK'
  <2>1. entries \in Seq(Lines \cup {NoLine})
    BY EntriesInOrder
  <2> QED
    BY <1>3, <2>1 DEF Subscribe
<1>4. ASSUME NEW p \in Pages, Replay(p) PROVE LogTypeOK'
  BY <1>4 DEF Replay
<1>5. ASSUME NEW p \in Pages, ShowLine(p) PROVE LogTypeOK'
  <2>1. chan[p] \in Seq(Lines) /\ chan[p] # <<>>
    BY <1>5 DEF ShowLine
  <2>2. /\ Head(chan[p]) \in Lines /\ Tail(chan[p]) \in Seq(Lines)
        /\ Len(Tail(chan[p])) = Len(chan[p]) - 1 /\ Len(chan[p]) \in Nat
    BY <2>1, HeadTailProperties
  <2>3. Append(shown[p], Head(chan[p])) \in Seq(Lines \cup {NoLine})
    BY <2>2, AppendProperties
  <2>4. /\ chan' \in [Pages -> Seq(Lines)]
        /\ shown' \in [Pages -> Seq(Lines \cup {NoLine})]
    BY <1>5, <2>2, <2>3 DEF ShowLine
  <2>5. \A q \in Pages : Len(chan'[q]) <= ChanCap
    <3> TAKE q \in Pages
    <3>1. CASE q = p
      BY <1>0, <1>5, <2>2, <3>1 DEF ShowLine
    <3>2. CASE q # p
      BY <1>5, <3>2 DEF ShowLine
    <3> QED
      BY <3>1, <3>2
  <2> QED
    BY <1>5, <2>4, <2>5 DEF ShowLine
<1>6. ASSUME NEW p \in Pages, ChannelClosed(p) \/ BrowserGone(p) PROVE LogTypeOK'
  BY <1>6 DEF ChannelClosed, BrowserGone
<1>7. ASSUME NEW p \in Pages, Unsubscribe(p) PROVE LogTypeOK'
  <2>1. closes' \in [Pages -> Nat] /\ subs' \subseteq Pages
    BY <1>7 DEF Unsubscribe
  <2> QED
    BY <1>7, <2>1 DEF Unsubscribe
<1>8. CASE UNCHANGED logVars
  BY <1>8 DEF logVars
<1> QED
  BY <1>1, <1>2, <1>3, <1>4, <1>5, <1>6, <1>7, <1>8 DEF LogNext, Page

(* The steps of the pages leave the ring alone.                            *)
LEMMA RingStep ==
  ASSUME LogTypeOK, RingInv, [LogNext]_logVars
  PROVE  RingInv'
<1>1. CASE Handle
  BY <1>1, AddKeepsRing DEF Handle
<1>2. CASE Reset
  BY <1>2, SseAssumption DEF Reset, RingInv, LogTypeOK
<1>3. CASE UNCHANGED ringVars
  BY <1>3 DEF ringVars, RingInv, SlotOf, Oldest
<1> QED
  BY <1>1, <1>2, <1>3
     DEF LogNext, Page, Subscribe, Replay, ShowLine, ChannelClosed, BrowserGone,
         Unsubscribe, logVars, ringVars

(* Whoever closes a channel has taken the page off the subscribers, and    *)
(* only a new page is put there.                                           *)
LEMMA ClosesStep ==
  ASSUME LogTypeOK, RingInv, ChannelClosedOnce, \A p \in Pages : PageInv(p),
         [LogNext]_logVars
  PROVE  ChannelClosedOnce'
<1>0. /\ \A p \in Pages : closes[p] <= 1 /\ (p \in subs => closes[p] = 0)
      /\ \A p \in Pages : pc[p] = "new" => closes[p] = 0
      /\ closes \in [Pages -> Nat] /\ subs \subseteq Pages
  BY ClosedOnceIs DEF PageInv, LogTypeOK
<1> SUFFICES (\A p \in Pages : closes[p] <= 1 /\ (p \in subs => closes[p] = 0))'
  BY LogTypeStep, ClosedOnceNext
<1>1. CASE UNCHANGED <<closes, subs>>
  BY <1>0, <1>1
<1>2. CASE Reset
  BY <1>0, <1>2 DEF Reset, disconnectAll
<1>3. ASSUME NEW p \in Pages, Subscribe(p)
      PROVE  (\A q \in Pages : closes[q] <= 1 /\ (q \in subs => closes[q] = 0))'
  BY <1>0, <1>3 DEF Subscribe
<1>4. ASSUME NEW p \in Pages, Unsubscribe(p)
      PROVE  (\A q \in Pages : closes[q] <= 1 /\ (q \in subs => closes[q] = 0))'
  BY <1>0, <1>4 DEF Unsubscribe
<1> QED
  BY <1>1, <1>2, <1>3, <1>4
     DEF LogNext, Page, Handle, Replay, ShowLine, ChannelClosed, BrowserGone, logVars

(* Only Handle adds to what a page has and will get; showing a line moves  *)
(* it from the channel to the page.                                        *)
LEMMA PageStep ==
  ASSUME LogTypeOK, RingInv, NEW p \in Pages, PageInv(p), [LogNext]_logVars
  PROVE  PageInv(p)'
<1>0. /\ chan[p] \in Seq(Nat) /\ history[p] \in Seq(Nat) /\ shown[p] \in Seq(Nat)
      /\ Written(p) \in Seq(Nat) /\ logged \in Nat
  BY LinesAreNumbers DEF LogTypeOK
<1>1. CASE Handle
  <2>0. /\ UNCHANGED <<erased, subs, closes, pc, history, shown>>
        /\ logged' = logged + 1 /\ logged + 1 \in Nat
    BY <1>0, <1>1 DEF Handle
  <2>1. CASE p \notin subs
    <3>1. chan'[p] = chan[p] /\ (p \in slow' <=> p \in slow)
      BY <1>1, <2>1 DEF Handle
    <3>2. Written(p)' = Written(p)
      BY <2>0, <3>1 DEF Written
    <3> QED
      BY <2>0, <2>1, <3>1, <3>2 DEF PageInv
  <2>2. CASE p \in subs /\ hasRoom(p)
    <3>1. chan'[p] = Append(chan[p], logged + 1) /\ (p \in slow' <=> p \in slow)
      BY <1>1, <2>0, <2>2 DEF Handle
    <3>2. Written(p)' = Append(Written(p), logged + 1)
      <4>1. \A e \in Nat : history[p] \o Append(chan[p], e) = Append(history[p] \o chan[p], e)
        BY <1>0, AppendNumber
      <4>2. \A e \in Nat : shown[p] \o Append(chan[p], e) = Append(shown[p] \o chan[p], e)
        BY <1>0, AppendNumber
      <4> QED
        BY <2>0, <3>1, <4>1, <4>2 DEF Written
    <3>3. /\ p \in slow => Rising(Written(p)) /\ EndsBy(Written(p), logged)
          /\ p \notin slow => Consecutive(Written(p)) /\ EndsAt(Written(p), logged)
      BY <2>2 DEF PageInv
    <3> DEFINE w == Append(Written(p), logged + 1)
    <3>4. /\ p \in slow => Rising(w) /\ EndsBy(w, logged + 1)
          /\ p \notin slow => Consecutive(w) /\ EndsAt(w, logged + 1)
      BY <1>0, <3>3, NextInOrder
    <3> HIDE DEF w
    <3>5. Written(p)' = w
      BY <3>2 DEF w
    <3> QED
      BY <2>0, <2>2, <3>1, <3>4, <3>5 DEF PageInv
  <2>3. CASE p \in subs /\ ~hasRoom(p)
    <3>1. chan'[p] = chan[p] /\ p \in slow'
      BY <1>1, <2>3 DEF Handle
    <3>2. Written(p)' = Written(p)
      BY <2>0, <3>1 DEF Written
    <3>3. /\ p \in slow => Rising(Written(p)) /\ EndsBy(Written(p), logged)
          /\ p \notin slow => Consecutive(Written(p)) /\ EndsAt(Written(p), logged)
      BY <2>3 DEF PageInv
    <3>4. Rising(Written(p)) /\ EndsBy(Written(p), logged + 1)
      BY <1>0, <3>3, GapInOrder
    <3> QED
      BY <2>0, <2>3, <3>1, <3>2, <3>4 DEF PageInv
  <2> QED
    BY <2>1, <2>2, <2>3
<1>2. CASE /\ UNCHANGED <<logged, slow>> /\ subs' \subseteq subs
           /\ pc'[p] # "new" \/ UNCHANGED <<pc[p], chan[p], closes[p]>>
           /\ Written(p)' = Written(p)
  BY <1>2 DEF PageInv
<1>3. CASE Reset
  <2>1. /\ UNCHANGED <<logged, slow, chan, pc, history, shown>> /\ subs' = {}
        /\ closes'[p] = IF p \in subs THEN closes[p] + 1 ELSE closes[p]
    BY <1>3 DEF Reset, disconnectAll
  <2>2. Written(p)' = Written(p)
    BY <2>1 DEF Written
  <2> QED
    BY <2>1, <2>2 DEF PageInv
<1>4. ASSUME NEW q \in Pages, Subscribe(q) PROVE PageInv(p)'
  <2>0. UNCHANGED <<logged, slow, chan, closes, shown>> /\ subs' = subs \cup {q}
    BY <1>4 DEF Subscribe, ringVars
  <2>1. CASE q = p
    <3>1. /\ pc'[p] = "replay" /\ history'[p] = entries
          /\ chan[p] = <<>> /\ p \notin slow
      BY <1>4, <2>1 DEF Subscribe, LogTypeOK, PageInv
    <3>2. Written(p)' = entries
      <4>1. entries \in Seq(Lines \cup {NoLine})
        BY EntriesInOrder
      <4>2. entries \o <<>> = entries
        BY <4>1, ConcatEmptySeq
      <4> QED
        BY <2>0, <3>1, <4>2 DEF Written
    <3>3. Consecutive(entries) /\ EndsAt(entries, logged)
      BY EntriesInOrder
    <3> QED
      BY <2>0, <3>1, <3>2, <3>3 DEF PageInv
  <2>2. CASE q # p
    <3>1. pc'[p] = pc[p] /\ history'[p] = history[p]
      BY <1>4, <2>2 DEF Subscribe, LogTypeOK
    <3>2. Written(p)' = Written(p)
      BY <2>0, <3>1 DEF Written
    <3> QED
      BY <2>0, <2>2, <3>1, <3>2 DEF PageInv
  <2> QED
    BY <2>1, <2>2
<1>5. ASSUME NEW q \in Pages, Replay(q) PROVE PageInv(p)'
  <2>1. /\ UNCHANGED <<logged, slow, subs, chan, closes>>
        /\ pc'[p] # "new" \/ pc'[p] = pc[p]
    BY <1>5 DEF Replay, LogTypeOK, ringVars
  <2>2. Written(p)' = Written(p)
    BY <1>5 DEF Replay, LogTypeOK, Written
  <2> QED
    BY <1>2, <2>1, <2>2
<1>6. ASSUME NEW q \in Pages, ShowLine(q) PROVE PageInv(p)'
  <2>0. UNCHANGED <<logged, slow, subs, closes, pc, history>>
    BY <1>6 DEF ShowLine, ringVars
  <2>1. CASE q = p
    <3>1. /\ pc[p] = "stream" /\ chan[p] # <<>>
          /\ shown'[p] = Append(shown[p], Head(chan[p])) /\ chan'[p] = Tail(chan[p])
      BY <1>6, <2>1 DEF ShowLine, LogTypeOK
    <3>2. Written(p)' = Written(p)
      BY <1>0, <2>0, <3>1, MoveHead DEF Written
    <3> QED
      BY <1>2, <2>0, <3>1, <3>2
  <2>2. CASE q # p
    <3>1. shown'[p] = shown[p] /\ chan'[p] = chan[p]
      BY <1>6, <2>2 DEF ShowLine, LogTypeOK
    <3>2. Written(p)' = Written(p)
      BY <2>0, <3>1 DEF Written
    <3> QED
      BY <1>2, <2>0, <3>1, <3>2
  <2> QED
    BY <2>1, <2>2
<1>7. ASSUME NEW q \in Pages, ChannelClosed(q) \/ BrowserGone(q) \/ Unsubscribe(q)
      PROVE  PageInv(p)'
  <2>1. /\ UNCHANGED <<logged, slow, chan, history, shown>> /\ subs' \subseteq subs
        /\ q # p => pc'[p] = pc[p] /\ closes'[p] = closes[p]
        /\ q = p => pc[p] \in {"stream", "leaving"} /\ pc'[p] \in {"leaving", "gone"}
    BY <1>7 DEF ChannelClosed, BrowserGone, Unsubscribe, LogTypeOK, ringVars
  <2>2. Written(p)' = Written(p)
    BY <2>1 DEF Written
  <2> QED
    BY <1>2, <2>1, <2>2
<1>8. CASE UNCHANGED logVars
  <2>1. Written(p)' = Written(p)
    BY <1>8 DEF Written, logVars
  <2> QED
    BY <1>2, <1>8, <2>1 DEF logVars
<1> QED
  BY <1>1, <1>3, <1>4, <1>5, <1>6, <1>7, <1>8 DEF LogNext, Page

LEMMA LogInvStep == LogInv /\ [LogNext]_logVars => LogInv'
<1> SUFFICES ASSUME LogInv, [LogNext]_logVars PROVE LogInv'
  OBVIOUS
<1>1. LogTypeOK /\ RingInv /\ ChannelClosedOnce /\ \A p \in Pages : PageInv(p)
  BY DEF LogInv
<1>2. LogTypeOK' /\ RingInv' /\ ChannelClosedOnce'
  BY <1>1, LogTypeStep, RingStep, ClosesStep
<1>3. \A p \in Pages : PageInv(p)'
  BY <1>1, PageStep
<1> QED
  BY <1>2, <1>3 DEF LogInv

LEMMA AlwaysLogInv == LogSpec => []LogInv
<1> QED
  BY LogInvInit, LogInvStep, PTL DEF LogSpec

(* The ring of the log always holds the newest lines since the last Reset, *)
(* oldest first and as many as fit, for any capacity: the walk of          *)
(* ringBuffer.entries is right before and after the ring has wrapped.      *)
THEOREM LogKeepsNewest == LogSpec => []HistoryIsNewest
<1>1. LogInv => HistoryIsNewest
  BY RingIsNewest DEF LogInv
<1> QED
  BY <1>1, AlwaysLogInv, PTL

(* A page shows lines once, in order and without a gap unless its channel  *)
(* overflowed: Subscribe returns the history and joins the subscribers     *)
(* under one lock, so replay and channel meet without overlap.             *)
THEOREM LogShownInOrder == LogSpec => []NoGapNoRepeat
<1>1. LogInv => NoGapNoRepeat
  BY DEF LogInv, PageInv, Consecutive, Rising, NoGapNoRepeat
<1> QED
  BY <1>1, AlwaysLogInv, PTL

(* No channel is closed twice or while Handle may send on it, whatever the *)
(* order in which Reset and Unsubscribe come.                              *)
THEOREM LogChannelClosedOnce == LogSpec => []ChannelClosedOnce
<1>1. LogInv => ChannelClosedOnce
  BY DEF LogInv
<1> QED
  BY <1>1, AlwaysLogInv, PTL
-----------------------------------------------------------------------------
(* The event stream.  The types of what EventsInOrder is about.            *)
StreamTypes ==
  /\ events \in Nat
  /\ subscribers \subseteq Browsers
  /\ buffer \in [Browsers -> Seq(Nat)]
  /\ written \in [Browsers -> Seq(Nat)]
  /\ since \in [Browsers -> Nat]
  /\ stream \in [Browsers -> {"new", "open", "leaving", "gone"}]

(* What a page has been sent.                                              *)
Sent(p) == written[p] \o buffer[p]

(* Events that came after the first n and before number m, in order.       *)
Between(w, n, m) ==
  \A i \in 1 .. Len(w) : n + i <= w[i] /\ w[i] <= m /\ (i > 1 => w[i - 1] < w[i])

(* All of them.                                                            *)
All(w, n, m) == w = [i \in 1 .. m - n |-> n + i]

(* A page that is not open has no events, no channel is closed before the  *)
(* page is gone, and what it has been sent is some, or all, of the events  *)
(* since it subscribed.                                                    *)
StreamInv(p) ==
  /\ stream[p] = "new" => /\ p \notin subscribers /\ p \notin missed
                          /\ buffer[p] = <<>> /\ written[p] = <<>>
  /\ p \in closed => stream[p] = "gone"
  /\ p \in subscribers => stream[p] \in {"open", "leaving"}
  /\ since[p] <= events
  /\ Between(Sent(p), since[p], events)
  /\ p \in subscribers /\ p \notin missed => All(Sent(p), since[p], events)

AdminInv == StreamTypes /\ \A p \in Browsers : StreamInv(p)

LEMMA SentNumbers ==
  ASSUME StreamTypes, NEW p \in Browsers
  PROVE  /\ buffer[p] \in Seq(Nat) /\ written[p] \in Seq(Nat) /\ Sent(p) \in Seq(Nat)
         /\ since[p] \in Nat /\ events \in Nat
<1>1. /\ buffer[p] \in Seq(Nat) /\ written[p] \in Seq(Nat)
      /\ since[p] \in Nat /\ events \in Nat
  BY DEF StreamTypes
<1> QED
  BY <1>1, ConcatProperties DEF Sent

(* The next event goes to the end, and is the next of all of them.         *)
LEMMA NextEvent ==
  ASSUME NEW w \in Seq(Nat), NEW n \in Nat, NEW m \in Nat, n <= m, Between(w, n, m)
  PROVE  /\ Between(Append(w, m + 1), n, m + 1)
         /\ Between(w, n, m + 1)
         /\ All(w, n, m) => All(Append(w, m + 1), n, m + 1)
<1> DEFINE v == Append(w, m + 1)
<1>0. /\ Len(w) \in Nat
      /\ \A i \in 1 .. Len(w) : w[i] \in Nat /\ n + i <= w[i] /\ w[i] <= m
      /\ \A i \in 1 .. Len(w) : i > 1 => w[i - 1] < w[i]
  BY DEF Between
<1>1. /\ v \in Seq(Nat) /\ Len(v) = Len(w) + 1
      /\ \A i \in 1 .. Len(w) : v[i] = w[i]
      /\ v[Len(w) + 1] = m + 1
  BY AppendProperties
<1> HIDE DEF v
<1>2. n + Len(w) <= m
  <2>1. CASE Len(w) = 0
    BY <2>1
  <2>2. CASE Len(w) # 0
    <3>1. Len(w) \in 1 .. Len(w)
      BY <1>0, <2>2
    <3>2. w[Len(w)] \in Nat /\ n + Len(w) <= w[Len(w)] /\ w[Len(w)] <= m
      BY <1>0, <3>1
    <3> QED
      BY <1>0, <3>2
  <2> QED
    BY <2>1, <2>2
<1>3. ASSUME NEW i \in 1 .. Len(v)
      PROVE  n + i <= v[i] /\ v[i] <= m + 1 /\ (i > 1 => v[i - 1] < v[i])
  <2>1. CASE i \in 1 .. Len(w)
    <3>1. i > 1 => i - 1 \in 1 .. Len(w)
      BY <1>0, <2>1
    <3>2. v[i] = w[i] /\ (i > 1 => v[i - 1] = w[i - 1])
      BY <1>1, <2>1, <3>1
    <3> QED
      BY <1>0, <2>1, <3>2
  <2>2. CASE i = Len(w) + 1
    <3>1. v[i] = m + 1 /\ n + i <= m + 1
      BY <1>0, <1>1, <1>2, <2>2
    <3>2. i > 1 => i - 1 \in 1 .. Len(w)
      BY <1>0, <2>2
    <3>3. i > 1 => v[i - 1] \in Nat /\ v[i - 1] <= m
      BY <1>0, <1>1, <3>2
    <3> QED
      BY <3>1, <3>3
  <2> QED
    BY <1>0, <1>1, <2>1, <2>2
<1>4. Between(v, n, m + 1)
  BY <1>3 DEF Between
<1>5. Between(w, n, m + 1)
  BY <1>0 DEF Between
<1>6. ASSUME All(w, n, m) PROVE All(v, n, m + 1)
  <2> DEFINE u == [i \in 1 .. (m + 1) - n |-> n + i]
  <2>1. Len(w) = m - n /\ \A i \in 1 .. m - n : w[i] = n + i
    BY <1>6 DEF All
  <2>2. u \in Seq(Nat) /\ Len(u) = (m + 1) - n /\ \A i \in 1 .. (m + 1) - n : u[i] = n + i
    OBVIOUS
  <2> HIDE DEF u
  <2>3. Len(v) = Len(u)
    BY <1>1, <2>1, <2>2
  <2>4. ASSUME NEW i \in 1 .. Len(v) PROVE v[i] = u[i]
    <3>1. u[i] = n + i
      BY <2>2, <2>3
    <3>2. CASE i \in 1 .. Len(w)
      BY <1>1, <2>1, <3>1, <3>2
    <3>3. CASE i = Len(w) + 1
      BY <1>1, <2>1, <3>1, <3>3
    <3> QED
      BY <1>0, <1>1, <3>2, <3>3
  <2>5. v = u
    BY <1>1, <2>2, <2>3, <2>4, SeqEqual
  <2> QED
    BY <2>5 DEF All, u
<1> QED
  BY <1>4, <1>5, <1>6 DEF v

LEMMA AdminInvInit == AdminInit => AdminInv
<1> SUFFICES ASSUME AdminInit PROVE AdminInv
  OBVIOUS
<1> USE DEF AdminInit
<1>0. <<>> \in Seq(Nat) /\ Len(<<>>) = 0
  BY EmptySeq
<1>1. StreamTypes
  BY <1>0 DEF StreamTypes
<1>2. ASSUME NEW p \in Browsers PROVE StreamInv(p)
  <2>1. Sent(p) = <<>>
    BY <1>0 DEF Sent
  <2> QED
    BY <1>0, <2>1 DEF StreamInv, Between
<1> QED
  BY <1>1, <1>2 DEF AdminInv

LEMMA StreamTypeStep ==
  ASSUME StreamTypes, [AdminNext]_adminVars
  PROVE  StreamTypes'
<1> USE DEF StreamTypes, hostVars, pageVars
<1>1. ASSUME NEW g \in Callers, broadcast(g) PROVE StreamTypes'
  <2>1. events' = events + 1 /\ events' \in Nat
    BY <1>1 DEF broadcast
  <2>2. \A p \in Browsers : Append(buffer[p], events') \in Seq(Nat)
    BY <2>1, AppendProperties
  <2> QED
    BY <1>1, <2>1, <2>2 DEF broadcast
<1>2. ASSUME NEW p \in Browsers, WriteEvent(p) PROVE StreamTypes'
  <2>1. buffer[p] \in Seq(Nat) /\ buffer[p] # <<>> /\ written[p] \in Seq(Nat)
    BY <1>2 DEF WriteEvent
  <2>2. Head(buffer[p]) \in Nat /\ Tail(buffer[p]) \in Seq(Nat)
    BY <2>1, HeadTailProperties
  <2>3. Append(written[p], Head(buffer[p])) \in Seq(Nat)
    BY <2>1, <2>2, AppendProperties
  <2> QED
    BY <1>2, <2>2, <2>3 DEF WriteEvent
<1>3. ASSUME NEW p \in Browsers,
             OpenPage(p) \/ OpenPageFails(p) \/ LeaveStopped(p) \/ LeaveGone(p) \/ Leave(p)
      PROVE  StreamTypes'
  BY <1>3 DEF OpenPage, OpenPageFails, LeaveStopped, LeaveGone, Leave, UnsubscribePage
<1>4. CASE UNCHANGED <<events, buffer, subscribers, written, since, stream>>
  BY <1>4
<1> QED
  BY <1>1, <1>2, <1>3, <1>4
     DEF AdminNext, PageHandler, HostConnectedCall, HostDisconnectedCall,
         PeerConnectedCall, ScraperExit, StopAdmin, HandlersReturn, CloseHTTP3,
         Shutdown, ShutdownTimesOut, adminVars

LEMMA StreamStep ==
  ASSUME StreamTypes, NEW p \in Browsers, StreamInv(p), [AdminNext]_adminVars
  PROVE  StreamInv(p)'
<1> USE DEF hostVars, pageVars
<1>0. /\ buffer[p] \in Seq(Nat) /\ written[p] \in Seq(Nat) /\ Sent(p) \in Seq(Nat)
      /\ since[p] \in Nat /\ events \in Nat
  BY SentNumbers
<1>1. ASSUME NEW g \in Callers, broadcast(g) PROVE StreamInv(p)'
  <2>0. /\ UNCHANGED <<subscribers, closed, stream, since, written>>
        /\ events' = events + 1 /\ events + 1 \in Nat /\ since[p] <= events
        /\ Between(Sent(p), since[p], events)
        /\ events' \in Nat /\ since[p] <= events'
    BY <1>0, <1>1 DEF broadcast, StreamInv
  <2> DEFINE w == Append(Sent(p), events + 1)
  <2>1. /\ Between(w, since[p], events + 1)
        /\ Between(Sent(p), since[p], events + 1)
        /\ All(Sent(p), since[p], events) => All(w, since[p], events + 1)
    BY <1>0, <2>0, NextEvent
  <2> HIDE DEF w
  <2>2. CASE p \in subscribers /\ BufferRoom(p)
    <3>1. buffer'[p] = Append(buffer[p], events + 1) /\ (p \in missed' <=> p \in missed)
      BY <1>1, <2>0, <2>2 DEF broadcast
    <3>2. \A e \in Nat : written[p] \o Append(buffer[p], e) = Append(Sent(p), e)
      BY <1>0, AppendNumber DEF Sent
    <3>3. Sent(p)' = w
      BY <2>0, <3>1, <3>2 DEF Sent, w
    <3> QED
      BY <2>0, <2>1, <2>2, <3>1, <3>3 DEF StreamInv
  <2>3. CASE ~(p \in subscribers /\ BufferRoom(p))
    <3>1. buffer'[p] = buffer[p] /\ missed \subseteq missed'
          /\ (p \in subscribers => p \in missed')
          /\ (p \notin subscribers => (p \in missed' <=> p \in missed))
      BY <1>1, <2>3 DEF broadcast
    <3>2. Sent(p)' = Sent(p)
      BY <2>0, <3>1 DEF Sent
    <3> QED
      BY <2>0, <2>1, <3>1, <3>2 DEF StreamInv
  <2> QED
    BY <2>2, <2>3
<1>2. ASSUME NEW q \in Browsers, WriteEvent(q) PROVE StreamInv(p)'
  <2>0. UNCHANGED <<events, subscribers, closed, stream, since, missed>>
    BY <1>2 DEF WriteEvent
  <2>1. CASE q = p
    <3>1. /\ stream[p] = "open" /\ buffer[p] # <<>>
          /\ written'[p] = Append(written[p], Head(buffer[p]))
          /\ buffer'[p] = Tail(buffer[p])
      BY <1>2, <2>1 DEF WriteEvent, StreamTypes
    <3>2. Sent(p)' = Sent(p)
      BY <1>0, <3>1, MoveHead DEF Sent
    <3> QED
      BY <2>0, <3>1, <3>2 DEF StreamInv
  <2>2. CASE q # p
    <3>1. written'[p] = written[p] /\ buffer'[p] = buffer[p]
      BY <1>2, <2>2 DEF WriteEvent, StreamTypes
    <3>2. Sent(p)' = Sent(p)
      BY <3>1 DEF Sent
    <3> QED
      BY <2>0, <3>1, <3>2 DEF StreamInv
  <2> QED
    BY <2>1, <2>2
<1>3. ASSUME NEW q \in Browsers, OpenPage(q) PROVE StreamInv(p)'
  <2>0. /\ UNCHANGED <<events, buffer, closed, written, missed>>
        /\ subscribers' = subscribers \cup {q} /\ Sent(p)' = Sent(p)
    BY <1>3 DEF OpenPage, Sent
  <2>1. CASE q = p
    <3>1. /\ stream[p] = "new" /\ stream'[p] = "open" /\ since'[p] = events
      BY <1>3, <2>1 DEF OpenPage, StreamTypes
    <3>2. Sent(p) = <<>> /\ Len(<<>>) = 0
      BY <3>1, EmptySeq DEF StreamInv, Sent
    <3>3. Between(<<>>, events, events)
      BY <3>2 DEF Between
    <3>4. All(<<>>, events, events)
      <4>1. 1 .. events - events = {}
        BY <1>0
      <4> QED
        BY <1>0, <4>1 DEF All
    <3>5. p \notin closed
      BY <3>1 DEF StreamInv
    <3> QED
      BY <1>0, <2>0, <3>1, <3>2, <3>3, <3>4, <3>5 DEF StreamInv
  <2>2. CASE q # p
    <3>1. stream'[p] = stream[p] /\ since'[p] = since[p]
      BY <1>3, <2>2 DEF OpenPage, StreamTypes
    <3> QED
      BY <2>0, <2>2, <3>1 DEF StreamInv
  <2> QED
    BY <2>1, <2>2
<1>4. ASSUME NEW q \in Browsers, OpenPageFails(q) \/ LeaveStopped(q) \/ LeaveGone(q)
      PROVE  StreamInv(p)'
  <2>1. /\ UNCHANGED <<events, buffer, subscribers, closed, since, written, missed>>
        /\ q # p => stream'[p] = stream[p]
        /\ q = p => \/ stream[p] = "new" /\ stream'[p] = "gone"
                    \/ stream[p] = "open" /\ stream'[p] = "leaving"
        /\ Sent(p)' = Sent(p)
    BY <1>4 DEF OpenPageFails, LeaveStopped, LeaveGone, StreamTypes, Sent
  <2> QED
    BY <2>1 DEF StreamInv
<1>5. ASSUME NEW q \in Browsers, Leave(q) PROVE StreamInv(p)'
  <2>1. /\ UNCHANGED <<events, buffer, since, written, missed>>
        /\ closed' = closed \cup {q} /\ subscribers' = subscribers \ {q}
        /\ q # p => stream'[p] = stream[p]
        /\ q = p => stream'[p] = "gone"
        /\ Sent(p)' = Sent(p)
    BY <1>5 DEF Leave, UnsubscribePage, StreamTypes, Sent
  <2> QED
    BY <2>1 DEF StreamInv
<1>6. CASE UNCHANGED <<events, buffer, subscribers, closed, written, since, stream, missed>>
  <2>1. Sent(p)' = Sent(p)
    BY <1>6 DEF Sent
  <2> QED
    BY <1>6, <2>1 DEF StreamInv
<1> QED
  BY <1>1, <1>2, <1>3, <1>4, <1>5, <1>6
     DEF AdminNext, PageHandler, HostConnectedCall, HostDisconnectedCall,
         PeerConnectedCall, ScraperExit, StopAdmin, HandlersReturn, CloseHTTP3,
         Shutdown, ShutdownTimesOut, adminVars

(* An admin page gets the events broadcast since it subscribed, in their   *)
(* order and without a gap unless its channel was full, and no event is    *)
(* sent on a closed channel: the handler leaves the map and closes the     *)
(* channel under one lock, broadcast sends under the same one.             *)
THEOREM AdminEventsInOrder == AdminSpec => []EventsInOrder
<1>1. AdminInv /\ [AdminNext]_adminVars => AdminInv'
  BY StreamTypeStep, StreamStep DEF AdminInv
<1>2. AdminInv => EventsInOrder
  <2> SUFFICES ASSUME AdminInv, NEW p \in Browsers
               PROVE  LET w == written[p] \o buffer[p] IN
                      /\ p \in subscribers => p \notin closed
                      /\ \A i \in DOMAIN w :
                           since[p] + i <= w[i] /\ (i > 1 => w[i - 1] < w[i])
                      /\ p \in subscribers \ missed
                           => w = [i \in 1 .. events - since[p] |-> since[p] + i]
    BY DEF EventsInOrder
  <2>1. StreamInv(p) /\ StreamTypes
    BY DEF AdminInv
  <2>2. Sent(p) \in Seq(Nat)
    BY <2>1, SentNumbers
  <2>3. DOMAIN Sent(p) = 1 .. Len(Sent(p))
    BY <2>2, LenProperties
  <2>4. \A i \in DOMAIN Sent(p) :
          since[p] + i <= Sent(p)[i] /\ (i > 1 => Sent(p)[i - 1] < Sent(p)[i])
    BY <2>1, <2>3 DEF StreamInv, Between
  <2>5. p \in subscribers \ missed
          => Sent(p) = [i \in 1 .. events - since[p] |-> since[p] + i]
    BY <2>1 DEF StreamInv, All
  <2> QED
    BY <2>1, <2>4, <2>5 DEF StreamInv, Sent
<1> QED
  BY <1>1, <1>2, AdminInvInit, PTL DEF AdminSpec
-----------------------------------------------------------------------------
(* The bandwidth graph.  The slot k places behind slot h of the ring.      *)
Behind(h, k) == IF k <= h THEN h - k ELSE h - k + RingSize

Bucket == [t : Int, bytes : Int]

BandwidthTypes ==
  /\ relayed \in Nat /\ current \in Int /\ bwLast \in Int
  /\ bwRing \in [0 .. RingSize - 1 -> Bucket]
  /\ bwHead \in 0 .. RingSize - 1
  /\ deltas \in Seq(Int)
  /\ reading \in [count : Int, head : 0 .. RingSize - 1, upTo : Nat,
                  buckets : Seq(Bucket), t : Int]

(* The scraper's ring holds the last scrapes, the newest one right behind  *)
(* the write position.                                                     *)
ScrapesKept ==
  /\ bwCount = IF Len(deltas) < RingSize THEN Len(deltas) ELSE RingSize
  /\ Len(deltas) < RingSize => bwHead = Len(deltas)
  /\ \A m \in 1 .. Len(deltas) :
       Len(deltas) - m < RingSize
         => bwRing[Behind(bwHead, Len(deltas) - m + 1)] = [t |-> m, bytes |-> deltas[m]]

(* The scrape that the i-th bucket of the answer stands for.               *)
ScrapeOf(i) == reading.upTo - reading.count + i

(* Every slot the handler has yet to read, or has read, holds the scrape   *)
(* it stands for or one that has overwritten it.                           *)
SlotsFit ==
  \A i \in 1 .. reading.count :
    \E m \in InSlotOf(ScrapeOf(i)) :
      /\ Len(deltas) - m < RingSize
      /\ Behind(reading.head, reading.count - i + 1)
           = Behind(bwHead, Len(deltas) - m + 1)

BucketsFit ==
  \A i \in 1 .. Len(reading.buckets) :
    /\ reading.buckets[i].t \in InSlotOf(ScrapeOf(i))
    /\ \E m \in InSlotOf(ScrapeOf(i)) : reading.buckets[i].bytes = deltas[m]

ReadInv ==
  /\ reading.count = Nothing => reading = NotReading
  /\ reading.count # Nothing =>
       /\ reading.upTo <= Len(deltas)
       /\ reading.count = IF reading.upTo < RingSize THEN reading.upTo ELSE RingSize
       /\ Len(reading.buckets) <= reading.count
       /\ reading.t # Nothing => reading.t \in InSlotOf(ScrapeOf(Len(reading.buckets) + 1))
       /\ SlotsFit /\ BucketsFit

BandwidthInv == BandwidthTypes /\ ScrapesKept /\ ReadInv

LEMMA Multiples ==
  ASSUME NEW n \in Nat \ {0}, NEW q \in Nat
  PROVE  (n * q) % n = 0
  BY SMT

LEMMA NextMultiple ==
  ASSUME NEW n \in Nat \ {0}, NEW a \in Nat, a % n = 0
  PROVE  (a + n) % n = 0
<1>1. a = n * (a \div n) + (a % n) /\ a \div n \in Nat
  BY SMT
<1> DEFINE q == (a \div n) + 1
<1>2. q \in Nat /\ a + n = n * q
  BY <1>1
<1> HIDE DEF q
<1>3. (n * q) % n = 0
  BY <1>2, Multiples
<1> QED
  BY <1>2, <1>3

(* The slot handleBandwidth reads next.                                    *)
LEMMA SlotRead ==
  ASSUME BandwidthTypes, ReadInv, Unread
  PROVE  /\ reading.count # Nothing
         /\ Len(reading.buckets) + 1 \in 1 .. reading.count
         /\ slot = Behind(reading.head, reading.count - (Len(reading.buckets) + 1) + 1)
<1> DEFINE h == reading.head
           c == reading.count
           l == Len(reading.buckets)
<1>0. /\ h \in 0 .. RingSize - 1 /\ c \in Int /\ l \in Nat /\ RingSize \in Nat \ {0}
      /\ l < c
  BY BandwidthAssumption DEF BandwidthTypes, Unread
<1>1. c # Nothing /\ c <= RingSize
  BY <1>0, BandwidthAssumption DEF ReadInv, Nothing, BandwidthTypes
<1> DEFINE a == h - c + RingSize
<1>2. a \in 0 .. 2 * RingSize - 1
  BY <1>0, <1>1
<1> HIDE DEF a
<1>3. a % RingSize = IF a < RingSize THEN a ELSE a - RingSize
  BY <1>0, <1>2, WrapOnce
<1>4. a % RingSize = Behind(h, c)
  <2> HIDE DEF h, c, l
  <2> QED
    BY <1>0, <1>1, <1>3 DEF a, Behind
<1> DEFINE f == Behind(h, c)
<1>5. firstBucket = f
  BY <1>4 DEF a, firstBucket
<1>6. f \in 0 .. RingSize - 1 /\ l \in 0 .. RingSize
  <2> HIDE DEF h, c, l
  <2> QED
    BY <1>0, <1>1 DEF Behind
<1>7. slot = (f + l) % RingSize
  BY <1>5 DEF slot
<1> HIDE DEF f
<1>8. (f + l) % RingSize = IF f + l < RingSize THEN f + l ELSE f + l - RingSize
  BY <1>0, <1>6, SlotAfter
<1>9. (IF f + l < RingSize THEN f + l ELSE f + l - RingSize) = Behind(h, c - (l + 1) + 1)
  <2> HIDE DEF h, c, l
  <2> QED
    BY <1>0, <1>1 DEF f, Behind
<1> HIDE DEF h, c, l
<1>10. slot = Behind(h, c - (l + 1) + 1)
  BY <1>7, <1>8, <1>9
<1>11. l + 1 \in 1 .. c
  BY <1>0
<1> QED
  BY <1>1, <1>10, <1>11 DEF h, c, l

(* What it finds there.                                                    *)
LEMMA FoundThere ==
  ASSUME BandwidthTypes, ScrapesKept, ReadInv, Unread
  PROVE  \E m \in InSlotOf(ScrapeOf(Len(reading.buckets) + 1)) :
           bwRing[slot].t = m /\ bwRing[slot].bytes = deltas[m]
<1>1. SlotsFit /\ reading.upTo \in Nat /\ reading.upTo - reading.count >= 0
  <2>1. reading.upTo \in Nat /\ RingSize \in Nat
    BY BandwidthAssumption DEF BandwidthTypes
  <2> QED
    BY <2>1, SlotRead DEF ReadInv
<1> DEFINE j == Len(reading.buckets) + 1
<1>2. j \in 1 .. reading.count /\ slot = Behind(reading.head, reading.count - j + 1)
  BY SlotRead
<1> HIDE DEF j
<1>3. PICK m \in InSlotOf(ScrapeOf(j)) :
        /\ Len(deltas) - m < RingSize
        /\ Behind(reading.head, reading.count - j + 1) = Behind(bwHead, Len(deltas) - m + 1)
  BY <1>1, <1>2 DEF SlotsFit
<1>4. ScrapeOf(j) \in Nat /\ ScrapeOf(j) >= 1
  <2>1. reading.count \in Int
    BY DEF BandwidthTypes
  <2> QED
    BY <1>1, <1>2, <2>1 DEF ScrapeOf
<1>5. m \in 1 .. Len(deltas)
  BY <1>3, <1>4 DEF InSlotOf, BandwidthTypes
<1>6. bwRing[slot] = [t |-> m, bytes |-> deltas[m]]
  BY <1>2, <1>3, <1>5 DEF ScrapesKept
<1>7. bwRing[slot].t = m /\ bwRing[slot].bytes = deltas[m]
  BY <1>6
<1> QED
  BY <1>3, <1>7 DEF j

LEMMA BandwidthInvInit == BandwidthInit => BandwidthInv
<1> SUFFICES ASSUME BandwidthInit PROVE BandwidthInv
  OBVIOUS
<1> USE BandwidthAssumption DEF BandwidthInit
<1>0. <<>> \in Seq(Int) /\ <<>> \in Seq(Bucket) /\ Len(<<>>) = 0
  BY EmptySeq
<1>1. NoBucket \in Bucket
  BY DEF NoBucket, Bucket
<1>2. NotReading \in [count : Int, head : 0 .. RingSize - 1, upTo : Nat,
                      buckets : Seq(Bucket), t : Int]
  BY <1>0 DEF NotReading, Nothing
<1>3. BandwidthTypes
  BY <1>0, <1>1, <1>2 DEF BandwidthTypes, Nothing
<1>4. ScrapesKept
  BY <1>0 DEF ScrapesKept
<1>5. reading.count = Nothing
  BY DEF NotReading
<1>6. ReadInv
  BY <1>5 DEF ReadInv
<1> QED
  BY <1>3, <1>4, <1>6 DEF BandwidthInv

(* The scraper writes the slot of the oldest scrape, or a free one, and    *)
(* leaves the others where they are.                                       *)
LEMMA StoreFacts ==
  ASSUME BandwidthTypes, ScrapesKept, ScrapeStore
  PROVE  /\ BandwidthTypes' /\ Len(deltas') = Len(deltas) + 1
         /\ reading' = reading
         /\ \A m \in 1 .. Len(deltas) : deltas'[m] = deltas[m]
         /\ Len(deltas) \in Nat
         /\ bwHead' = IF bwHead + 1 < RingSize THEN bwHead + 1 ELSE 0
         /\ bwRing' = [bwRing EXCEPT ![bwHead] =
              [t |-> Len(deltas) + 1, bytes |-> deltas'[Len(deltas) + 1]]]
         /\ bwCount' = IF bwCount < RingSize THEN bwCount + 1 ELSE bwCount
<1> DEFINE delta == current - bwLast
           b == [t |-> Len(deltas) + 1, bytes |-> delta]
<1>0. /\ delta \in Int /\ deltas \in Seq(Int) /\ Len(deltas) \in Nat
      /\ bwHead \in 0 .. RingSize - 1 /\ RingSize \in Nat \ {0}
      /\ bwRing \in [0 .. RingSize - 1 -> Bucket]
  BY BandwidthAssumption DEF BandwidthTypes
<1>1. /\ deltas' = Append(deltas, delta) /\ reading' = reading /\ relayed' = relayed
      /\ bwLast' = current /\ current' = Nothing
      /\ bwRing' = [bwRing EXCEPT ![bwHead] = b]
      /\ bwHead' = (bwHead + 1) % RingSize
      /\ bwCount' = IF bwCount < RingSize THEN bwCount + 1 ELSE bwCount
  BY DEF ScrapeStore
<1>2. /\ deltas' \in Seq(Int) /\ Len(deltas') = Len(deltas) + 1
      /\ \A m \in 1 .. Len(deltas) : deltas'[m] = deltas[m]
      /\ deltas'[Len(deltas) + 1] = delta
  BY <1>0, <1>1, AppendProperties
<1>3. (bwHead + 1) % RingSize = IF bwHead + 1 < RingSize THEN bwHead + 1 ELSE 0
  <2>1. 1 \in 0 .. RingSize
    BY <1>0
  <2>2. (bwHead + 1) % RingSize
          = IF bwHead + 1 < RingSize THEN bwHead + 1 ELSE bwHead + 1 - RingSize
    BY <1>0, <2>1, SlotAfter
  <2> QED
    BY <1>0, <2>2
<1>4. bwHead' \in 0 .. RingSize - 1
  BY <1>0, <1>1, <1>3
<1>5. b \in Bucket
  BY <1>0 DEF Bucket
<1>6. bwRing' \in [0 .. RingSize - 1 -> Bucket]
  BY <1>0, <1>1, <1>5
<1>7. BandwidthTypes'
  BY <1>1, <1>2, <1>4, <1>6 DEF BandwidthTypes, Nothing
<1> QED
  BY <1>0, <1>1, <1>2, <1>3, <1>7

(* Where the scrapes are after that: m is as far behind the new write      *)
(* position as before behind the old one.                                  *)
LEMMA StaysBehind ==
  ASSUME NEW h \in 0 .. RingSize - 1, NEW k \in 1 .. RingSize,
         NEW g, g = IF h + 1 < RingSize THEN h + 1 ELSE 0
  PROVE  /\ k < RingSize => Behind(g, k + 1) = Behind(h, k) /\ Behind(h, k) # h
         /\ Behind(g, 1) = h /\ Behind(h, RingSize) = h
         /\ Behind(h, k) \in 0 .. RingSize - 1
  BY BandwidthAssumption DEF Behind

LEMMA StoreKeepsScrapes ==
  ASSUME BandwidthTypes, ScrapesKept, ScrapeStore
  PROVE  ScrapesKept'
<1> DEFINE d == Len(deltas)
           g == IF bwHead + 1 < RingSize THEN bwHead + 1 ELSE 0
           k == IF bwCount < RingSize THEN bwCount + 1 ELSE bwCount
<1>0. /\ d \in Nat /\ RingSize \in Nat \ {0} /\ bwHead \in 0 .. RingSize - 1
      /\ bwRing \in [0 .. RingSize - 1 -> Bucket]
  BY BandwidthAssumption, StoreFacts DEF BandwidthTypes
<1>1. /\ Len(deltas') = d + 1 /\ bwHead' = g /\ bwCount' = k
      /\ \A m \in 1 .. d : deltas'[m] = deltas[m]
      /\ bwRing' = [bwRing EXCEPT ![bwHead] = [t |-> d + 1, bytes |-> deltas'[d + 1]]]
  BY StoreFacts
<1>2. /\ bwCount = IF d < RingSize THEN d ELSE RingSize
      /\ d < RingSize => bwHead = d
      /\ \A m \in 1 .. d :
           d - m < RingSize
             => bwRing[Behind(bwHead, d - m + 1)] = [t |-> m, bytes |-> deltas[m]]
  BY DEF ScrapesKept
<1> HIDE DEF d
<1>3. /\ k = IF d + 1 < RingSize THEN d + 1 ELSE RingSize
      /\ d + 1 < RingSize => g = d + 1
  BY <1>0, <1>2
<1>4. ASSUME NEW m \in 1 .. d + 1, (d + 1) - m < RingSize
      PROVE  bwRing'[Behind(g, (d + 1) - m + 1)] = [t |-> m, bytes |-> deltas'[m]]
  <2>1. CASE m = d + 1
    <3>1. (d + 1) - m + 1 = 1 /\ 1 \in 1 .. RingSize
      BY <1>0, <2>1
    <3>2. Behind(g, 1) = bwHead
      BY <1>0, <3>1, StaysBehind
    <3> QED
      BY <1>0, <1>1, <2>1, <3>1, <3>2
  <2>2. CASE m # d + 1
    <3> DEFINE j == d - m + 1
    <3>1. /\ m \in 1 .. d /\ d - m < RingSize /\ (d + 1) - m + 1 = j + 1
          /\ j \in 1 .. RingSize /\ j < RingSize
      BY <1>0, <1>4, <2>2
    <3> HIDE DEF j
    <3>2. /\ Behind(g, j + 1) = Behind(bwHead, j) /\ Behind(bwHead, j) # bwHead
          /\ Behind(bwHead, j) \in 0 .. RingSize - 1
      BY <1>0, <3>1, StaysBehind
    <3>3. bwRing[Behind(bwHead, j)] = [t |-> m, bytes |-> deltas[m]]
      BY <1>2, <3>1 DEF j
    <3>4. bwRing'[Behind(bwHead, j)] = bwRing[Behind(bwHead, j)]
      BY <1>0, <1>1, <3>2
    <3> QED
      BY <1>1, <3>1, <3>2, <3>3, <3>4
  <2> QED
    BY <2>1, <2>2
<1> HIDE DEF g, k
<1>5. ASSUME NEW n, n = d + 1,
             \A m \in 1 .. n : n - m < RingSize
               => bwRing'[Behind(bwHead', n - m + 1)] = [t |-> m, bytes |-> deltas'[m]],
             bwCount' = IF n < RingSize THEN n ELSE RingSize,
             n < RingSize => bwHead' = n
      PROVE  ScrapesKept'
  <2>1. Len(deltas)' = n
    BY <1>1, <1>5
  <2> QED
    BY <1>5, <2>1 DEF ScrapesKept, Behind
<1> QED
  BY <1>1, <1>3, <1>4, <1>5

(* While the handler reads, the scraper may overwrite a slot it has yet to *)
(* read: by a scrape that is a whole number of rounds younger.             *)
LEMMA StoreKeepsReading ==
  ASSUME BandwidthTypes, ScrapesKept, ReadInv, ScrapeStore
  PROVE  ReadInv'
<1> DEFINE d == Len(deltas)
           g == IF bwHead + 1 < RingSize THEN bwHead + 1 ELSE 0
           S(n) == {m \in n .. d + 1 : (m - n) % RingSize = 0}
<1>0. /\ d \in Nat /\ RingSize \in Nat \ {0} /\ bwHead \in 0 .. RingSize - 1
      /\ reading.upTo \in Nat /\ reading.count \in Int
      /\ Len(reading.buckets) \in Nat
  BY BandwidthAssumption, StoreFacts DEF BandwidthTypes
<1>1. /\ Len(deltas') = d + 1 /\ bwHead' = g /\ reading' = reading
      /\ \A m \in 1 .. d : deltas'[m] = deltas[m]
  BY StoreFacts
<1>2. CASE reading.count = Nothing
  BY <1>1, <1>2 DEF ReadInv
<1>3. CASE reading.count # Nothing
  <2>0. /\ reading.upTo <= d /\ reading.upTo - reading.count >= 0
        /\ reading.count = IF reading.upTo < RingSize THEN reading.upTo ELSE RingSize
        /\ Len(reading.buckets) <= reading.count
        /\ reading.t # Nothing
             => reading.t \in InSlotOf(ScrapeOf(Len(reading.buckets) + 1))
        /\ SlotsFit /\ BucketsFit
    BY <1>0, <1>3 DEF ReadInv
  <2>1. \A i \in 1 .. RingSize + 1 : ScrapeOf(i) \in Nat /\ ScrapeOf(i) >= 1
    BY <1>0, <2>0 DEF ScrapeOf
  <2>2. \A n \in Nat : InSlotOf(n) \subseteq S(n) /\ InSlotOf(n) \subseteq n .. d
    BY <1>0 DEF InSlotOf
  <2>3. ASSUME NEW i \in 1 .. reading.count
        PROVE  \E m \in S(ScrapeOf(i)) :
                 /\ (d + 1) - m < RingSize
                 /\ Behind(reading.head, reading.count - i + 1)
                      = Behind(g, (d + 1) - m + 1)
    <3>0. i \in 1 .. RingSize + 1 /\ ScrapeOf(i) \in Nat /\ ScrapeOf(i) >= 1
      BY <1>0, <2>0, <2>1
    <3>1. PICK m \in InSlotOf(ScrapeOf(i)) :
            /\ d - m < RingSize
            /\ Behind(reading.head, reading.count - i + 1) = Behind(bwHead, d - m + 1)
      BY <2>0 DEF SlotsFit
    <3> DEFINE n == ScrapeOf(i)
               k == d - m + 1
               s == Behind(reading.head, reading.count - i + 1)
    <3>2. n \in Nat /\ n >= 1 /\ m \in n .. d /\ m \in S(n) /\ (m - n) % RingSize = 0
      BY <2>2, <3>0, <3>1 DEF InSlotOf
    <3>3. k \in 1 .. RingSize /\ (d + 1) - m + 1 = k + 1
      BY <1>0, <3>1, <3>2
    <3>4. s = Behind(bwHead, k)
      BY <3>1
    <3> HIDE DEF n, k, s
    <3>5. CASE k < RingSize
      <4>1. Behind(g, k + 1) = Behind(bwHead, k)
        BY <1>0, <3>3, <3>5, StaysBehind
      <4>2. (d + 1) - m < RingSize
        BY <1>0, <3>2, <3>3, <3>5
      <4>3. s = Behind(g, (d + 1) - m + 1)
        BY <3>3, <3>4, <4>1
      <4> QED
        BY <3>2, <4>2, <4>3 DEF n, s
    <3>6. CASE k = RingSize
      <4>1. Behind(g, 1) = bwHead /\ Behind(bwHead, RingSize) = bwHead
        BY <1>0, <3>3, StaysBehind
      <4>2. m - n \in Nat /\ d + 1 = m + RingSize /\ d + 1 \in n .. d + 1
            /\ (d + 1) - n = (m - n) + RingSize
        BY <1>0, <3>2, <3>6 DEF k
      <4>3. ((m - n) + RingSize) % RingSize = 0
        BY <1>0, <3>2, <4>2, NextMultiple
      <4>4. d + 1 \in S(n)
        BY <4>2, <4>3
      <4>5. (d + 1) - (d + 1) < RingSize /\ (d + 1) - (d + 1) + 1 = 1
        BY <1>0
      <4>6. s = Behind(g, (d + 1) - (d + 1) + 1)
        BY <3>4, <3>6, <4>1, <4>5
      <4> QED
        BY <4>4, <4>5, <4>6 DEF n, s
    <3> QED
      BY <1>0, <3>3, <3>5, <3>6
  <2>4. ASSUME NEW i \in 1 .. Len(reading.buckets)
        PROVE  /\ reading.buckets[i].t \in S(ScrapeOf(i))
               /\ \E m \in S(ScrapeOf(i)) : reading.buckets[i].bytes = deltas'[m]
    <3>0. i \in 1 .. RingSize + 1 /\ ScrapeOf(i) \in Nat /\ ScrapeOf(i) >= 1
      BY <1>0, <2>0, <2>1
    <3>1. reading.buckets[i].t \in InSlotOf(ScrapeOf(i))
      BY <2>0 DEF BucketsFit
    <3>2. PICK m \in InSlotOf(ScrapeOf(i)) : reading.buckets[i].bytes = deltas[m]
      BY <2>0 DEF BucketsFit
    <3>3. m \in 1 .. d
      BY <1>0, <2>2, <3>0, <3>2
    <3>4. deltas'[m] = deltas[m]
      BY <1>1, <3>3
    <3> QED
      BY <2>2, <3>0, <3>1, <3>2, <3>4
  <2>5. reading.t # Nothing => reading.t \in S(ScrapeOf(Len(reading.buckets) + 1))
    <3>1. Len(reading.buckets) + 1 \in 1 .. RingSize + 1
      BY <1>0, <2>0
    <3> QED
      BY <2>0, <2>1, <2>2, <3>1
  <2>6. \A n : (InSlotOf(n))' = S(n)
    BY <1>1 DEF InSlotOf
  <2> HIDE DEF S
  <2>7. /\ \A i : (InSlotOf(ScrapeOf(i)))' = S(ScrapeOf(i))
        /\ reading'.t # Nothing
             => reading'.t \in (InSlotOf(ScrapeOf(Len(reading.buckets) + 1)))'
    BY <1>1, <2>5, <2>6 DEF ScrapeOf
  <2>8. SlotsFit'
    <3>1. \A i \in 1 .. reading'.count :
            \E m \in (InSlotOf(ScrapeOf(i)))' :
              /\ Len(deltas') - m < RingSize
              /\ Behind(reading'.head, reading'.count - i + 1)
                   = Behind(bwHead', Len(deltas') - m + 1)
      BY <1>1, <2>3, <2>7
    <3> QED
      BY <3>1 DEF SlotsFit, Behind
  <2>9. BucketsFit'
    BY <1>1, <2>4, <2>7 DEF BucketsFit
  <2>10. reading'.count # Nothing /\ reading'.upTo <= Len(deltas')
         /\ reading'.count = (IF reading'.upTo < RingSize THEN reading'.upTo ELSE RingSize)
         /\ Len(reading'.buckets) <= reading'.count
    BY <1>0, <1>1, <1>3, <2>0
  <2> QED
    BY <2>7, <2>8, <2>9, <2>10 DEF ReadInv
<1> QED
  BY <1>2, <1>3

(* The scraper's state does not change: the slots still fit.               *)
LEMMA ScraperIdle ==
  ASSUME UNCHANGED <<bwRing, bwHead, bwCount, deltas>>, ScrapesKept
  PROVE  ScrapesKept' /\ \A n : InSlotOf(n)' = InSlotOf(n)
  BY DEF ScrapesKept, InSlotOf, Behind

(* The position is copied: each slot holds the scrape it stands for.       *)
LEMMA CopyFits ==
  ASSUME BandwidthTypes, ScrapesKept, CopyPosition
  PROVE  BandwidthTypes' /\ ReadInv'
<1> DEFINE d == Len(deltas)
           c == IF d < RingSize THEN d ELSE RingSize
<1>0. /\ d \in Nat /\ RingSize \in Nat \ {0} /\ bwHead \in 0 .. RingSize - 1
      /\ <<>> \in Seq(Bucket) /\ Len(<<>>) = 0 /\ c \in Nat
  BY BandwidthAssumption, EmptySeq DEF BandwidthTypes
<1>1. /\ reading' = [count |-> c, head |-> bwHead, upTo |-> d, buckets |-> <<>>,
                     t |-> Nothing]
      /\ UNCHANGED <<relayed, current, bwRing, bwHead, bwCount, bwLast, deltas>>
  BY DEF CopyPosition, scraperVars, ScrapesKept
<1>2. /\ reading'.count = c /\ reading'.head = bwHead /\ reading'.upTo = d
      /\ reading'.buckets = <<>> /\ reading'.t = Nothing
  BY <1>1
<1>3. BandwidthTypes'
  BY <1>0, <1>1 DEF BandwidthTypes, Nothing
<1>4. ASSUME NEW i \in 1 .. c
      PROVE  \E m \in InSlotOf(d - c + i) :
               d - m < RingSize /\ Behind(bwHead, c - i + 1) = Behind(bwHead, d - m + 1)
  <2> DEFINE m == d - c + i
  <2>1. m \in m .. d /\ m - m = 0 /\ d - m < RingSize /\ c - i + 1 = d - m + 1
    BY <1>0
  <2>2. 0 % RingSize = 0
    BY <1>0, SMT
  <2>3. m \in InSlotOf(m)
    BY <2>1, <2>2 DEF InSlotOf
  <2> HIDE DEF m
  <2>4. Behind(bwHead, c - i + 1) = Behind(bwHead, d - m + 1)
    BY <2>1
  <2>5. InSlotOf(m) = InSlotOf(d - c + i)
    BY DEF m
  <2> QED
    BY <2>1, <2>3, <2>4, <2>5
<1> HIDE DEF c, d
<1>5. SlotsFit'
  <2>1. \A i \in 1 .. reading'.count :
          \E m \in InSlotOf(d - c + i) :
            /\ Len(deltas') - m < RingSize
            /\ Behind(reading'.head, reading'.count - i + 1)
                 = Behind(bwHead', Len(deltas') - m + 1)
    BY <1>1, <1>2, <1>4 DEF d
  <2>2. \A i : InSlotOf(ScrapeOf(i))' = InSlotOf(d - c + i)
    BY <1>1, <1>2 DEF InSlotOf, ScrapeOf
  <2> QED
    BY <2>1, <2>2 DEF SlotsFit, Behind
<1>6. BucketsFit'
  BY <1>0, <1>2 DEF BucketsFit
<1>7. reading'.count # Nothing /\ reading'.upTo <= Len(deltas')
      /\ reading'.count = (IF reading'.upTo < RingSize THEN reading'.upTo ELSE RingSize)
      /\ Len(reading'.buckets) <= reading'.count /\ reading'.t = Nothing
  BY <1>0, <1>1, <1>2 DEF Nothing, c, d
<1>8. ReadInv'
  BY <1>5, <1>6, <1>7 DEF ReadInv
<1> QED
  BY <1>3, <1>8

(* Time and bytes of a bucket are read one by one; each comes from a       *)
(* scrape that belongs there.                                              *)
LEMMA ReadFits ==
  ASSUME BandwidthTypes, ScrapesKept, ReadInv, ReadTime \/ ReadBytes
  PROVE  BandwidthTypes' /\ ReadInv'
<1> DEFINE l == Len(reading.buckets)
<1>0. Unread /\ UNCHANGED <<relayed, current, bwRing, bwHead, bwCount, bwLast, deltas>>
  BY DEF ReadTime, ReadBytes, scraperVars
<1>1. PICK m \in InSlotOf(ScrapeOf(l + 1)) :
        bwRing[slot].t = m /\ bwRing[slot].bytes = deltas[m]
  BY <1>0, FoundThere
<1>2. /\ reading.count # Nothing /\ l + 1 \in 1 .. reading.count
      /\ l \in Nat /\ reading.count \in Int
      /\ reading.upTo <= Len(deltas)
      /\ reading.count = IF reading.upTo < RingSize THEN reading.upTo ELSE RingSize
      /\ reading.t # Nothing => reading.t \in InSlotOf(ScrapeOf(l + 1))
      /\ SlotsFit /\ BucketsFit
  BY <1>0, SlotRead DEF ReadInv, BandwidthTypes
<1>3. m \in Int /\ bwRing[slot].bytes \in Int
  <2>1. /\ reading.head \in 0 .. RingSize - 1 /\ RingSize \in Nat \ {0}
        /\ reading.upTo \in Nat
    BY BandwidthAssumption DEF BandwidthTypes
  <2>2. reading.count - (l + 1) + 1 \in 1 .. RingSize
    BY <1>2, <2>1
  <2>3. slot = Behind(reading.head, reading.count - (l + 1) + 1)
    BY <1>0, SlotRead
  <2>4. \A k \in 1 .. RingSize : Behind(reading.head, k) \in 0 .. RingSize - 1
    BY <2>1 DEF Behind
  <2>5. slot \in 0 .. RingSize - 1
    BY <2>2, <2>3, <2>4
  <2>6. bwRing[slot] \in Bucket
    BY <2>5 DEF BandwidthTypes
  <2> QED
    BY <1>1, <2>6 DEF Bucket
<1>4. \A n : InSlotOf(n)' = InSlotOf(n)
  BY <1>0, ScraperIdle
<1>5. CASE ReadTime
  <2>1. /\ reading' = [reading EXCEPT !.t = m]
        /\ reading'.count = reading.count /\ reading'.head = reading.head
        /\ reading'.upTo = reading.upTo /\ reading'.buckets = reading.buckets
        /\ reading'.t = m
    BY <1>1, <1>5 DEF ReadTime, BandwidthTypes
  <2>2. BandwidthTypes'
    BY <1>0, <1>3, <2>1 DEF BandwidthTypes
  <2>3. \A i : InSlotOf(ScrapeOf(i))' = InSlotOf(ScrapeOf(i))
    BY <1>0, <2>1 DEF ScrapeOf, InSlotOf
  <2>4. SlotsFit' /\ BucketsFit'
    BY <1>0, <1>2, <2>1, <2>3 DEF SlotsFit, BucketsFit, Behind
  <2>5. reading'.t \in InSlotOf(ScrapeOf(Len(reading.buckets) + 1))'
    BY <1>1, <2>1, <2>3
  <2>6. Len(reading'.buckets) <= reading'.count
    BY <1>2, <2>1
  <2> QED
    BY <1>0, <1>2, <2>1, <2>2, <2>4, <2>5, <2>6 DEF ReadInv
<1>6. CASE ReadBytes
  <2> DEFINE b == [t |-> reading.t, bytes |-> bwRing[slot].bytes]
  <2>1. /\ reading' = [reading EXCEPT !.t = Nothing, !.buckets = Append(@, b)]
        /\ reading'.count = reading.count /\ reading'.head = reading.head
        /\ reading'.upTo = reading.upTo /\ reading'.t = Nothing
        /\ reading'.buckets = Append(reading.buckets, b)
        /\ reading.t \in Int /\ reading.t \in InSlotOf(ScrapeOf(l + 1))
    BY <1>2, <1>6 DEF ReadBytes, BandwidthTypes
  <2>2. b \in Bucket /\ b.t = reading.t /\ b.bytes = deltas[m]
    BY <1>1, <1>3, <2>1 DEF Bucket
  <2> HIDE DEF b
  <2>3. /\ reading'.buckets \in Seq(Bucket) /\ Len(reading'.buckets) = l + 1
        /\ \A i \in 1 .. l : reading'.buckets[i] = reading.buckets[i]
        /\ reading'.buckets[l + 1] = b
    BY <2>1, <2>2, AppendProperties DEF BandwidthTypes
  <2>4. BandwidthTypes'
    <3>1. reading' \in [count : Int, head : 0 .. RingSize - 1, upTo : Nat,
                        buckets : Seq(Bucket), t : Int]
      <4> DEFINE v == Append(reading.buckets, b)
      <4>1. v \in Seq(Bucket) /\ Nothing \in Int
        BY <2>1, <2>3 DEF Nothing
      <4>2. reading' = [reading EXCEPT !.t = Nothing, !.buckets = v]
        BY <2>1
      <4> HIDE DEF v
      <4> QED
        BY <4>1, <4>2 DEF BandwidthTypes
    <3> QED
      BY <1>0, <3>1 DEF BandwidthTypes
  <2>5. \A i : InSlotOf(ScrapeOf(i))' = InSlotOf(ScrapeOf(i))
    BY <1>0, <2>1 DEF ScrapeOf, InSlotOf
  <2>6. SlotsFit'
    BY <1>0, <1>2, <2>1, <2>5 DEF SlotsFit, Behind
  <2>7. ASSUME NEW i \in 1 .. l + 1
        PROVE  /\ reading'.buckets[i].t \in InSlotOf(ScrapeOf(i))
               /\ \E k \in InSlotOf(ScrapeOf(i)) : reading'.buckets[i].bytes = deltas[k]
    <3>1. CASE i = l + 1
      BY <1>1, <2>1, <2>2, <2>3, <3>1
    <3>2. CASE i # l + 1
      <4>1. i \in 1 .. l
        BY <1>2, <3>2
      <4> QED
        BY <1>2, <2>3, <4>1 DEF BucketsFit
    <3> QED
      BY <3>1, <3>2
  <2>8. BucketsFit'
    BY <1>0, <2>3, <2>5, <2>7 DEF BucketsFit
  <2>9. Len(reading'.buckets) <= reading'.count
    BY <1>2, <2>1, <2>3
  <2> QED
    BY <1>0, <1>2, <2>1, <2>4, <2>6, <2>8, <2>9 DEF ReadInv
<1> QED
  BY <1>5, <1>6

LEMMA BandwidthInvStep ==
  BandwidthInv /\ [BandwidthNext]_bandwidthVars => BandwidthInv'
<1> SUFFICES ASSUME BandwidthInv, [BandwidthNext]_bandwidthVars PROVE BandwidthInv'
  OBVIOUS
<1>0. BandwidthTypes /\ ScrapesKept /\ ReadInv
  BY DEF BandwidthInv
<1>1. CASE ScrapeStore
  BY <1>0, <1>1, StoreFacts, StoreKeepsScrapes, StoreKeepsReading DEF BandwidthInv
<1>2. CASE CopyPosition
  <2>1. UNCHANGED <<bwRing, bwHead, bwCount, deltas>>
    BY <1>2 DEF CopyPosition, scraperVars
  <2> QED
    BY <1>0, <1>2, <2>1, CopyFits, ScraperIdle DEF BandwidthInv
<1>3. CASE ReadTime \/ ReadBytes
  <2>1. UNCHANGED <<bwRing, bwHead, bwCount, deltas>>
    BY <1>3 DEF ReadTime, ReadBytes, scraperVars
  <2> QED
    BY <1>0, <1>3, <2>1, ReadFits, ScraperIdle DEF BandwidthInv
<1>4. CASE RelayByte \/ ScrapeStats \/ UNCHANGED bandwidthVars
  <2>1. UNCHANGED <<bwRing, bwHead, bwCount, deltas, reading>>
    BY <1>4 DEF RelayByte, ScrapeStats, scraperVars, bandwidthVars
  <2>2. BandwidthTypes'
    BY <1>0, <1>4, <2>1
       DEF RelayByte, ScrapeStats, scraperVars, bandwidthVars, BandwidthTypes
  <2>3. ReadInv'
    BY <1>0, <2>1 DEF ReadInv, SlotsFit, BucketsFit, ScrapeOf, InSlotOf, Behind
  <2> QED
    BY <1>0, <2>1, <2>2, <2>3, ScraperIdle DEF BandwidthInv
<1>5. CASE Respond
  <2>1. UNCHANGED <<relayed, current, bwRing, bwHead, bwCount, bwLast, deltas>>
        /\ reading' = NotReading
    BY <1>5 DEF Respond, scraperVars
  <2>2. reading'.count = Nothing /\ ReadInv'
    BY <2>1 DEF ReadInv, NotReading
  <2>3. NotReading \in [count : Int, head : 0 .. RingSize - 1, upTo : Nat,
                        buckets : Seq(Bucket), t : Int]
    BY BandwidthAssumption, EmptySeq DEF NotReading, Nothing
  <2>4. BandwidthTypes'
    BY <1>0, <2>1, <2>3 DEF BandwidthTypes
  <2> QED
    BY <1>0, <2>1, <2>2, <2>4, ScraperIdle DEF BandwidthInv
<1> QED
  BY <1>1, <1>2, <1>3, <1>4, <1>5 DEF BandwidthNext

(* The answer of handleBandwidth shows, in the place of each scrape of the *)
(* window, that scrape or one that overwrote it while the handler read the *)
(* ring without its lock: never an empty slot and nothing older, whatever  *)
(* the size of the ring and however often the scraper goes around.         *)
THEOREM GraphInWindow == BandwidthSpec => []GraphFitsWindow
<1>1. BandwidthInv => GraphFitsWindow
  <2> SUFFICES ASSUME BandwidthInv, reading # NotReading,
                      NEW i \in DOMAIN reading.buckets
               PROVE  LET n == reading.upTo - reading.count + i
                          b == reading.buckets[i]
                      IN /\ b.t \in InSlotOf(n)
                         /\ \E m \in InSlotOf(n) : b.bytes = deltas[m]
    BY DEF GraphFitsWindow
  <2>1. BucketsFit /\ reading.buckets \in Seq(Bucket)
    BY DEF BandwidthInv, ReadInv, BandwidthTypes
  <2>2. i \in 1 .. Len(reading.buckets)
    BY <2>1, LenProperties
  <2> QED
    BY <2>1, <2>2 DEF BucketsFit, ScrapeOf
<1> QED
  BY <1>1, BandwidthInvInit, BandwidthInvStep, PTL DEF BandwidthSpec
=============================================================================
