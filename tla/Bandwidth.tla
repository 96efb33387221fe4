------------------------------ MODULE Bandwidth ------------------------------
(***************************************************************************)
(* The bandwidth graph of the admin page (internal/registar/admin/         *)
(* admin.go): runBandwidthScraper puts a bucket per interval into a ring,  *)
(* handleBandwidth copies the position under the lock and reads the        *)
(* buckets after it has released it, while the scraper may go on.  A       *)
(* bucket is a time stamp, here the number of the scrape, and the bytes    *)
(* relayed since the one before; the two words are read one by one.        *)
(***************************************************************************)
EXTENDS Integers, Sequences

CONSTANTS
  RingSize,    \* buckets in the ring: bwWindow / scrapeInterval
  MaxScrapes,  \* bound on the scrapes
  MaxBytes     \* bound on the bytes relayed

ASSUME BandwidthAssumption ==
  RingSize \in Nat \ {0} /\ MaxScrapes \in Nat /\ MaxBytes \in Nat

VARIABLES
  relayed,     \* Server.relayBytes
  current,     \* what the scraper read of it, or Nothing between two ticks
  bwRing, bwHead, bwCount, bwLast,   \* the fields of Admin
  deltas,      \* ghost: the bytes of every scrape so far
  reading      \* handleBandwidth: the copied position and the buckets read

scraperVars == <<current, bwRing, bwHead, bwCount, bwLast, deltas>>
bandwidthVars == <<relayed, scraperVars, reading>>

Nothing == -1
NoBucket == [t |-> 0, bytes |-> 0]
NotReading == [count |-> Nothing, head |-> 0, upTo |-> 0, buckets |-> <<>>,
               t |-> Nothing]

BandwidthInit ==
  /\ relayed = 0
  /\ current = Nothing
  /\ bwRing = [i \in 0 .. RingSize - 1 |-> NoBucket]
  /\ bwHead = 0
  /\ bwCount = 0
  /\ bwLast = 0
  /\ deltas = <<>>
  /\ reading = NotReading
-----------------------------------------------------------------------------
(* The relays count what they pass on.                                     *)
RelayByte ==
  /\ relayed < MaxBytes
  /\ relayed' = relayed + 1
  /\ UNCHANGED <<scraperVars, reading>>

(* A tick: the counter is read before the lock is taken.                   *)
ScrapeStats ==
  /\ current = Nothing
  /\ Len(deltas) < MaxScrapes
  /\ current' = relayed
  /\ UNCHANGED <<relayed, bwRing, bwHead, bwCount, bwLast, deltas, reading>>

ScrapeStore ==
  LET delta == current - bwLast IN
  /\ current # Nothing
  /\ bwLast' = current
  /\ bwRing' = [bwRing EXCEPT ![bwHead] = [t |-> Len(deltas) + 1, bytes |-> delta]]
  /\ bwHead' = (bwHead + 1) % RingSize
  /\ bwCount' = IF bwCount < RingSize THEN bwCount + 1 ELSE bwCount
  /\ deltas' = Append(deltas, delta)
  /\ current' = Nothing
  /\ UNCHANGED <<relayed, reading>>
-----------------------------------------------------------------------------
(* The part of handleBandwidth under the lock.                             *)
CopyPosition ==
  /\ reading = NotReading
  /\ reading' = [count |-> bwCount, head |-> bwHead, upTo |-> Len(deltas),
                 buckets |-> <<>>, t |-> Nothing]
  /\ UNCHANGED <<relayed, scraperVars>>

(* Mutant: the walk starts at the write position.                          *)
firstBucketHead == reading.head

firstBucket == (reading.head - reading.count + RingSize) % RingSize

slot == (firstBucket + Len(reading.buckets)) % RingSize

Unread == Len(reading.buckets) < reading.count

ReadTime ==
  /\ Unread
  /\ reading.t = Nothing
  /\ reading' = [reading EXCEPT !.t = bwRing[slot].t]
  /\ UNCHANGED <<relayed, scraperVars>>

ReadBytes ==
  /\ Unread
  /\ reading.t # Nothing
  /\ reading' = [reading EXCEPT !.t = Nothing,
                   !.buckets = Append(@, [t |-> reading.t, bytes |-> bwRing[slot].bytes])]
  /\ UNCHANGED <<relayed, scraperVars>>

(* The answer is sent.                                                     *)
Respond ==
  /\ reading.count = Len(reading.buckets)
  /\ reading' = NotReading
  /\ UNCHANGED <<relayed, scraperVars>>

BandwidthNext ==
  \/ RelayByte \/ ScrapeStats \/ ScrapeStore
  \/ CopyPosition \/ ReadTime \/ ReadBytes \/ Respond

BandwidthSpec == BandwidthInit /\ [][BandwidthNext]_bandwidthVars
-----------------------------------------------------------------------------
(* The scrapes that may be in the slot of scrape n: itself, and those that *)
(* have overwritten it by now.                                             *)
InSlotOf(n) == {m \in n .. Len(deltas) : (m - n) % RingSize = 0}

(* A graph read while the scraper goes on shows, for every scrape that was *)
(* in the ring when the position was copied and in its place, that scrape  *)
(* or one that has overwritten it since, for the time and for the bytes:   *)
(* no slot that was never filled, nothing older than the window.           *)
GraphFitsWindow ==
  reading # NotReading =>
    \A i \in DOMAIN reading.buckets :
      LET n == reading.upTo - reading.count + i
          b == reading.buckets[i]
      IN /\ b.t \in InSlotOf(n)
         /\ \E m \in InSlotOf(n) : b.bytes = deltas[m]
=============================================================================
