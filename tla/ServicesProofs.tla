--------------------------- MODULE ServicesProofs ---------------------------
(***************************************************************************)
(* Theorems of UdpRelay and Discovery, for any addresses, clients, number  *)
(* of workers and of packets; and the types of the composition that        *)
(* MCServices checks, with PageProofs for the log.                         *)
(***************************************************************************)
EXTENDS MCServices, PageProofs, FiniteSetTheorems

(* The UDP relay: workers that hold a packet.                              *)
Busy == {w \in Workers : worker[w] \in {"lookup", "write"}}

Sending == IF reader = "send" THEN 1 ELSE 0

(* Who has a packet has one with a source.                                 *)
HolderInv ==
  /\ reader = "send" => hand \in Addrs
  /\ \A w \in Workers : worker[w] \in {"lookup", "write"} => pkt[w] \in Addrs

(* The types without the counters, whose bounds follow from Conserved.     *)
CoreTypes ==
  /\ routes \in [Addrs -> Addrs \cup {NoAddr}]
  /\ done \in BOOLEAN
  /\ connClosed \in BOOLEAN
  /\ reader \in {"new", "check", "read", "send", "exit"}
  /\ hand \in Addrs \cup {NoAddr}
  /\ inbox \in Seq(Addrs) /\ Len(inbox) <= Cardinality(Workers)
  /\ worker \in [Workers -> {"select", "lookup", "write", "exit", "error"}]
  /\ pkt \in [Workers -> Addrs \cup {NoAddr}]

CounterTypes ==
  /\ in \in 0 .. MaxPackets
  /\ out \in Nat /\ dropped \in Nat /\ discarded \in Nat /\ failed \in Nat

(* A worker that ends without an error leaves nothing behind: the channel  *)
(* is closed and empty.                                                    *)
DrainedBeforeExit ==
  \A w \in Workers : worker[w] = "exit" => reader = "exit" /\ inbox = <<>>

RelayInv == CoreTypes /\ CounterTypes /\ HolderInv /\ Conserved /\ DrainedBeforeExit

(* There are finitely many busy workers.                                   *)
LEMMA BusyFinite ==
  /\ IsFiniteSet(Busy) /\ Cardinality(Busy) \in Nat
  /\ Cardinality(Workers) \in Nat
<1>1. Busy \in SUBSET Workers
  BY DEF Busy
<1>2. IsFiniteSet(Busy)
  BY <1>1, RelayAssumption, FS_Subset
<1> QED
  BY <1>2, RelayAssumption, FS_CardinalityType

(* What Conserved says, with names for its parts.                          *)
LEMMA ConservedIs ==
  Conserved <=> in = out + dropped + discarded + failed + Len(inbox) + Sending
                       + Cardinality(Busy)
  BY DEF Conserved, Sending, Busy

(* The counters never exceed what was read.                                *)
LEMMA CountersBounded == RelayInv => UdpRelayTypeOK
<1> SUFFICES ASSUME RelayInv PROVE UdpRelayTypeOK
  OBVIOUS
<1>1. Len(inbox) \in Nat /\ Sending \in Nat /\ Cardinality(Busy) \in Nat
  BY BusyFinite DEF RelayInv, CoreTypes, Sending
<1>2. in = out + dropped + discarded + failed + Len(inbox) + Sending + Cardinality(Busy)
  BY ConservedIs DEF RelayInv
<1>3. /\ in \in 0 .. MaxPackets /\ out \in 0 .. MaxPackets
      /\ dropped \in 0 .. MaxPackets /\ discarded \in 0 .. MaxPackets
      /\ failed \in 0 .. MaxPackets
  BY <1>1, <1>2, RelayAssumption DEF RelayInv, CounterTypes
<1> QED
  BY <1>3 DEF RelayInv, CoreTypes, UdpRelayTypeOK

(* The relay starts empty.                                                 *)
LEMMA RelayInvInit == UdpRelayInit => RelayInv
<1> SUFFICES ASSUME UdpRelayInit PROVE RelayInv
  OBVIOUS
<1> USE DEF UdpRelayInit
<1>1. inbox \in Seq(Addrs) /\ Len(inbox) = 0
  OBVIOUS
<1>2. CoreTypes
  <2>1. Len(inbox) <= Cardinality(Workers)
    BY <1>1, BusyFinite
  <2> QED
    BY <1>1, <2>1 DEF CoreTypes
<1>3. CounterTypes
  BY RelayAssumption DEF CounterTypes
<1>4. Busy = {} /\ Sending = 0
  BY DEF Busy, Sending
<1>5. Cardinality(Busy) = 0
  BY <1>4, FS_EmptySet
<1>6. Conserved
  BY <1>1, <1>4, <1>5, ConservedIs
<1>7. HolderInv /\ DrainedBeforeExit
  BY DEF HolderInv, DrainedBeforeExit
<1> QED
  BY <1>2, <1>3, <1>6, <1>7 DEF RelayInv

(* A step that touches neither packets nor goroutines.                     *)
LEMMA QuietStep ==
  ASSUME RelayInv, CoreTypes', UNCHANGED <<inbox, worker, pkt, reader, hand, stats>>
  PROVE  RelayInv'
  BY DEF RelayInv, CounterTypes, HolderInv, Conserved, DrainedBeforeExit, stats

(* One worker changes its state.                                           *)
LEMMA BusyChanges ==
  ASSUME CoreTypes, NEW w \in Workers,
         NEW s \in {"select", "lookup", "write", "exit", "error"},
         worker' = [worker EXCEPT ![w] = s]
  PROVE  /\ (w \notin Busy /\ s \in {"lookup", "write"})
              => Cardinality(Busy') = Cardinality(Busy) + 1
         /\ (w \in Busy /\ s \notin {"lookup", "write"})
              => Cardinality(Busy') = Cardinality(Busy) - 1
         /\ (w \in Busy <=> s \in {"lookup", "write"}) => Busy' = Busy
<1>1. ASSUME w \notin Busy, s \in {"lookup", "write"}
      PROVE  Cardinality(Busy') = Cardinality(Busy) + 1
  <2>1. Busy' = Busy \cup {w}
    BY <1>1 DEF Busy, CoreTypes
  <2> QED
    BY <1>1, <2>1, BusyFinite, FS_AddElement
<1>2. ASSUME w \in Busy, s \notin {"lookup", "write"}
      PROVE  Cardinality(Busy') = Cardinality(Busy) - 1
  <2>1. Busy' = Busy \ {w}
    BY <1>2 DEF Busy, CoreTypes
  <2> QED
    BY <1>2, <2>1, BusyFinite, FS_RemoveElement
<1>3. ASSUME w \in Busy <=> s \in {"lookup", "write"} PROVE Busy' = Busy
  BY <1>3 DEF Busy, CoreTypes
<1> QED
  BY <1>1, <1>2, <1>3

(* Every step of the relay keeps the invariant: it moves a packet from one *)
(* place to the next, or none.                                             *)
LEMMA RelayInvStep == RelayInv /\ [UdpRelayNext]_relayVars => RelayInv'
<1> SUFFICES ASSUME RelayInv, [UdpRelayNext]_relayVars PROVE RelayInv'
  OBVIOUS
<1>0. /\ CoreTypes /\ CounterTypes /\ HolderInv /\ DrainedBeforeExit
      /\ Len(inbox) \in Nat /\ Cardinality(Busy) \in Nat
      /\ in = out + dropped + discarded + failed + Len(inbox) + Sending
                + Cardinality(Busy)
  BY ConservedIs, BusyFinite DEF RelayInv, CoreTypes
<1> USE DEF readerVars, workerVars, stats
<1>1. ASSUME NEW a \in Addrs, NEW b \in Addrs, AddRoute(a, b) \/ RemoveRoute(a, b)
      PROVE  RelayInv'
  <2>1. CoreTypes'
    BY <1>0, <1>1 DEF AddRoute, RemoveRoute, CoreTypes
  <2> QED
    BY <1>1, <2>1, QuietStep DEF AddRoute, RemoveRoute
<1>2. ASSUME NEW a \in Addrs, RemoveAllRoutes(a) PROVE RelayInv'
  <2>1. CoreTypes'
    BY <1>0, <1>2 DEF RemoveAllRoutes, CoreTypes
  <2> QED
    BY <1>2, <2>1, QuietStep DEF RemoveAllRoutes
<1>3. CASE Close \/ CloseConn \/ UNCHANGED relayVars
  <2>1. CoreTypes'
    BY <1>0, <1>3 DEF Close, CloseConn, CoreTypes, relayVars
  <2> QED
    BY <1>3, <2>1, QuietStep DEF Close, CloseConn, relayVars
<1>4. CASE Serve \/ CheckDone \/ ReadTimeout \/ ReadFails
  <2>1. /\ reader # "send" /\ reader' # "send" /\ reader # "exit"
        /\ reader' \in {"check", "read", "exit"}
        /\ UNCHANGED <<routes, done, connClosed, hand, inbox, worker, pkt, in, out,
                       dropped, discarded, failed>>
    BY <1>4 DEF Serve, CheckDone, ReadTimeout, ReadFails
  <2>2. CoreTypes' /\ CounterTypes'
    BY <1>0, <2>1 DEF CoreTypes, CounterTypes
  <2>3. HolderInv'
    BY <1>0, <2>1 DEF HolderInv
  <2>4. Conserved'
    BY <2>1 DEF Conserved, RelayInv
  <2>5. DrainedBeforeExit'
    BY <1>0, <2>1 DEF DrainedBeforeExit
  <2> QED
    BY <2>2, <2>3, <2>4, <2>5 DEF RelayInv
<1>5. ASSUME NEW a \in Addrs, ReadPacket(a) PROVE RelayInv'
  <2>1. /\ reader = "read" /\ reader' = "send" /\ in < MaxPackets /\ in' = in + 1
        /\ hand' = a
        /\ UNCHANGED <<routes, done, connClosed, inbox, worker, pkt, out, dropped,
                       discarded, failed>>
    BY <1>5 DEF ReadPacket
  <2>2. CoreTypes'
    BY <1>0, <2>1 DEF CoreTypes
  <2>3. CounterTypes'
    BY <1>0, <2>1, RelayAssumption DEF CounterTypes
  <2>4. HolderInv' /\ DrainedBeforeExit'
    BY <1>0, <2>1 DEF HolderInv, DrainedBeforeExit
  <2>5. Sending = 0 /\ Sending' = 1 /\ Busy' = Busy
    BY <2>1 DEF Sending, Busy
  <2>6. in' = out' + dropped' + discarded' + failed' + Len(inbox') + Sending'
                + Cardinality(Busy')
    BY <1>0, <2>1, <2>5 DEF CounterTypes
  <2>7. Conserved'
    BY <2>6 DEF Conserved, Sending, Busy
  <2> QED
    BY <2>2, <2>3, <2>4, <2>7 DEF RelayInv
<1>6. CASE SendToInbox
  <2>1. /\ reader = "send" /\ reader' = "check" /\ Len(inbox) < Cardinality(Workers)
        /\ inbox' = Append(inbox, hand) /\ hand' = NoAddr /\ hand \in Addrs
        /\ UNCHANGED <<routes, done, connClosed, worker, pkt, in, out, dropped,
                       discarded, failed>>
    BY <1>0, <1>6 DEF SendToInbox, InboxRoom, HolderInv
  <2>2. inbox' \in Seq(Addrs) /\ Len(inbox') = Len(inbox) + 1
    BY <1>0, <2>1, AppendProperties DEF CoreTypes
  <2>3. CoreTypes' /\ CounterTypes'
    <3>1. Len(inbox') <= Cardinality(Workers)
      BY <1>0, <2>1, <2>2, BusyFinite
    <3> QED
      BY <1>0, <2>1, <2>2, <3>1 DEF CoreTypes, CounterTypes
  <2>4. HolderInv' /\ DrainedBeforeExit'
    BY <1>0, <2>1 DEF HolderInv, DrainedBeforeExit
  <2>5. Sending = 1 /\ Sending' = 0 /\ Busy' = Busy
    BY <2>1 DEF Sending, Busy
  <2>6. in' = out' + dropped' + discarded' + failed' + Len(inbox') + Sending'
                + Cardinality(Busy')
    BY <1>0, <2>1, <2>2, <2>5 DEF CounterTypes
  <2>7. Conserved'
    BY <2>6 DEF Conserved, Sending, Busy
  <2> QED
    BY <2>3, <2>4, <2>7 DEF RelayInv
<1>7. CASE GiveUp
  <2>1. /\ reader = "send" /\ reader' = "exit" /\ discarded' = discarded + 1
        /\ hand' = NoAddr
        /\ UNCHANGED <<routes, done, connClosed, inbox, worker, pkt, in, out, dropped,
                       failed>>
    BY <1>7 DEF GiveUp
  <2>2. CoreTypes' /\ CounterTypes'
    BY <1>0, <2>1 DEF CoreTypes, CounterTypes
  <2>3. HolderInv' /\ DrainedBeforeExit'
    BY <1>0, <2>1 DEF HolderInv, DrainedBeforeExit
  <2>4. Sending = 1 /\ Sending' = 0 /\ Busy' = Busy
    BY <2>1 DEF Sending, Busy
  <2>5. in' = out' + dropped' + discarded' + failed' + Len(inbox') + Sending'
                + Cardinality(Busy')
    BY <1>0, <2>1, <2>4 DEF CounterTypes
  <2>6. Conserved'
    BY <2>5 DEF Conserved, Sending, Busy
  <2> QED
    BY <2>2, <2>3, <2>6 DEF RelayInv
<1>8. ASSUME NEW w \in Workers, Take(w) PROVE RelayInv'
  <2>1. /\ worker[w] = "select" /\ inbox # <<>> /\ inbox' = Tail(inbox)
        /\ pkt' = [pkt EXCEPT ![w] = Head(inbox)]
        /\ worker' = [worker EXCEPT ![w] = "lookup"]
        /\ UNCHANGED <<routes, done, connClosed, reader, hand, in, out, dropped,
                       discarded, failed>>
    BY <1>8 DEF Take
  <2>2. /\ inbox \in Seq(Addrs) /\ Head(inbox) \in Addrs /\ inbox' \in Seq(Addrs)
        /\ Len(inbox') = Len(inbox) - 1
    BY <1>0, <2>1, HeadTailProperties DEF CoreTypes
  <2>3. CoreTypes' /\ CounterTypes'
    <3>1. Len(inbox') <= Cardinality(Workers)
      BY <1>0, <2>2, BusyFinite DEF CoreTypes
    <3> QED
      BY <1>0, <2>1, <2>2, <3>1 DEF CoreTypes, CounterTypes
  <2>4. HolderInv' /\ DrainedBeforeExit'
    BY <1>0, <2>1, <2>2 DEF HolderInv, DrainedBeforeExit, CoreTypes
  <2>5. w \notin Busy /\ Sending' = Sending /\ Sending \in Nat
    BY <2>1 DEF Busy, Sending
  <2>6. Cardinality(Busy') = Cardinality(Busy) + 1
    BY <1>0, <2>1, <2>5, BusyChanges
  <2>7. in' = out' + dropped' + discarded' + failed' + Len(inbox') + Sending'
                + Cardinality(Busy')
    BY <1>0, <2>1, <2>2, <2>5, <2>6 DEF CounterTypes
  <2>8. Conserved'
    BY <2>7 DEF Conserved, Sending, Busy
  <2> QED
    BY <2>3, <2>4, <2>8 DEF RelayInv
<1>9. ASSUME NEW w \in Workers, WorkerEnds(w) PROVE RelayInv'
  <2>1. /\ worker[w] = "select" /\ inbox = <<>> /\ reader = "exit"
        /\ worker' = [worker EXCEPT ![w] = "exit"]
        /\ UNCHANGED <<routes, done, connClosed, reader, hand, inbox, pkt, in, out,
                       dropped, discarded, failed>>
    BY <1>9 DEF WorkerEnds, inboxClosed
  <2>2. CoreTypes' /\ CounterTypes'
    BY <1>0, <2>1 DEF CoreTypes, CounterTypes
  <2>3. HolderInv' /\ DrainedBeforeExit'
    BY <1>0, <2>1 DEF HolderInv, DrainedBeforeExit, CoreTypes
  <2>4. Busy' = Busy
    BY <1>0, <2>1, BusyChanges DEF Busy
  <2>5. Conserved'
    BY <1>0, <2>1, <2>4 DEF Conserved, Busy, Sending
  <2> QED
    BY <2>2, <2>3, <2>5 DEF RelayInv
<1>10. ASSUME NEW w \in Workers, LookUpRoute(w), routes[pkt[w]] # NoAddr PROVE RelayInv'
  <2>1. /\ worker[w] = "lookup" /\ worker' = [worker EXCEPT ![w] = "write"]
        /\ UNCHANGED <<routes, done, connClosed, reader, hand, inbox, pkt, in, out,
                       dropped, discarded, failed>>
    BY <1>10 DEF LookUpRoute
  <2>2. CoreTypes' /\ CounterTypes'
    BY <1>0, <2>1 DEF CoreTypes, CounterTypes
  <2>3. HolderInv' /\ DrainedBeforeExit'
    BY <1>0, <2>1 DEF HolderInv, DrainedBeforeExit, CoreTypes
  <2>4. Busy' = Busy
    BY <1>0, <2>1, BusyChanges DEF Busy
  <2>5. Conserved'
    BY <1>0, <2>1, <2>4 DEF Conserved, Busy, Sending
  <2> QED
    BY <2>2, <2>3, <2>5 DEF RelayInv
<1>11. ASSUME NEW w \in Workers, NEW s \in {"select", "error"},
              worker[w] \in {"lookup", "write"},
              worker' = [worker EXCEPT ![w] = s],
              pkt' = [pkt EXCEPT ![w] = NoAddr],
              UNCHANGED <<routes, done, connClosed, reader, hand, inbox, in, discarded>>,
              \/ dropped' = dropped + 1 /\ UNCHANGED <<out, failed>>
              \/ out' = out + 1 /\ UNCHANGED <<dropped, failed>>
              \/ failed' = failed + 1 /\ UNCHANGED <<dropped, out>>
       PROVE  RelayInv'
  <2>1. CoreTypes'
    BY <1>0, <1>11 DEF CoreTypes
  <2>2. CounterTypes'
    BY <1>0, <1>11 DEF CounterTypes
  <2>3. HolderInv' /\ DrainedBeforeExit'
    BY <1>0, <1>11 DEF HolderInv, DrainedBeforeExit, CoreTypes
  <2>4. w \in Busy /\ Sending' = Sending /\ Sending \in Nat
    BY <1>11 DEF Busy, Sending
  <2>5. Cardinality(Busy') = Cardinality(Busy) - 1
    BY <1>0, <1>11, <2>4, BusyChanges
  <2>6. in' = out' + dropped' + discarded' + failed' + Len(inbox') + Sending'
                + Cardinality(Busy')
    <3>1. CASE dropped' = dropped + 1 /\ UNCHANGED <<out, failed>>
      BY <1>0, <1>11, <2>4, <2>5, <3>1 DEF CounterTypes
    <3>2. CASE out' = out + 1 /\ UNCHANGED <<dropped, failed>>
      BY <1>0, <1>11, <2>4, <2>5, <3>2 DEF CounterTypes
    <3>3. CASE failed' = failed + 1 /\ UNCHANGED <<dropped, out>>
      BY <1>0, <1>11, <2>4, <2>5, <3>3 DEF CounterTypes
    <3> QED
      BY <1>11, <3>1, <3>2, <3>3
  <2>7. Conserved'
    BY <2>6 DEF Conserved, Sending, Busy
  <2> QED
    BY <2>1, <2>2, <2>3, <2>7 DEF RelayInv
<1>12. ASSUME NEW w \in Workers, LookUpRoute(w), routes[pkt[w]] = NoAddr PROVE RelayInv'
  BY <1>12, <1>11 DEF LookUpRoute
<1>13. ASSUME NEW w \in Workers, Write(w) PROVE RelayInv'
  BY <1>13, <1>11 DEF Write
<1>14. ASSUME NEW w \in Workers, WriteFails(w) PROVE RelayInv'
  BY <1>14, <1>11 DEF WriteFails
<1> QED
  BY <1>1, <1>2, <1>3, <1>4, <1>5, <1>6, <1>7, <1>8, <1>9, <1>10, <1>12, <1>13, <1>14
  DEF UdpRelayNext, Reader, Worker

(* The invariant holds in every state of the UDP relay.                    *)
LEMMA AlwaysRelayInv == UdpRelaySpec => []RelayInv
  BY RelayInvInit, RelayInvStep, PTL DEF UdpRelaySpec

(* The reader gives up a packet only as its last step.                     *)
LEMMA GiveUpStep == GivesUpOne /\ [UdpRelayNext]_relayVars => GivesUpOne'
<1> SUFFICES ASSUME GivesUpOne, [UdpRelayNext]_relayVars PROVE GivesUpOne'
  OBVIOUS
<1> USE DEF GivesUpOne, readerVars, workerVars, stats
<1>1. CASE GiveUp
  <2>1. discarded = 0
    BY <1>1 DEF GiveUp
  <2> QED
    BY <1>1, <2>1 DEF GiveUp
<1>2. CASE Serve \/ CheckDone \/ ReadTimeout \/ ReadFails \/ SendToInbox
  BY <1>2 DEF Serve, CheckDone, ReadTimeout, ReadFails, SendToInbox
<1>3. ASSUME NEW a \in Addrs, ReadPacket(a) PROVE GivesUpOne'
  BY <1>3 DEF ReadPacket
<1>4. CASE Close
  BY <1>4 DEF Close
<1>5. CASE UNCHANGED <<discarded, done, reader>>
  BY <1>5
<1>6. ASSUME NEW w \in Workers, Worker(w) PROVE GivesUpOne'
  BY <1>6 DEF Worker, Take, WorkerEnds, LookUpRoute, Write, WriteFails
<1>7. ASSUME NEW a \in Addrs, NEW b \in Addrs,
             AddRoute(a, b) \/ RemoveRoute(a, b) \/ RemoveAllRoutes(a)
      PROVE  GivesUpOne'
  BY <1>7 DEF AddRoute, RemoveRoute, RemoveAllRoutes
<1> QED
  BY <1>1, <1>2, <1>3, <1>4, <1>5, <1>6, <1>7
  DEF UdpRelayNext, Reader, CloseConn, relayVars

(* No worker is busy when Serve is over, and one that has not failed has   *)
(* found inbox empty.                                                      *)
LEMMA ServedDrained == RelayInv => Drained
<1> SUFFICES ASSUME RelayInv, Served, NEW w \in Workers, worker[w] # "error"
             PROVE  in = out + dropped + failed + discarded
  BY DEF Drained
<1>1. reader = "exit" /\ inbox = <<>>
  BY DEF Served, RelayInv, DrainedBeforeExit
<1>2. Busy = {} /\ Sending = 0 /\ Len(inbox) = 0
  BY <1>1 DEF Served, Busy, Sending
<1>3. Cardinality(Busy) = 0
  BY <1>2, FS_EmptySet
<1>4. in = out + dropped + discarded + failed + Len(inbox) + Sending + Cardinality(Busy)
  BY ConservedIs DEF RelayInv
<1> QED
  BY <1>2, <1>3, <1>4 DEF RelayInv, CounterTypes

(* No packet is lost on the way through UDPRelay.Serve, for any number of  *)
(* workers: everything that was read is written, dropped for want of a     *)
(* route, failed, given up, or still on its way; Close makes the reader    *)
(* give up one packet at most; and when Serve is over inbox is empty       *)
(* unless every worker had failed.                                         *)
THEOREM RelayLosesNothing == UdpRelaySpec => []NothingLost
<1>1. RelayInv /\ GivesUpOne => NothingLost
  BY ServedDrained DEF RelayInv, NothingLost
<1>2. UdpRelayInit => GivesUpOne
  BY DEF UdpRelayInit, GivesUpOne
<1> QED
  BY <1>1, <1>2, GiveUpStep, AlwaysRelayInv, PTL DEF UdpRelaySpec
-----------------------------------------------------------------------------
(* Discovery: the datagrams.                                               *)
Datagrams ==
  [kind : {"request", "response"}, client : Clients, tx : 0 .. MaxCalls, addr : Publics]

DiscoveryTypes ==
  /\ calls \in [Clients -> 0 .. MaxCalls]
  /\ bind \in [Clients -> {"idle", "send", "read"}]
  /\ deadline \subseteq Clients
  /\ ctxEnded \subseteq Clients
  /\ answer \in [Clients -> Publics \cup {NoPublic}]
  /\ public \in [Clients -> Publics]
  /\ sentFrom \in [Clients -> SUBSET Publics]
  /\ wire \subseteq Datagrams

(* No datagram is of a later call than the current one, and those of the   *)
(* current one carry an address it was sent from.                          *)
WireInv ==
  \A m \in wire : /\ m.tx <= calls[m.client]
                  /\ m.tx = calls[m.client] => m.addr \in sentFrom[m.client]

(* A call that is not over has no answer yet.                              *)
PendingInv == \A c \in Clients : bind[c] # "idle" => answer[c] = NoPublic

DiscoveryInv == DiscoveryTypes /\ WireInv /\ PendingInv /\ AnswerOfThisCall

(* Nothing was sent and nothing answered at first.                         *)
LEMMA DiscoveryInvInit == DiscoveryInit => DiscoveryInv
<1> SUFFICES ASSUME DiscoveryInit PROVE DiscoveryInv
  OBVIOUS
<1>1. DiscoveryTypes
  BY DiscoveryAssumption DEF DiscoveryInit, DiscoveryTypes
<1> QED
  BY <1>1 DEF DiscoveryInit, DiscoveryInv, WireInv, PendingInv, AnswerOfThisCall

(* Every step of Bind, of Serve and of the network keeps the invariant.    *)
LEMMA DiscoveryInvStep == DiscoveryInv /\ [DiscoveryNext]_discoveryVars => DiscoveryInv'
<1> SUFFICES ASSUME DiscoveryInv, [DiscoveryNext]_discoveryVars PROVE DiscoveryInv'
  OBVIOUS
<1>0. DiscoveryTypes /\ WireInv /\ PendingInv /\ AnswerOfThisCall
  BY DEF DiscoveryInv
<1> USE DiscoveryAssumption DEF clientVars
<1>1. ASSUME NEW c \in Clients, BindCall(c) PROVE DiscoveryInv'
  <2>1. /\ bind[c] = "idle" /\ calls[c] < MaxCalls
        /\ calls' = [calls EXCEPT ![c] = calls[c] + 1]
        /\ bind' = [bind EXCEPT ![c] = "send"]
        /\ answer' = [answer EXCEPT ![c] = NoPublic]
        /\ sentFrom' = [sentFrom EXCEPT ![c] = {}]
        /\ ctxEnded' = ctxEnded \ {c}
        /\ UNCHANGED <<deadline, public, wire>>
    BY <1>1 DEF BindCall
  <2>2. DiscoveryTypes'
    BY <1>0, <2>1 DEF DiscoveryTypes
  <2>3. WireInv'
    <3> SUFFICES ASSUME NEW m \in wire
                 PROVE  /\ m.tx <= calls'[m.client]
                        /\ m.tx = calls'[m.client] => m.addr \in sentFrom'[m.client]
      BY <2>1 DEF WireInv
    <3>1. m.client \in Clients /\ m.tx \in Nat /\ m.tx <= calls[m.client]
          /\ calls[m.client] \in Nat
      BY <1>0 DEF DiscoveryTypes, Datagrams, WireInv
    <3>2. CASE m.client = c
      BY <1>0, <2>1, <3>1, <3>2 DEF DiscoveryTypes
    <3>3. CASE m.client # c
      BY <1>0, <2>1, <3>1, <3>3 DEF DiscoveryTypes, WireInv
    <3> QED
      BY <3>2, <3>3
  <2>4. PendingInv' /\ AnswerOfThisCall'
    BY <1>0, <2>1 DEF DiscoveryTypes, PendingInv, AnswerOfThisCall
  <2> QED
    BY <2>2, <2>3, <2>4 DEF DiscoveryInv
<1>2. ASSUME NEW c \in Clients, SendRequest(c) PROVE DiscoveryInv'
  <2>1. /\ bind[c] # "idle"
        /\ wire' = wire \cup {request(c)}
        /\ sentFrom' = [sentFrom EXCEPT ![c] = sentFrom[c] \cup {public[c]}]
        /\ deadline' = deadline \cup {c}
        /\ bind' = [bind EXCEPT ![c] = "read"]
        /\ UNCHANGED <<calls, ctxEnded, answer, public>>
    BY <1>2 DEF SendRequest
  <2>2. /\ request(c) \in Datagrams /\ request(c).client = c
        /\ request(c).tx = calls[c] /\ request(c).addr = public[c]
    BY <1>0 DEF request, Datagrams, DiscoveryTypes
  <2>3. DiscoveryTypes'
    BY <1>0, <2>1, <2>2 DEF DiscoveryTypes
  <2>4. WireInv'
    <3> SUFFICES ASSUME NEW m \in wire'
                 PROVE  /\ m.tx <= calls[m.client]
                        /\ m.tx = calls[m.client] => m.addr \in sentFrom'[m.client]
      BY <2>1 DEF WireInv
    <3>1. CASE m = request(c)
      BY <1>0, <2>1, <2>2, <3>1 DEF DiscoveryTypes
    <3>2. CASE m \in wire
      <4>1. m.client \in Clients
        BY <1>0, <3>2 DEF DiscoveryTypes, Datagrams
      <4>2. sentFrom[m.client] \subseteq sentFrom'[m.client]
        BY <1>0, <2>1, <4>1 DEF DiscoveryTypes
      <4> QED
        BY <1>0, <3>2, <4>2 DEF WireInv
    <3> QED
      BY <2>1, <3>1, <3>2
  <2>5. PendingInv' /\ AnswerOfThisCall'
    BY <1>0, <2>1 DEF DiscoveryTypes, PendingInv, AnswerOfThisCall
  <2> QED
    BY <2>3, <2>4, <2>5 DEF DiscoveryInv
<1>3. ASSUME NEW c \in Clients, GiveUpBind(c) \/ BindFails(c) \/ CancelBind(c)
      PROVE  DiscoveryInv'
  <2>1. /\ bind' \in {bind, [bind EXCEPT ![c] = "idle"]}
        /\ ctxEnded' \in {ctxEnded, ctxEnded \cup {c}}
        /\ deadline' \subseteq deadline
        /\ UNCHANGED <<calls, answer, public, sentFrom, wire>>
    BY <1>3 DEF GiveUpBind, BindFails, CancelBind
  <2>2. DiscoveryTypes'
    BY <1>0, <2>1 DEF DiscoveryTypes
  <2>3. WireInv' /\ PendingInv' /\ AnswerOfThisCall'
    BY <1>0, <2>1 DEF DiscoveryTypes, WireInv, PendingInv, AnswerOfThisCall
  <2> QED
    BY <2>2, <2>3 DEF DiscoveryInv
<1>4. ASSUME NEW c \in Clients, ReadAnswer(c) PROVE DiscoveryInv'
  <2>1. PICK m \in wire : /\ answers(c, m)
                          /\ answer' = [answer EXCEPT ![c] = m.addr]
                          /\ wire' = wire \ {m}
    BY <1>4 DEF ReadAnswer
  <2>2. /\ deadline' = deadline \ {c} /\ bind' = [bind EXCEPT ![c] = "idle"]
        /\ UNCHANGED <<calls, ctxEnded, public, sentFrom>>
    BY <1>4 DEF ReadAnswer
  <2>3. m.addr \in Publics /\ m.addr \in sentFrom[c]
    BY <1>0, <2>1 DEF answers, WireInv, DiscoveryTypes, Datagrams
  <2>4. DiscoveryTypes'
    BY <1>0, <2>1, <2>2, <2>3 DEF DiscoveryTypes
  <2>5. WireInv' /\ PendingInv' /\ AnswerOfThisCall'
    BY <1>0, <2>1, <2>2, <2>3 DEF DiscoveryTypes, WireInv, PendingInv, AnswerOfThisCall
  <2> QED
    BY <2>4, <2>5 DEF DiscoveryInv
<1>5. ASSUME NEW c \in Clients, AnswerRequest(c) PROVE DiscoveryInv'
  <2>1. PICK m \in wire : \/ wire' = (wire \ {m}) \cup {[m EXCEPT !.kind = "response"]}
                         \/ wire' = wire \ {m}
    BY <1>5 DEF AnswerRequest
  <2>2. UNCHANGED <<calls, bind, ctxEnded, deadline, answer, sentFrom, public>>
    BY <1>5 DEF AnswerRequest
  <2>3. LET r == [m EXCEPT !.kind = "response"]
        IN r \in Datagrams /\ r.client = m.client /\ r.tx = m.tx /\ r.addr = m.addr
    BY <1>0 DEF DiscoveryTypes, Datagrams
  <2>4. DiscoveryTypes' /\ WireInv'
    BY <1>0, <2>1, <2>2, <2>3 DEF DiscoveryTypes, WireInv
  <2>5. PendingInv' /\ AnswerOfThisCall'
    BY <1>0, <2>2 DEF PendingInv, AnswerOfThisCall
  <2> QED
    BY <2>4, <2>5 DEF DiscoveryInv
<1>6. ASSUME NEW c \in Clients, NEW a \in Publics, Rebind(c, a) PROVE DiscoveryInv'
  BY <1>0, <1>6 DEF Rebind, DiscoveryInv, DiscoveryTypes, WireInv, PendingInv,
     AnswerOfThisCall
<1>7. ASSUME NEW m \in wire, Lose(m) PROVE DiscoveryInv'
  BY <1>0, <1>7 DEF Lose, DiscoveryInv, DiscoveryTypes, WireInv, PendingInv,
     AnswerOfThisCall
<1>8. CASE SeeDone \/ ServeFails \/ CloseServer \/ UNCHANGED discoveryVars
  <2>1. UNCHANGED <<calls, bind, ctxEnded, deadline, answer, sentFrom, public, wire>>
    BY <1>8 DEF SeeDone, ServeFails, CloseServer, discoveryVars
  <2> QED
    BY <1>0, <2>1 DEF DiscoveryInv, DiscoveryTypes, WireInv, PendingInv, AnswerOfThisCall
<1> QED
  BY <1>1, <1>2, <1>3, <1>4, <1>5, <1>6, <1>7, <1>8 DEF DiscoveryNext

(* Bind returns an address its socket had while this very call was         *)
(* sending, and without a read deadline, for any number of clients and of  *)
(* calls, although datagrams are lost, delayed and answered twice and the  *)
(* NAT changes its mind: the transaction ID rules out the late answers.    *)
THEOREM BindAnswersThisCall == DiscoverySpec => []AnswerOfThisCall
<1>1. DiscoveryInv => AnswerOfThisCall
  BY DEF DiscoveryInv
<1> QED
  BY <1>1, DiscoveryInvInit, DiscoveryInvStep, PTL DEF DiscoverySpec
-----------------------------------------------------------------------------
(* The services next to each other: a step of MCServices is a step of one  *)
(* of them and leaves the others alone, so that each keeps its invariant.  *)
LEMMA ServicesStep ==
  [ServicesNext]_ServicesVars => [UdpRelayNext]_relayVars /\ [LogNext]_logVars
<1> SUFFICES ASSUME [ServicesNext]_ServicesVars
             PROVE  [UdpRelayNext]_relayVars /\ [LogNext]_logVars
  OBVIOUS
<1>1. UdpRelayNext \/ relayVars' = relayVars
  BY DEF ServicesNext, ServicesVars
<1>2. LogNext \/ logVars' = logVars
  BY DEF ServicesNext, ServicesVars
<1> QED
  BY <1>1, <1>2

(* The types of the relay and of the log page in the composition the runs  *)
(* check: no queue and no subscriber's channel exceeds its capacity.       *)
THEOREM ServicesTypes == ServicesSpec => []ServicesTypeOK
<1>1. ServicesInit => UdpRelayInit /\ LogInit
  BY DEF ServicesInit
<1>2. RelayInv /\ LogInv => ServicesTypeOK
  BY CountersBounded DEF LogInv, ServicesTypeOK
<1> QED
  BY <1>1, <1>2, ServicesStep, RelayInvInit, RelayInvStep, LogInvInit, LogInvStep, PTL
     DEF ServicesSpec
=============================================================================
