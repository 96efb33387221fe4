------------------------------ MODULE UdpRelay ------------------------------
(***************************************************************************)
(* The UDP relay (internal/relay/relay.go).  Serve runs one goroutine that *)
(* reads packets into a channel and a fixed number of workers that take    *)
(* them out, look up the route of the source address and write the packet  *)
(* to its destination.  Routes are changed concurrently.  Close asks the   *)
(* goroutines to stop, and the owner of the socket may close it.           *)
(***************************************************************************)
EXTENDS Naturals, Sequences, FiniteSets

CONSTANTS
  Addrs,       \* addresses of clients
  Workers,     \* worker goroutines, which is also the capacity of inbox
  NoAddr,      \* no route, no packet
  MaxPackets   \* bound on the packets read

ASSUME RelayAssumption ==
  /\ NoAddr \notin Addrs
  /\ IsFiniteSet(Workers)
  /\ MaxPackets \in Nat

VARIABLES
  routes,      \* UDPRelay.routes
  done,        \* UDPRelay.done is closed
  connClosed,  \* the socket has been closed by its owner
  reader,      \* the reading goroutine
  hand,        \* source of the packet the reader holds
  inbox,       \* the channel of packets, each known by its source
  worker,      \* state of each worker
  pkt,         \* source of the packet a worker holds
  in, out, dropped,   \* bytesIn, bytesOut, droppedPackets, in packets
  discarded,   \* packets read and given up by the reader
  failed       \* packets whose write failed

relayVars == <<routes, done, connClosed, reader, hand, inbox, worker, pkt, in, out,
               dropped, discarded, failed>>
readerVars == <<reader, hand>>
workerVars == <<worker, pkt>>
stats == <<in, out, dropped, discarded, failed>>

(* Every variable has its type, and inbox never exceeds its capacity.      *)
UdpRelayTypeOK ==
  /\ routes \in [Addrs -> Addrs \cup {NoAddr}]
  /\ done \in BOOLEAN
  /\ connClosed \in BOOLEAN
  /\ reader \in {"new", "check", "read", "send", "exit"}
  /\ hand \in Addrs \cup {NoAddr}
  /\ inbox \in Seq(Addrs) /\ Len(inbox) <= Cardinality(Workers)
  /\ worker \in [Workers -> {"select", "lookup", "write", "exit", "error"}]
  /\ pkt \in [Workers -> Addrs \cup {NoAddr}]
  /\ \A n \in {in, out, dropped, discarded, failed} : n \in 0 .. MaxPackets

UdpRelayInit ==
  /\ routes = [a \in Addrs |-> NoAddr]
  /\ done = FALSE
  /\ connClosed = FALSE
  /\ reader = "new"
  /\ hand = NoAddr
  /\ inbox = <<>>
  /\ worker = [w \in Workers |-> "select"]
  /\ pkt = [w \in Workers |-> NoAddr]
  /\ in = 0 /\ out = 0 /\ dropped = 0 /\ discarded = 0 /\ failed = 0
-----------------------------------------------------------------------------
(* Routes.                                                                 *)

AddRoute(a, b) ==
  /\ routes' = [routes EXCEPT ![a] = b, ![b] = a]
  /\ UNCHANGED <<done, connClosed, readerVars, inbox, workerVars, stats>>

RemoveRoute(a, b) ==
  /\ routes' = [routes EXCEPT ![a] = NoAddr, ![b] = NoAddr]
  /\ UNCHANGED <<done, connClosed, readerVars, inbox, workerVars, stats>>

(* The loop deletes the key dst, which equals a, and not the key that led  *)
(* to it.                                                                  *)
RemoveAllRoutes(a) ==
  /\ routes' = [x \in Addrs |->
                  IF x = a \/ \E y \in Addrs : routes[y] = a /\ x = routes[y]
                  THEN NoAddr ELSE routes[x]]
  /\ UNCHANGED <<done, connClosed, readerVars, inbox, workerVars, stats>>
-----------------------------------------------------------------------------
(* Serve starts the goroutines; Close may have been called before.         *)
Serve ==
  /\ reader = "new"
  /\ reader' = "check"
  /\ UNCHANGED <<routes, done, connClosed, hand, inbox, workerVars, stats>>

(* The reading goroutine; inbox is closed when it exits.                   *)

inboxClosed == reader = "exit"

(* The top of the loop in readPacketWithTimeout.                           *)
CheckDone ==
  /\ reader = "check"
  /\ reader' = IF done THEN "exit" ELSE "read"
  /\ UNCHANGED <<routes, done, connClosed, hand, inbox, workerVars, stats>>

(* ReadFromUDPAddrPort: nothing within 100 ms, or a packet; or it fails,   *)
(* as SetReadDeadline may, and always does on a closed socket.             *)
ReadTimeout ==
  /\ reader = "read"
  /\ ~connClosed
  /\ reader' = "check"
  /\ UNCHANGED <<routes, done, connClosed, hand, inbox, workerVars, stats>>

ReadFails ==
  /\ reader = "read"
  /\ reader' = "exit"
  /\ UNCHANGED <<routes, done, connClosed, hand, inbox, workerVars, stats>>

ReadPacket(a) ==
  /\ reader = "read"
  /\ ~connClosed
  /\ in < MaxPackets
  /\ in' = in + 1
  /\ hand' = a
  /\ reader' = "send"
  /\ UNCHANGED <<routes, done, connClosed, inbox, workerVars, out, dropped, discarded,
                 failed>>

InboxRoom == Len(inbox) < Cardinality(Workers)

(* The select in readPackets.  With done closed and room in inbox either   *)
(* branch may be taken: the packet in hand is sent on or given up.         *)
SendToInbox ==
  /\ reader = "send"
  /\ InboxRoom
  /\ inbox' = Append(inbox, hand)
  /\ hand' = NoAddr
  /\ reader' = "check"
  /\ UNCHANGED <<routes, done, connClosed, workerVars, stats>>

GiveUp ==
  /\ reader = "send"
  /\ done
  /\ discarded' = discarded + 1
  /\ hand' = NoAddr
  /\ reader' = "exit"
  /\ UNCHANGED <<routes, done, connClosed, inbox, workerVars, in, out, dropped, failed>>
-----------------------------------------------------------------------------
(* The workers.                                                            *)

(* A packet from inbox, in the select or in the loop that drains it: once  *)
(* done is seen a worker goes on taking packets until inbox is closed.     *)
Take(w) ==
  /\ worker[w] = "select"
  /\ inbox # <<>>
  /\ pkt' = [pkt EXCEPT ![w] = Head(inbox)]
  /\ inbox' = Tail(inbox)
  /\ worker' = [worker EXCEPT ![w] = "lookup"]
  /\ UNCHANGED <<routes, done, connClosed, readerVars, stats>>

(* Mutant: done ends a worker at once.                                     *)
WorkerEndsOnDone(w) ==
  /\ worker[w] = "select"
  /\ done \/ (inbox = <<>> /\ inboxClosed)
  /\ worker' = [worker EXCEPT ![w] = "exit"]
  /\ UNCHANGED <<routes, done, connClosed, readerVars, inbox, pkt, stats>>

(* The channel is closed and empty.                                        *)
WorkerEnds(w) ==
  /\ worker[w] = "select"
  /\ inbox = <<>>
  /\ inboxClosed
  /\ worker' = [worker EXCEPT ![w] = "exit"]
  /\ UNCHANGED <<routes, done, connClosed, readerVars, inbox, pkt, stats>>

(* writePacket: without a route the packet is dropped and counted.         *)
LookUpRoute(w) ==
  /\ worker[w] = "lookup"
  /\ IF routes[pkt[w]] = NoAddr
     THEN /\ dropped' = dropped + 1
          /\ worker' = [worker EXCEPT ![w] = "select"]
          /\ pkt' = [pkt EXCEPT ![w] = NoAddr]
     ELSE /\ worker' = [worker EXCEPT ![w] = "write"]
          /\ UNCHANGED <<dropped, pkt>>
  /\ UNCHANGED <<routes, done, connClosed, readerVars, inbox, in, out,
                 discarded, failed>>

Write(w) ==
  /\ worker[w] = "write"
  /\ ~connClosed
  /\ out' = out + 1
  /\ worker' = [worker EXCEPT ![w] = "select"]
  /\ pkt' = [pkt EXCEPT ![w] = NoAddr]
  /\ UNCHANGED <<routes, done, connClosed, readerVars, inbox, in, dropped,
                 discarded, failed>>

(* A failed write ends the worker, not the group.                          *)
WriteFails(w) ==
  /\ worker[w] = "write"
  /\ failed' = failed + 1
  /\ worker' = [worker EXCEPT ![w] = "error"]
  /\ pkt' = [pkt EXCEPT ![w] = NoAddr]
  /\ UNCHANGED <<routes, done, connClosed, readerVars, inbox, in, out, dropped,
                 discarded>>
-----------------------------------------------------------------------------
Close ==
  /\ ~done
  /\ done' = TRUE
  /\ UNCHANGED <<routes, connClosed, readerVars, inbox, workerVars, stats>>

(* External: the owner of the socket closes it.                            *)
CloseConn ==
  /\ ~connClosed
  /\ connClosed' = TRUE
  /\ UNCHANGED <<routes, done, readerVars, inbox, workerVars, stats>>

Reader ==
  CheckDone \/ ReadTimeout \/ ReadFails \/ SendToInbox \/ GiveUp

Worker(w) ==
  Take(w) \/ WorkerEnds(w) \/ LookUpRoute(w) \/ Write(w) \/ WriteFails(w)

UdpRelayNext ==
  \/ \E a \in Addrs : \E b \in Addrs \ {a} : AddRoute(a, b) \/ RemoveRoute(a, b)
  \/ \E a \in Addrs : RemoveAllRoutes(a) \/ ReadPacket(a)
  \/ Serve \/ Reader
  \/ \E w \in Workers : Worker(w)
  \/ Close
  \/ CloseConn

UdpRelaySpec == UdpRelayInit /\ [][UdpRelayNext]_relayVars

(* The goroutines run; packets need not come, and nobody has to close.     *)
UdpRelayFairness == WF_relayVars(Reader) /\ \A w \in Workers : WF_relayVars(Worker(w))

-----------------------------------------------------------------------------
Served == reader = "exit" /\ \A w \in Workers : worker[w] \in {"exit", "error"}

(* Every packet that was read is in exactly one place: written, dropped,   *)
(* failed, given up, or still on its way; none is lost or sent twice.      *)
Conserved ==
  in = out + dropped + discarded + failed + Len(inbox)
         + (IF reader = "send" THEN 1 ELSE 0)
         + Cardinality({w \in Workers : worker[w] \in {"lookup", "write"}})

(* The reader gives up one packet at most, the one it holds when Close     *)
(* comes, though Close says it "will process all packets already read".    *)
GivesUpOne == discarded = 0 \/ (discarded = 1 /\ done /\ reader = "exit")

(* When Serve is over every packet that was read has been written, dropped *)
(* for want of a route, lost with a failed write or given up: the workers  *)
(* have emptied inbox, whatever order done, the packets and the end of the *)
(* reader came in, unless each of them had failed.                         *)
Drained ==
  Served =>
    \/ in = out + dropped + failed + discarded
    \/ \A w \in Workers : worker[w] = "error"

(* No packet is lost on the way through the relay, and its shutdown loses  *)
(* at most the one that the reader holds.                                  *)
NothingLost == Conserved /\ GivesUpOne /\ Drained

(* After Close, Serve returns, also if Close came first.                   *)
CloseStopsServe == (done /\ reader # "new") ~> Served
=============================================================================
