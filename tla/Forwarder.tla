----------------------------- MODULE Forwarder ------------------------------
(***************************************************************************)
(* The forwarder (internal/forwarder).  A host accepts connections of      *)
(* peers and links each one with the local game in a goroutine of its own. *)
(* A peer accepts local game connections one at a time, links each one     *)
(* with its connection to the host, and joins again when a link was idle.  *)
(* A link is a pair of goroutines, one per direction.  Every forwarder     *)
(* belongs to a session, whose owner cancels its context and closes it.    *)
(***************************************************************************)
EXTENDS Naturals, FiniteSets

CONSTANTS
  MaxSessions,   \* bound on the sessions ever started
  Busy,          \* the sessions that connections arrive at
  MaxConns       \* bound on the connections that arrive at a session

ASSUME ForwarderAssumption == MaxSessions \in Nat /\ MaxConns \in Nat

Sessions == 1 .. MaxSessions
Conns == 1 .. MaxConns

(* The goroutines of a link: game to network, and network to game.         *)
Both == {"udp", "dg"}

VARIABLES
  kind,       \* "host" or "peer"; "none" before the session is started
  ctxDone,    \* sessions whose context is cancelled
  accepting,  \* where AcceptAndLink is
  queue,      \* connections waiting to be accepted
  arrived,    \* connections that arrived so far
  linked,     \* connections whose link has not been waited for
  live,       \* goroutines of each link that are running
  cause,      \* the first error of a peer's link
  lisDone,    \* peers whose gameListener is closed
  stuck,      \* peers whose gameListener is being closed for ever
  closed,     \* sessions whose QUIC transport is closed
  closer      \* progress of the owner's cancel and Close

fwdVars == <<kind, ctxDone, accepting, queue, arrived, linked, live, cause, lisDone,
             stuck, closed, closer>>

(* Every variable has its type; a peer has at most one link, and only a    *)
(* peer waits for a link or joins again.                                   *)
ForwarderTypeOK ==
  /\ kind \in [Sessions -> {"none", "host", "peer"}]
  /\ ctxDone \subseteq Sessions
  /\ accepting \in [Sessions -> {"none", "accept", "accepted", "link", "rejoin", "returned"}]
  /\ queue \in [Sessions -> 0 .. MaxConns]
  /\ arrived \in [Sessions -> 0 .. MaxConns]
  /\ linked \in [Sessions -> SUBSET Conns]
  /\ live \in [Sessions -> [Conns -> SUBSET Both]]
  /\ cause \in [Sessions -> {"none", "idle", "transport", "other"}]
  /\ lisDone \subseteq Sessions
  /\ stuck \subseteq Sessions
  /\ closed \subseteq Sessions
  /\ closer \in [Sessions -> {"none", "watch", "cancelled", "closing", "returned"}]
  /\ \A s \in Sessions :
       /\ kind[s] = "peer" => Cardinality(linked[s]) <= 1
       /\ accepting[s] \in {"link", "rejoin"} => kind[s] = "peer"

ForwarderInit ==
  /\ kind = [s \in Sessions |-> "none"]
  /\ ctxDone = {}
  /\ accepting = [s \in Sessions |-> "none"]
  /\ queue = [s \in Sessions |-> 0]
  /\ arrived = [s \in Sessions |-> 0]
  /\ linked = [s \in Sessions |-> {}]
  /\ live = [s \in Sessions |-> [c \in Conns |-> {}]]
  /\ cause = [s \in Sessions |-> "none"]
  /\ lisDone = {}
  /\ stuck = {}
  /\ closed = {}
  /\ closer = [s \in Sessions |-> "none"]

(* Register or Join has succeeded: AcceptAndLink and the owner's goroutine *)
(* that waits for the end of the session are started.                      *)
StartForwarder(s, k) ==
  /\ kind' = [kind EXCEPT ![s] = k]
  /\ accepting' = [accepting EXCEPT ![s] = "accept"]
  /\ closer' = [closer EXCEPT ![s] = "watch"]
  /\ UNCHANGED <<ctxDone, queue, arrived, linked, live, cause, lisDone, stuck, closed>>

(* External: a peer reached the host, or a game client sent a first packet *)
(* to the peer.                                                            *)
Arrive(s) ==
  /\ kind[s] # "none"
  /\ s \notin closed \cup lisDone
  /\ s \in Busy
  /\ arrived[s] < MaxConns
  /\ arrived' = [arrived EXCEPT ![s] = @ + 1]
  /\ queue' = [queue EXCEPT ![s] = @ + 1]
  /\ UNCHANGED <<kind, ctxDone, accepting, linked, live, cause, lisDone, stuck, closed,
                 closer>>
-----------------------------------------------------------------------------
(* linkConfig.link: an errgroup of two goroutines.  The first error is the *)
(* result and cancels the context of the other one.                        *)

StartLink(s, c) ==
  /\ linked' = [linked EXCEPT ![s] = @ \cup {c}]
  /\ live' = [live EXCEPT ![s][c] = Both]

(* Mutant: read waits for a packet without a deadline, and does not look   *)
(* at the context.                                                         *)
ReadSeesCtxNever(s, c) == FALSE

(* read looks at the context before every read of at most 100 ms.          *)
ReadSeesCtx(s, c) == s \in ctxDone \/ live[s][c] # Both

ReceiveReturns(s, c) == s \in ctxDone \/ live[s][c] # Both \/ s \in closed

EndGoroutine(s, c, g, why) ==
  /\ g \in live[s][c]
  /\ live' = [live EXCEPT ![s][c] = @ \ {g}]
  /\ cause' = [cause EXCEPT ![s] =
                 IF kind[s] = "peer" /\ live[s][c] = Both THEN why ELSE @]
  /\ UNCHANGED <<kind, ctxDone, accepting, queue, arrived, linked, lisDone, stuck,
                 closed, closer>>

(* The end of a goroutine that has to come.                                *)
LinkUnwinds(s, c) ==
  \/ ReadSeesCtx(s, c) /\ EndGoroutine(s, c, "udp", "other")
  \/ /\ ReceiveReturns(s, c)
     /\ \E why \in {"other"} \cup (IF s \in closed THEN {"transport"} ELSE {}) :
          EndGoroutine(s, c, "dg", why)

(* Either side of either direction fails; only a peer has an idle timeout. *)
LinkBreaks(s, c) ==
  \/ \E g \in Both : EndGoroutine(s, c, g, "other")
  \/ s \in closed /\ EndGoroutine(s, c, "udp", "transport")
  \/ kind[s] = "peer" /\ EndGoroutine(s, c, "udp", "idle")
-----------------------------------------------------------------------------
(* Host.                                                                   *)

(* Hoster.Accept: a connection may be chosen although the host is closed.  *)
HostAccept(s) ==
  /\ kind[s] = "host"
  /\ accepting[s] = "accept"
  /\ queue[s] > 0
  /\ queue' = [queue EXCEPT ![s] = @ - 1]
  /\ accepting' = [accepting EXCEPT ![s] = "accepted"]
  /\ UNCHANGED <<kind, ctxDone, arrived, linked, live, cause, lisDone, stuck, closed, closer>>

(* The goroutine of the link is counted and started; its dial of the game  *)
(* may fail.                                                               *)
HostLink(s) ==
  /\ kind[s] = "host"
  /\ accepting[s] = "accepted"
  /\ accepting' = [accepting EXCEPT ![s] = "accept"]
  /\ StartLink(s, arrived[s] - queue[s]) \/ UNCHANGED <<linked, live>>
  /\ UNCHANGED <<kind, ctxDone, queue, arrived, cause, lisDone, stuck, closed, closer>>

HostReturns(s) ==
  /\ kind[s] = "host"
  /\ accepting[s] = "accept"
  /\ s \in closed \cup ctxDone
  /\ accepting' = [accepting EXCEPT ![s] = "returned"]
  /\ UNCHANGED <<kind, ctxDone, queue, arrived, linked, live, cause, lisDone, stuck,
                 closed, closer>>

(* The goroutine of a link waits for its two directions and is done.       *)
HostUnlink(s, c) ==
  /\ kind[s] = "host"
  /\ c \in linked[s]
  /\ live[s][c] = {}
  /\ linked' = [linked EXCEPT ![s] = @ \ {c}]
  /\ UNCHANGED <<kind, ctxDone, accepting, queue, arrived, live, cause, lisDone, stuck,
                 closed, closer>>

(* Host.Close: the hoster is closed, then the links are waited for.        *)
HostClose(s) ==
  /\ kind[s] = "host"
  /\ \/ /\ closer[s] = "cancelled"
        /\ closed' = closed \cup {s}
        /\ closer' = [closer EXCEPT ![s] = "closing"]
     \/ /\ closer[s] = "closing"
        /\ linked[s] = {}
        /\ closer' = [closer EXCEPT ![s] = "returned"]
        /\ UNCHANGED closed
  /\ UNCHANGED <<kind, ctxDone, accepting, queue, arrived, linked, live, cause, lisDone,
                 stuck>>
-----------------------------------------------------------------------------
(* Peer.                                                                   *)

(* gameListener closes its socket when it is closed and no connection is   *)
(* left, and may then wait for ever with its lock held (UdpListener shows  *)
(* how).                                                                   *)
ClosesSocket(s, done, conns) == s \in done /\ conns = 0

(* Listener.Accept: a connection may be chosen although it is closed.      *)
PeerAccept(s) ==
  /\ kind[s] = "peer"
  /\ accepting[s] = "accept"
  /\ queue[s] > 0
  /\ queue' = [queue EXCEPT ![s] = @ - 1]
  /\ accepting' = [accepting EXCEPT ![s] = "link"]
  /\ StartLink(s, arrived[s] - queue'[s])
  /\ UNCHANGED <<kind, ctxDone, arrived, cause, lisDone, stuck, closed, closer>>

(* The link is over: the game connection is closed, and an idle peer joins *)
(* again.                                                                  *)
PeerUnlink(s) ==
  /\ kind[s] = "peer"
  /\ accepting[s] = "link"
  /\ s \notin stuck
  /\ \A c \in linked[s] : live[s][c] = {}
  /\ \/ /\ linked' = [linked EXCEPT ![s] = {}]
        /\ accepting' = [accepting EXCEPT ![s] = IF cause[s] = "idle" THEN "rejoin" ELSE "returned"]
        /\ cause' = [cause EXCEPT ![s] = "none"]
        /\ UNCHANGED stuck
     \/ /\ ClosesSocket(s, lisDone, queue[s])
        /\ stuck' = stuck \cup {s}
        /\ UNCHANGED <<linked, accepting, cause>>
  /\ UNCHANGED <<kind, ctxDone, queue, arrived, live, lisDone, closed, closer>>

(* Joiner.Join returns no error and the loop goes on, or fails and ends    *)
(* it.  After Joiner.Close, too, it may return without an error, and even  *)
(* without a connection (CallTells of Client); a link that is started then *)
(* has nothing to receive from.                                            *)
Rejoin(s) ==
  /\ accepting[s] = "rejoin"
  /\ accepting' = [accepting EXCEPT ![s] = "accept"]
  /\ UNCHANGED <<kind, ctxDone, queue, arrived, linked, live, cause, lisDone, stuck,
                 closed, closer>>

RejoinFails(s) ==
  /\ accepting[s] = "rejoin"
  /\ accepting' = [accepting EXCEPT ![s] = "returned"]
  /\ UNCHANGED <<kind, ctxDone, queue, arrived, linked, live, cause, lisDone, stuck,
                 closed, closer>>

(* Accept returns an error: the listener is closed, or its socket failed.  *)
PeerReturns(s) ==
  /\ kind[s] = "peer"
  /\ accepting[s] = "accept"
  /\ accepting' = [accepting EXCEPT ![s] = "returned"]
  /\ UNCHANGED <<kind, ctxDone, queue, arrived, linked, live, cause, lisDone, stuck,
                 closed, closer>>

(* gameListener.Close, called once by AfterFunc or by Peer.Close.          *)
CloseListener(s) ==
  /\ s \notin stuck
  /\ lisDone' = lisDone \cup {s}
  /\ stuck' \in {stuck} \cup
       (IF s \notin lisDone /\ ClosesSocket(s, lisDone', queue[s] + Cardinality(linked[s]))
        THEN {stuck \cup {s}} ELSE {})

(* The AfterFunc of AcceptAndLink, until it returns.                       *)
AfterFunc(s) ==
  /\ kind[s] = "peer"
  /\ s \in ctxDone \ lisDone
  /\ accepting[s] # "returned"
  /\ CloseListener(s)
  /\ UNCHANGED <<kind, ctxDone, accepting, queue, arrived, linked, live, cause, closed, closer>>

(* Peer.Close: the listener, then the joiner.                              *)
PeerClose(s) ==
  /\ kind[s] = "peer"
  /\ \/ /\ closer[s] = "cancelled"
        /\ CloseListener(s)
        /\ closer' = [closer EXCEPT ![s] = IF s \in stuck' THEN @ ELSE "closing"]
        /\ UNCHANGED closed
     \/ /\ closer[s] = "closing"
        /\ closed' = closed \cup {s}
        /\ closer' = [closer EXCEPT ![s] = "returned"]
        /\ UNCHANGED <<lisDone, stuck>>
  /\ UNCHANGED <<kind, ctxDone, accepting, queue, arrived, linked, live, cause>>
-----------------------------------------------------------------------------
(* The owner cancels the context, and then calls Close.                    *)
Cancel(s) ==
  /\ closer[s] = "watch"
  /\ ctxDone' = ctxDone \cup {s}
  /\ closer' = [closer EXCEPT ![s] = "cancelled"]
  /\ UNCHANGED <<kind, accepting, queue, arrived, linked, live, cause, lisDone, stuck, closed>>

AcceptAndLink(s) ==
  \/ HostAccept(s) \/ HostLink(s) \/ HostReturns(s)
  \/ PeerAccept(s) \/ PeerUnlink(s)
  \/ s \in lisDone /\ PeerReturns(s)
  \/ s \in ctxDone \cup closed /\ RejoinFails(s)

(* Steps that the goroutines take by themselves.                           *)
Goroutine(s) ==
  \/ AcceptAndLink(s) \/ AfterFunc(s) \/ HostClose(s) \/ PeerClose(s)
  \/ \E c \in Conns : LinkUnwinds(s, c) \/ HostUnlink(s, c)

(* Steps that depend on the network.                                       *)
Environment(s) ==
  \/ Arrive(s) \/ Rejoin(s) \/ RejoinFails(s) \/ PeerReturns(s)
  \/ \E c \in Conns : LinkBreaks(s, c)

(* Both goroutines of the session and all of its links have returned.      *)
Ended(s) == accepting[s] = "returned" /\ closer[s] = "returned" /\ linked[s] = {}
=============================================================================
