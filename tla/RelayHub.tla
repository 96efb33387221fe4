------------------------------ MODULE RelayHub ------------------------------
(***************************************************************************)
(* The relay of the registar server (Server.Relay and Server.relay in      *)
(* internal/registar/server.go).  When a direct connection is impossible   *)
(* the server draws a session ID and tells both ends to POST               *)
(* /relay/{sessionID}.  The end that comes first waits in relayWaiting;    *)
(* the second one takes it from there and starts a relay, two goroutines   *)
(* that copy datagrams in the two directions.                              *)
(***************************************************************************)
EXTENDS Naturals, FiniteSets

CONSTANTS
  Setups,   \* calls of initRelay, one per joiner that falls back
  Ends,     \* the request streams that come: <<setup, "host" or "peer">>
  NoEnd     \* no waiting stream, no partner

ASSUME EndsAssumption ==
  /\ IsFiniteSet(Setups)
  /\ Ends \subseteq Setups \X {"host", "peer"}
  /\ NoEnd \notin Ends

SetupOf(e) == e[1]

VARIABLES
  sid,           \* session ID of each setup, 0 before newSessionID
  lastID,        \* the last ID drawn
  pc,            \* handler of each relay request
  registered,    \* ends whose connection is in Server.registeredConns
  dead,          \* ends whose stream context is done
  relayWaiting,  \* Server.relayWaiting: session ID -> waiting stream
  ready,         \* waiting streams whose ready channel is closed
  partner,       \* the other stream of the relay an end belongs to
  loop,          \* the goroutine of relay() that receives from an end
  closePc,       \* progress of Server.Close
  joining        \* handlers of Register run in connectPeer, or may yet come

vars == <<sid, lastID, pc, registered, dead, relayWaiting, ready, partner, loop,
          closePc, joining>>

IDs == 0 .. Cardinality(Setups)

(* Every variable has its type.                                            *)
TypeOK ==
  /\ sid \in [Setups -> IDs]
  /\ lastID \in IDs
  /\ pc \in [Ends -> {"new", "checked", "met", "waiting", "returned"}]
  /\ registered \subseteq Ends
  /\ dead \subseteq Ends
  /\ relayWaiting \in [IDs -> Ends \cup {NoEnd}]
  /\ ready \subseteq Ends
  /\ partner \in [Ends -> Ends \cup {NoEnd}]
  /\ loop \in [Ends -> {"none", "recv", "send", "exit"}]
  /\ closePc \in {"open", "relays", "conns", "closed"}
  /\ joining \in BOOLEAN

Init ==
  /\ sid = [s \in Setups |-> 0]
  /\ lastID = 0
  /\ pc = [e \in Ends |-> "new"]
  /\ registered = Ends
  /\ dead = {}
  /\ relayWaiting = [i \in IDs |-> NoEnd]
  /\ ready = {}
  /\ partner = [e \in Ends |-> NoEnd]
  /\ loop = [e \in Ends |-> "none"]
  /\ closePc = "open"
  /\ joining = TRUE

shut == closePc # "open"                    \* s.ctx is cancelled
ID(e) == sid[SetupOf(e)]
-----------------------------------------------------------------------------
(* Mutant: the IDs of two setups collide.                                  *)
newSessionIDFixed(s) == 1

newSessionID(s) == lastID + 1

(* A handler that found no direct connection: initRelay tells both ends    *)
(* the ID.                                                                 *)
InitRelay(s) ==
  /\ joining
  /\ sid[s] = 0
  /\ sid' = [sid EXCEPT ![s] = newSessionID(s)]
  /\ lastID' = newSessionID(s)
  /\ UNCHANGED <<pc, registered, dead, relayWaiting, ready, partner, loop, closePc,
                 joining>>

(* No joiner comes after Close, and the last handler returns once it has   *)
(* had its host's mutex and the answers of both ends.  They are read       *)
(* without a timeout: it may never return.                                 *)
JoinsReturn ==
  /\ joining /\ shut
  /\ joining' = FALSE
  /\ UNCHANGED <<sid, lastID, pc, registered, dead, relayWaiting, ready, partner, loop,
                 closePc>>

(* Relay, first part: the connection must have been registered; the answer *)
(* is sent before the other end is known.                                  *)
RelayRequest(e) ==
  /\ pc[e] = "new"
  /\ ID(e) # 0
  /\ ~shut
  /\ pc' = [pc EXCEPT ![e] = IF e \in registered THEN "checked" ELSE "returned"]
  /\ UNCHANGED <<sid, lastID, registered, dead, relayWaiting, ready, partner, loop,
                 closePc, joining>>

(* Mutant: the second arrival does not see the first one.                  *)
SomeoneWaitsIgnored(e) == FALSE

(* Mutant: the missing entry is taken for a waiting stream.                *)
SomeoneWaitsAlways(e) == TRUE

SomeoneWaits(e) == relayWaiting[ID(e)] # NoEnd

TakeWaiting(e) == [relayWaiting EXCEPT ![ID(e)] = NoEnd]

(* The second arrival, under relayMu; the goroutine of the relay starts.   *)
Meet(e) ==
  LET first == relayWaiting[ID(e)] IN
  /\ pc[e] = "checked"
  /\ SomeoneWaits(e)
  /\ relayWaiting' = TakeWaiting(e)
  /\ partner' = [partner EXCEPT ![e] = first, ![first] = e]
  /\ loop' = [loop EXCEPT ![e] = "recv", ![first] = "recv"]
  /\ pc' = [pc EXCEPT ![e] = "met"]
  /\ UNCHANGED <<sid, lastID, registered, dead, ready, closePc, joining>>

(* Mutant: the waiting side is not told.                                   *)
CloseReadyMissing(e) ==
  /\ pc[e] = "met"
  /\ pc' = [pc EXCEPT ![e] = "returned"]
  /\ UNCHANGED <<sid, lastID, registered, dead, relayWaiting, ready, partner, loop,
                 closePc, joining>>

(* The deferred close(waiting.ready) of the second arrival.                *)
CloseReady(e) ==
  /\ pc[e] = "met"
  /\ ready' = ready \cup {partner[e]}
  /\ pc' = [pc EXCEPT ![e] = "returned"]
  /\ UNCHANGED <<sid, lastID, registered, dead, relayWaiting, partner, loop, closePc, joining>>

(* The first arrival.                                                      *)
Wait(e) ==
  /\ pc[e] = "checked"
  /\ ~SomeoneWaits(e)
  /\ relayWaiting' = [relayWaiting EXCEPT ![ID(e)] = e]
  /\ pc' = [pc EXCEPT ![e] = "waiting"]
  /\ UNCHANGED <<sid, lastID, registered, dead, ready, partner, loop, closePc, joining>>

(* Mutant: a stream that ends while it waits stays in the map.             *)
WaiterGoneKeeps(e) ==
  /\ pc[e] = "waiting"
  /\ e \in dead
  /\ pc' = [pc EXCEPT ![e] = "returned"]
  /\ UNCHANGED <<sid, lastID, registered, dead, relayWaiting, ready, partner, loop,
                 closePc, joining>>

(* Its stream ends: the entry of the ID is deleted, whoever it holds.      *)
WaiterGone(e) ==
  /\ pc[e] = "waiting"
  /\ e \in dead
  /\ relayWaiting' = [relayWaiting EXCEPT ![ID(e)] = NoEnd]
  /\ pc' = [pc EXCEPT ![e] = "returned"]
  /\ UNCHANGED <<sid, lastID, registered, dead, ready, partner, loop, closePc, joining>>

WaiterReady(e) ==
  /\ pc[e] = "waiting"
  /\ e \in ready
  /\ pc' = [pc EXCEPT ![e] = "returned"]
  /\ UNCHANGED <<sid, lastID, registered, dead, relayWaiting, ready, partner, loop,
                 closePc, joining>>
-----------------------------------------------------------------------------
(* relay(): one goroutine per direction under an errgroup whose context    *)
(* ends when the server closes or when either goroutine fails.             *)

(* Mutant: the goroutines depend on the server's context only.             *)
RelayCtxDoneServerOnly(e) == shut

RelayCtxDone(e) == shut \/ "exit" \in {loop[e], loop[partner[e]]}

Receive(e) ==
  /\ loop[e] = "recv"
  /\ \/ e \notin dead /\ loop' = [loop EXCEPT ![e] = "send"]
     \/ (e \in dead \/ RelayCtxDone(e)) /\ loop' = [loop EXCEPT ![e] = "exit"]
  /\ UNCHANGED <<sid, lastID, pc, registered, dead, relayWaiting, ready, partner,
                 closePc, joining>>

(* SendDatagram fails only on a closed stream; a datagram is never waited  *)
(* for on this side.                                                       *)
Send(e) ==
  /\ loop[e] = "send"
  /\ loop' = [loop EXCEPT ![e] = IF partner[e] \in dead THEN "exit" ELSE "recv"]
  /\ UNCHANGED <<sid, lastID, pc, registered, dead, relayWaiting, ready, partner,
                 closePc, joining>>

Relaying(e) ==
  partner[e] # NoEnd /\ ~(loop[e] = "exit" /\ loop[partner[e]] = "exit")
-----------------------------------------------------------------------------
(* A client closes, crashes or is cut off.                                 *)
Disconnect(e) ==
  /\ e \notin dead
  /\ dead' = dead \cup {e}
  /\ UNCHANGED <<sid, lastID, pc, registered, relayWaiting, ready, partner, loop,
                 closePc, joining>>

(* The AfterFunc of registerConn.                                          *)
ForgetConn(e) ==
  /\ e \in dead \cap registered
  /\ registered' = registered \ {e}
  /\ UNCHANGED <<sid, lastID, pc, dead, relayWaiting, ready, partner, loop, closePc, joining>>

HandlerRuns(e) == pc[e] \in {"checked", "met", "waiting"}

(* ServeQUICConn closes the connection once its handlers have returned, at *)
(* the latest when no handler of Register runs; before that it does what   *)
(* Disconnect does.                                                        *)
HangUp(e) ==
  /\ shut
  /\ ~HandlerRuns(e) /\ ~joining
  /\ e \notin dead
  /\ dead' = dead \cup {e}
  /\ UNCHANGED <<sid, lastID, pc, registered, relayWaiting, ready, partner, loop,
                 closePc, joining>>

(* Server.Close cancels s.ctx, waits for the relays, then for the          *)
(* connections, each of which waits for its handlers of Relay and Register.*)
Close ==
  /\ \/ closePc = "open" /\ closePc' = "relays"
     \/ /\ closePc = "relays"
        /\ \A e \in Ends : ~Relaying(e)
        /\ closePc' = "conns"
     \/ /\ closePc = "conns"
        /\ \A e \in Ends : ~HandlerRuns(e)
        /\ ~joining
        /\ closePc' = "closed"
  /\ UNCHANGED <<sid, lastID, pc, registered, dead, relayWaiting, ready, partner, loop,
                 joining>>
-----------------------------------------------------------------------------
Handler(e) ==
  Meet(e) \/ CloseReady(e) \/ Wait(e) \/ WaiterGone(e) \/ WaiterReady(e)

Copier(e) == Receive(e) \/ Send(e)

Next ==
  \/ \E s \in Setups : InitRelay(s)
  \/ \E e \in Ends : \/ RelayRequest(e) \/ Handler(e) \/ Copier(e)
                     \/ Disconnect(e) \/ ForgetConn(e) \/ HangUp(e)
  \/ JoinsReturn \/ Close

Spec == Init /\ [][Next]_vars

(* Steps that happen a bounded number of times: if one of those that can   *)
(* be taken is, each is in its turn.                                       *)
Steps ==
  \/ \E e \in Ends : Handler(e) \/ ForgetConn(e) \/ HangUp(e)
  \/ shut /\ Close

(* Goroutines run, but no datagram has to arrive: a goroutine that waits   *)
(* for one goes on only because its receive fails.  It takes a datagram    *)
(* that is there before it looks at its context, so this failure is strong *)
(* fairness: a client does not keep the queue filled for ever.  No answer  *)
(* has to arrive either: a handler of Register need not return.            *)
Fairness ==
  /\ WF_vars(Steps)
  /\ \A e \in Ends : WF_vars(Send(e)) /\ SF_vars(Receive(e) /\ loop'[e] = "exit")

FairSpec == Spec /\ Fairness
-----------------------------------------------------------------------------
Alone(e) == pc[e] = "waiting" /\ partner[e] = NoEnd

M == INSTANCE Meeting WITH
       Parties <- Ends, PlaceOf <- SetupOf,
       waits <- {e \in Ends : Alone(e)},
       pairs <- {{e, partner[e]} : e \in {f \in Ends : partner[f] # NoEnd}}

(* The map of waiting streams, the session IDs and the ready channels      *)
(* implement a meeting place for each setup: a relay joins the two ends of *)
(* one setup and of no other, only an end that is really waiting is taken, *)
(* an end that is relayed is never taken again, and nobody waits where a   *)
(* partner waits already.                                                  *)
ImplementsMeeting == M!MeetingSpec

(* An end that waits and has no partner can be found by its partner: the   *)
(* unconditional delete of a leaving waiter never takes away the entry of  *)
(* another one.                                                            *)
WaiterFindable ==
  \A e \in Ends : Alone(e) => relayWaiting[ID(e)] = e

(* Two ends of a setup that have both arrived are relayed unless one of    *)
(* them goes away: neither order of arrival makes them miss each other.    *)
Rendezvous ==
  \A s \in Setups :
    LET h == <<s, "host">>
        p == <<s, "peer">>
    IN  {h, p} \subseteq Ends =>
          ((HandlerRuns(h) /\ HandlerRuns(p)) ~>
            (partner[h] = p \/ {h, p} \cap dead # {}))

(* Streams that are gone are forgotten by both maps of the server.         *)
Forgotten ==
  (dead # {}) ~>
    \A e \in dead : e \notin registered /\ \A i \in IDs : relayWaiting[i] # e

Ending(e) == Relaying(e) /\ (shut \/ {e, partner[e]} \cap dead # {})

(* A relay ends when one of its two streams does, and when the server      *)
(* closes: no set of relays that are to end stays.                         *)
RelayEnds ==
  (\E e \in Ends : Ending(e)) ~> (\A e \in Ends : ~Ending(e))

(* Two things can keep Server.Close from returning, and nothing else can:  *)
(* an end that waits for a partner on a connection its client keeps open,  *)
(* which no context ends, and a handler of Register that has not returned, *)
(* as its reads have no timeout.  A relay, its goroutines and an end that  *)
(* was met never do; and when the exceptions are over, Close goes on.      *)
CloseReturns ==
  (closePc \in {"relays", "conns"}) ~>
    \/ closePc = "closed"
    \/ \E e \in Ends \ dead : Alone(e)
    \/ joining
=============================================================================
