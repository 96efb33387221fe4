----------------------------- MODULE Connector ------------------------------
(***************************************************************************)
(* NAT hole punching (internal/registar/p2p/connector.go).  Both peers run *)
(* Connect at the same time: each accepts connections on its listener and  *)
(* dials the other one at every known address, all at once.  A handshake   *)
(* carries the dialer's random ID; the acceptor refuses it when the        *)
(* dialer's ID is the larger one, so that the two peers settle on one      *)
(* connection although each may have several under way.                    *)
(***************************************************************************)
EXTENDS Naturals, Sequences, FiniteSets

CONSTANTS
  Peers,    \* the two ends
  IDOf,     \* Connector.id
  Dialers,  \* one dialLoop per peer and address it dials: the other peer's
            \* private address, and the public one if it differs
  Slots,    \* bound on the QUIC connections that exist at one time
  NoConn

ASSUME ConnectorAssumption ==
  /\ \E a, b \in Peers : a # b /\ Peers = {a, b}
  /\ IDOf \in [Peers -> Nat]
  /\ \A a, b \in Peers : IDOf[a] = IDOf[b] => a = b
  /\ \A d \in Dialers : d[1] \in Peers
  /\ NoConn \notin Slots \cup {"error", "nil"}
  /\ Slots \cap {"error", "nil"} = {}

Other(s) == CHOOSE t \in Peers : t # s
PeerOf(d) == d[1]

VARIABLES
  dialer,     \* who dialled the connection in a slot
  resp,       \* answer to its handshake, as the dialer will read it; "reset"
              \* once an end has cancelled the stream of an unanswered one
  closed,     \* error code the connection was closed with
  queue,      \* accept queue of each peer's listener
  aPc, aConn, \* acceptLoop and the connection it is handling
  dPc, dConn, \* dialLoops and their connections
  main,       \* the select at the end of Connect
  got,        \* the connection received from the channel connected
  failed,     \* the first error a loop has returned, which cancels the errgroup:
              \* "cut" when a handshake was under way as an end was cancelled
  cancelled,  \* the caller's context is cancelled
  result      \* what Connect returned: a connection, "error", or "nil" for (nil, nil)

connVars == <<dialer, resp, closed, queue>>
acceptVars == <<aPc, aConn>>
dialVars == <<dPc, dConn>>
mainVars == <<main, got, result>>
vars == <<connVars, acceptVars, dialVars, mainVars, failed, cancelled>>

(* Every variable has its type, and a loop holds a connection exactly      *)
(* while it is handling one.                                               *)
TypeOK ==
  /\ dialer \in [Slots -> Peers]
  /\ resp \in [Slots -> {"none", "ok", "conflict", "reset"}]
  /\ closed \in [Slots -> {"no", "cancelled", "conflict"}]
  /\ queue \in [Peers -> Seq(Slots)]
  /\ aPc \in [Peers -> {"accept", "read", "push", "exit"}]
  /\ aConn \in [Peers -> Slots \cup {NoConn}]
  /\ dPc \in [Dialers -> {"dial", "handshake", "push", "exit"}]
  /\ dConn \in [Dialers -> Slots \cup {NoConn}]
  /\ main \in [Peers -> {"select", "connected", "failing", "returned"}]
  /\ got \in [Peers -> Slots \cup {NoConn}]
  /\ failed \in [Peers -> {"no", "cut", "error"}]
  /\ cancelled \in [Peers -> BOOLEAN]
  /\ result \in [Peers -> Slots \cup {NoConn, "error", "nil"}]
  /\ \A s \in Peers : aPc[s] \in {"read", "push"} <=> aConn[s] # NoConn
  /\ \A d \in Dialers : dPc[d] \in {"handshake", "push"} <=> dConn[d] # NoConn

Init ==
  /\ dialer = [c \in Slots |-> CHOOSE s \in Peers : TRUE]
  /\ resp = [c \in Slots |-> "none"]
  /\ closed = [c \in Slots |-> "no"]
  /\ queue = [s \in Peers |-> <<>>]
  /\ aPc = [s \in Peers |-> "accept"]
  /\ aConn = [s \in Peers |-> NoConn]
  /\ dPc = [d \in Dialers |-> "dial"]
  /\ dConn = [d \in Dialers |-> NoConn]
  /\ main = [s \in Peers |-> "select"]
  /\ got = [s \in Peers |-> NoConn]
  /\ failed = [s \in Peers |-> "no"]
  /\ cancelled = [s \in Peers |-> FALSE]
  /\ result = [s \in Peers |-> NoConn]

(* ctx.Done() of the errgroup, and of attemptsCtx.                         *)
GroupDone(s) == failed[s] # "no" \/ cancelled[s]
AttemptsDone(s) == GroupDone(s) \/ main[s] # "select"

InUse(c) ==
  \/ \E s \in Peers : c \in {aConn[s], got[s], result[s]}
                        \/ \E i \in DOMAIN queue[s] : queue[s][i] = c
  \/ \E d \in Dialers : dConn[d] = c

(* Slots are names only: a new connection takes any that is free.          *)
SomeFreeSlot == CHOOSE c \in Slots : ~InUse(c)
-----------------------------------------------------------------------------
(* A loop of Connect returns an error; the errgroup keeps the first one.   *)
Fail(s, err) ==
  failed' = [failed EXCEPT ![s] = IF @ = "no" THEN err ELSE @]

(* dialLoop.                                                               *)

DialLeaves(d) ==
  /\ dPc' = [dPc EXCEPT ![d] = "exit"]
  /\ dConn' = [dConn EXCEPT ![d] = NoConn]

DialAgain(d) ==
  /\ dPc' = [dPc EXCEPT ![d] = "dial"]
  /\ dConn' = [dConn EXCEPT ![d] = NoConn]

(* The other end listens: the connection is up and the handshake is sent.  *)
Dial(d) ==
  LET s == PeerOf(d) t == Other(s) IN
  /\ dPc[d] = "dial"
  /\ ~AttemptsDone(s)
  /\ main[t] # "returned"
  /\ \E c \in Slots :
       /\ ~InUse(c) /\ c = SomeFreeSlot
       /\ dialer' = [dialer EXCEPT ![c] = s]
       /\ resp' = [resp EXCEPT ![c] = "none"]
       /\ closed' = [closed EXCEPT ![c] = "no"]
       /\ queue' = [queue EXCEPT ![t] = Append(@, c)]
       /\ dConn' = [dConn EXCEPT ![d] = c]
  /\ dPc' = [dPc EXCEPT ![d] = "handshake"]
  /\ UNCHANGED <<acceptVars, mainVars, failed, cancelled>>

DialCancelled(d) ==
  /\ dPc[d] = "dial"
  /\ AttemptsDone(PeerOf(d))
  /\ DialLeaves(d)
  /\ UNCHANGED <<connVars, acceptVars, mainVars, failed, cancelled>>

(* The dial or the handshake times out, or fails in another way.           *)
DialFails(d) ==
  /\ dPc[d] \in {"dial", "handshake"}
  /\ Fail(PeerOf(d), "error")
  /\ DialLeaves(d)
  /\ UNCHANGED <<connVars, acceptVars, mainVars, cancelled>>

(* sendHandshake reads the answer.                                         *)
HandshakeOK(d) ==
  /\ dPc[d] = "handshake"
  /\ resp[dConn[d]] = "ok"
  /\ dPc' = [dPc EXCEPT ![d] = "push"]
  /\ UNCHANGED <<connVars, acceptVars, dConn, mainVars, failed, cancelled>>

(* Refused, as an answer or as the error code of the closed connection, or *)
(* the other end cancelled: dial again.                                    *)
HandshakeRefused(d) ==
  LET c == dConn[d] IN
  /\ dPc[d] = "handshake"
  /\ resp[c] = "conflict" \/ closed[c] # "no"
  /\ closed' = [closed EXCEPT ![c] = IF @ = "no" THEN "conflict" ELSE @]
  /\ DialAgain(d)
  /\ UNCHANGED <<dialer, resp, queue, acceptVars, mainVars, failed, cancelled>>

HandshakeCancelled(d) ==
  /\ dPc[d] = "handshake"
  /\ AttemptsDone(PeerOf(d))
  /\ closed' = [closed EXCEPT ![dConn[d]] = "cancelled"]
  /\ DialAgain(d)
  /\ UNCHANGED <<dialer, resp, queue, acceptVars, mainVars, failed, cancelled>>

(* Errors the loop does not expect: the other end has reset the stream,    *)
(* which the dialer may see before the connection is closed; or its own    *)
(* AfterFunc has cancelled it before stream.Close.  The connection is left.*)
HandshakeCut(d) ==
  LET c == dConn[d] s == PeerOf(d) IN
  /\ dPc[d] = "handshake"
  /\ resp[c] = "reset" \/ AttemptsDone(s)
  /\ resp' = [resp EXCEPT ![c] = IF @ = "none" THEN "reset" ELSE @]
  /\ Fail(s, "cut")
  /\ DialLeaves(d)
  /\ UNCHANGED <<dialer, closed, queue, acceptVars, mainVars, cancelled>>

(* The channel connected has no buffer: Connect is in its select.          *)
Connected(s, c) ==
  /\ main[s] = "select"
  /\ got' = [got EXCEPT ![s] = c]
  /\ main' = [main EXCEPT ![s] = "connected"]

PushDialled(d) ==
  /\ dPc[d] = "push"
  /\ \/ Connected(PeerOf(d), dConn[d]) /\ UNCHANGED closed
     \/ /\ AttemptsDone(PeerOf(d))
        /\ closed' = [closed EXCEPT ![dConn[d]] = "cancelled"]
        /\ UNCHANGED <<got, main>>
  /\ DialLeaves(d)
  /\ UNCHANGED <<dialer, resp, queue, acceptVars, result, failed, cancelled>>
-----------------------------------------------------------------------------
(* acceptLoop.                                                             *)

AcceptLeaves(s) ==
  /\ aPc' = [aPc EXCEPT ![s] = "exit"]
  /\ aConn' = [aConn EXCEPT ![s] = NoConn]

(* Mutant: the loop goes on with the connection it has refused.            *)
AcceptAgainSame(s) ==
  /\ aPc' = [aPc EXCEPT ![s] = "accept"]
  /\ UNCHANGED aConn

AcceptAgain(s) ==
  /\ aPc' = [aPc EXCEPT ![s] = "accept"]
  /\ aConn' = [aConn EXCEPT ![s] = NoConn]

Accept(s) ==
  /\ aPc[s] = "accept"
  /\ queue[s] # <<>>
  /\ aConn' = [aConn EXCEPT ![s] = Head(queue[s])]
  /\ queue' = [queue EXCEPT ![s] = Tail(@)]
  /\ aPc' = [aPc EXCEPT ![s] = "read"]
  /\ UNCHANGED <<dialer, resp, closed, dialVars, mainVars, failed, cancelled>>

AcceptCancelled(s) ==
  /\ aPc[s] = "accept"
  /\ AttemptsDone(s)
  /\ AcceptLeaves(s)
  /\ UNCHANGED <<connVars, dialVars, mainVars, failed, cancelled>>

(* Mutants of the tie-breaking: nobody is refused, everybody is.           *)
LargerIDNever(s, c) == FALSE
LargerIDAlways(s, c) == TRUE

LargerID(s, c) == IDOf[dialer[c]] > IDOf[s]

(* readHandshake: answer the dialer ...                                    *)
AnswerOK(s) ==
  LET c == aConn[s] IN
  /\ aPc[s] = "read"
  /\ closed[c] = "no" /\ resp[c] = "none"
  /\ ~LargerID(s, c)
  /\ resp' = [resp EXCEPT ![c] = "ok"]
  /\ aPc' = [aPc EXCEPT ![s] = "push"]
  /\ UNCHANGED <<dialer, closed, queue, aConn, dialVars, mainVars, failed, cancelled>>

AnswerConflict(s) ==
  LET c == aConn[s] IN
  /\ aPc[s] = "read"
  /\ closed[c] = "no" /\ resp[c] = "none"
  /\ LargerID(s, c)
  /\ resp' = [resp EXCEPT ![c] = "conflict"]
  /\ closed' = [closed EXCEPT ![c] = "conflict"]
  /\ AcceptAgain(s)
  /\ UNCHANGED <<dialer, queue, dialVars, mainVars, failed, cancelled>>

GivenUp(s, c) == closed[c] # "no" \/ resp[c] = "reset" \/ AttemptsDone(s)

(* ... or find that one of the two ends has given up.  An acceptLoop that  *)
(* is cancelled itself has reset the stream, if it had accepted one,       *)
(* before it closes the connection.                                        *)
ReadCancelled(s) ==
  LET c == aConn[s] IN
  /\ aPc[s] = "read"
  /\ GivenUp(s, c)
  /\ \/ UNCHANGED resp
     \/ AttemptsDone(s) /\ resp' = [resp EXCEPT ![c] = "reset"]
  /\ closed' = [closed EXCEPT ![c] = IF @ = "no" THEN "cancelled" ELSE @]
  /\ AcceptAgain(s)
  /\ UNCHANGED <<dialer, queue, dialVars, mainVars, failed, cancelled>>

(* The stream is cancelled, by either end, between the answer and          *)
(* stream.Close, whose error the loop does not expect; the answer may have *)
(* got through.  The connection is left.                                   *)
AnswerCut(s) ==
  LET c == aConn[s] IN
  /\ aPc[s] = "push" \/ (aPc[s] = "read" /\ LargerID(s, c))
  /\ GivenUp(s, c)
  /\ \E r \in {"reset", "conflict"} :
       resp' = [resp EXCEPT ![c] = IF @ = "none" THEN r ELSE @]
  /\ Fail(s, "cut")
  /\ AcceptLeaves(s)
  /\ UNCHANGED <<dialer, closed, queue, dialVars, mainVars, cancelled>>

(* The listener, or the handshake, fails in another way.                   *)
AcceptFails(s) ==
  /\ aPc[s] \in {"accept", "read"}
  /\ Fail(s, "error")
  /\ AcceptLeaves(s)
  /\ UNCHANGED <<connVars, dialVars, mainVars, cancelled>>

PushAccepted(s) ==
  /\ aPc[s] = "push"
  /\ \/ Connected(s, aConn[s]) /\ UNCHANGED closed
     \/ /\ AttemptsDone(s)
        /\ closed' = [closed EXCEPT ![aConn[s]] = "cancelled"]
        /\ UNCHANGED <<got, main>>
  /\ AcceptLeaves(s)
  /\ UNCHANGED <<dialer, resp, queue, dialVars, result, failed, cancelled>>
-----------------------------------------------------------------------------
(* Connect.                                                                *)

GiveUp(s) ==
  /\ main[s] = "select"
  /\ GroupDone(s)
  /\ main' = [main EXCEPT ![s] = "failing"]
  /\ UNCHANGED <<connVars, acceptVars, dialVars, got, result, failed, cancelled>>

AllLeft(s) ==
  aPc[s] = "exit" /\ \A d \in Dialers : PeerOf(d) = s => dPc[d] = "exit"

(* An error of any loop wins over a connection, which stays open then; a   *)
(* cancelled caller whose loops all left in peace gets neither.            *)
Outcome(s) ==
  IF failed[s] # "no" THEN "error" ELSE IF main[s] = "connected" THEN got[s] ELSE "nil"

(* eg.Wait() and the return.                                               *)
Return(s) ==
  /\ main[s] \in {"connected", "failing"}
  /\ AllLeft(s)
  /\ result' = [result EXCEPT ![s] = Outcome(s)]
  /\ main' = [main EXCEPT ![s] = "returned"]
  /\ UNCHANGED <<connVars, acceptVars, dialVars, got, failed, cancelled>>

(* The control stream, whose context Connect runs under, ends.             *)
Cancel(s) ==
  /\ main[s] # "returned"
  /\ ~cancelled[s]
  /\ cancelled' = [cancelled EXCEPT ![s] = TRUE]
  /\ UNCHANGED <<connVars, acceptVars, dialVars, mainVars, failed>>
-----------------------------------------------------------------------------
DialLoop(d) ==
  \/ Dial(d) \/ DialCancelled(d) \/ HandshakeOK(d) \/ HandshakeRefused(d)
  \/ HandshakeCancelled(d) \/ HandshakeCut(d) \/ PushDialled(d)

AcceptLoop(s) ==
  \/ Accept(s) \/ AcceptCancelled(s) \/ AnswerOK(s) \/ AnswerConflict(s)
  \/ ReadCancelled(s) \/ AnswerCut(s) \/ PushAccepted(s)

Next ==
  \/ \E d \in Dialers : DialLoop(d) \/ DialFails(d)
  \/ \E s \in Peers : \/ AcceptLoop(s) \/ AcceptFails(s)
                      \/ GiveUp(s) \/ Return(s) \/ Cancel(s)

Spec == Init /\ [][Next]_vars

(* The goroutines of both peers run; failures and cancellation need not    *)
(* happen.                                                                 *)
Fairness ==
  /\ \A d \in Dialers : WF_vars(DialLoop(d))
  /\ \A s \in Peers : WF_vars(AcceptLoop(s)) /\ WF_vars(GiveUp(s) \/ Return(s))

FairSpec == Spec /\ Fairness
-----------------------------------------------------------------------------
(* When both calls of Connect return a connection it is the same one, it   *)
(* is open, and the peer with the smaller ID dialled it.                   *)
Agreement ==
  \A s \in Peers :
    (result[s] \in Slots /\ result[Other(s)] \in Slots) =>
      /\ result[s] = result[Other(s)]
      /\ closed[result[s]] = "no"
      /\ IDOf[dialer[result[s]]] <= IDOf[s]

(* Connect returns neither a connection nor an error only to a caller      *)
(* whose context was cancelled; newControlAgent uses the connection        *)
(* whenever the error is nil.                                              *)
NilOnlyOnCancel == \A s \in Peers : result[s] = "nil" => cancelled[s]

(* What Connect returns can be used: by both peers, and without a nil.     *)
ConnectResult == Agreement /\ NilOnlyOnCancel

(* Unless a caller cancels, or something fails for a reason of its own,    *)
(* both peers get a connection: refusals of the tie-breaking do not go on  *)
(* for ever.  The exception is a peer one of whose handshakes was still    *)
(* under way when a Connect had its connection and cancelled the others:   *)
(* that can make the peer's loop, and so its Connect, fail.                *)
PeersConnect ==
  [](\A s \in Peers : failed[s] # "error" /\ ~cancelled[s]) =>
    <>(\A s \in Peers :
         \/ result[s] \in Slots
         \/ /\ result[s] = "error" /\ failed[s] = "cut"
            /\ \E t \in Peers : got[t] \in Slots)
=============================================================================
