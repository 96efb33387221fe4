--------------------------- MODULE ConnectorProofs --------------------------
(***************************************************************************)
(* Theorems of Connector, for any two IDs, any number of addresses to dial *)
(* and any number of connections: the types, and that two peers that both  *)
(* get a connection get the same one.                                      *)
(***************************************************************************)
EXTENDS Connector, SequenceTheorems, TLAPS

(* The peer that dials the connection both settle on.                      *)
Smaller(s) == IDOf[s] < IDOf[Other(s)]

Unanswered(c) == resp[c] \in {"none", "reset"}

(* What a listener has queued or handles was dialled by the other peer, is *)
(* there once, and is answered, if the dialer has not reset the stream,    *)
(* only when the handshake has been read.                                  *)
TrayInv(t) ==
  /\ \A i \in 1 .. Len(queue[t]) :
       /\ dialer[queue[t][i]] = Other(t) /\ Unanswered(queue[t][i])
       /\ queue[t][i] # aConn[t]
       /\ \A j \in 1 .. Len(queue[t]) : queue[t][i] = queue[t][j] => i = j
  /\ aConn[t] # NoConn => dialer[aConn[t]] = Other(t)
  /\ aPc[t] = "read" => Unanswered(aConn[t])
  /\ aPc[t] = "push" => resp[aConn[t]] = "ok"

(* A dialLoop has a connection of its own, and passes it on when it was    *)
(* answered with ok.                                                       *)
DialInv(d) ==
  /\ dConn[d] # NoConn => /\ dialer[dConn[d]] = PeerOf(d)
                          /\ got[PeerOf(d)] # dConn[d]
                          /\ \A e \in Dialers : dConn[e] = dConn[d] => e = d
  /\ dPc[d] = "push" => resp[dConn[d]] = "ok"

(* Connect has got only a connection that was answered with ok; one that   *)
(* it accepted, after its acceptLoop has left.                             *)
GotInv(s) ==
  /\ got[s] # NoConn => /\ resp[got[s]] = "ok"
                        /\ dialer[got[s]] # s => aPc[s] = "exit"
  /\ main[s] = "connected" => got[s] # NoConn
  /\ main[s] = "failing" => failed[s] # "no" \/ cancelled[s]
  /\ result[s] # NoConn => main[s] = "returned"
  /\ result[s] \in Slots => result[s] = got[s]
  /\ result[s] = "nil" => cancelled[s]

(* At most one connection is ever answered with ok: one that the peer with *)
(* the smaller ID dialled, by an acceptLoop that handles nothing after it. *)
OkInv(c) ==
  resp[c] = "ok" =>
    LET t == Other(dialer[c]) IN
    /\ Smaller(dialer[c])
    /\ aPc[t] \in {"push", "exit"}
    /\ aPc[t] = "push" => aConn[t] = c
    /\ \A e \in Slots : resp[e] = "ok" => e = c

(* Who closes it lets go of it, so that the peers have not both got it.    *)
OpenInv(c) ==
  resp[c] = "ok" /\ closed[c] # "no" =>
    \/ got[dialer[c]] # c /\ \A d \in Dialers : dConn[d] # c
    \/ got[Other(dialer[c])] # c /\ aConn[Other(dialer[c])] # c

ConnectorInv ==
  /\ TypeOK
  /\ \A t \in Peers : TrayInv(t) /\ GotInv(t)
  /\ \A d \in Dialers : DialInv(d)
  /\ \A c \in Slots : OkInv(c) /\ OpenInv(c)
-----------------------------------------------------------------------------
(* The two peers, and what is known of their IDs.                          *)
LEMMA TwoPeers ==
  \A s \in Peers : /\ Other(s) \in Peers /\ Other(s) # s /\ Other(Other(s)) = s
                   /\ \A t \in Peers : t = s \/ t = Other(s)
<1>1. PICK a, b \in Peers : a # b /\ Peers = {a, b}
  BY ConnectorAssumption
<1>2. \A s \in Peers : Other(s) \in Peers /\ Other(s) # s
  BY <1>1 DEF Other
<1> QED BY <1>1, <1>2

(* One of the two has the smaller ID.                                      *)
LEMMA OneIsSmaller ==
  \A s \in Peers : /\ Smaller(s) <=> ~Smaller(Other(s))
                   /\ ~(IDOf[Other(s)] > IDOf[s]) => Smaller(Other(s))
                   /\ Smaller(Other(s)) => IDOf[Other(s)] <= IDOf[s]
<1> SUFFICES ASSUME NEW s \in Peers
             PROVE  /\ Smaller(s) <=> ~Smaller(Other(s))
                    /\ ~(IDOf[Other(s)] > IDOf[s]) => Smaller(Other(s))
                    /\ Smaller(Other(s)) => IDOf[Other(s)] <= IDOf[s]
  OBVIOUS
<1>1. Other(s) \in Peers /\ Other(s) # s /\ Other(Other(s)) = s
  BY TwoPeers
<1>2. IDOf[s] \in Nat /\ IDOf[Other(s)] \in Nat /\ IDOf[s] # IDOf[Other(s)]
  BY <1>1, ConnectorAssumption
<1> QED BY <1>1, <1>2 DEF Smaller

(* The types, after a step of a dialLoop ...                               *)
LEMMA DialLoopTypes ==
  ASSUME TypeOK, NEW d \in Dialers, DialLoop(d) \/ DialFails(d)
  PROVE  TypeOK'
<1> PeerOf(d) \in Peers /\ Other(PeerOf(d)) \in Peers
  BY TwoPeers, ConnectorAssumption DEF PeerOf
<1>1. CASE Dial(d)
  <2>1. PICK c \in Slots :
          /\ dialer' = [dialer EXCEPT ![c] = PeerOf(d)]
          /\ resp' = [resp EXCEPT ![c] = "none"]
          /\ closed' = [closed EXCEPT ![c] = "no"]
          /\ queue' = [queue EXCEPT ![Other(PeerOf(d))] = Append(@, c)]
          /\ dConn' = [dConn EXCEPT ![d] = c]
    BY <1>1 DEF Dial
  <2>2. Append(queue[Other(PeerOf(d))], c) \in Seq(Slots)
    BY AppendProperties DEF TypeOK
  <2>3. c # NoConn
    BY ConnectorAssumption
  <2> QED BY <1>1, <2>1, <2>2, <2>3 DEF Dial, TypeOK, acceptVars, mainVars
<1>2. CASE DialCancelled(d)
  BY <1>2 DEF DialCancelled, DialLeaves, TypeOK, connVars, acceptVars, mainVars
<1>7. CASE DialFails(d)
  BY <1>7 DEF DialFails, Fail, DialLeaves, TypeOK, connVars, acceptVars, mainVars
<1>3. CASE HandshakeOK(d)
  BY <1>3 DEF HandshakeOK, TypeOK, connVars, acceptVars, mainVars
<1>4. CASE HandshakeRefused(d)
  BY <1>4 DEF HandshakeRefused, DialAgain, TypeOK, acceptVars, mainVars
<1>5. CASE HandshakeCancelled(d)
  BY <1>5 DEF HandshakeCancelled, DialAgain, TypeOK, acceptVars, mainVars
<1>6. CASE PushDialled(d)
  <2>1. CASE Connected(PeerOf(d), dConn[d]) /\ UNCHANGED closed
    BY <1>6, <2>1 DEF PushDialled, Connected, DialLeaves, TypeOK, acceptVars
  <2>2. CASE closed' = [closed EXCEPT ![dConn[d]] = "cancelled"] /\ UNCHANGED <<got, main>>
    BY <1>6, <2>2 DEF PushDialled, DialLeaves, TypeOK, acceptVars
  <2> QED BY <1>6, <2>1, <2>2 DEF PushDialled
<1>8. CASE HandshakeCut(d)
  BY <1>8 DEF HandshakeCut, Fail, DialLeaves, TypeOK, acceptVars, mainVars
<1> QED BY <1>1, <1>2, <1>3, <1>4, <1>5, <1>6, <1>7, <1>8 DEF DialLoop

(* ... of an acceptLoop, and of Connect itself.                            *)
LEMMA AcceptLoopTypes ==
  ASSUME TypeOK, NEW s \in Peers, AcceptLoop(s) \/ AcceptFails(s)
  PROVE  TypeOK'
<1>1. CASE Accept(s)
  <2>1. Head(queue[s]) \in Slots /\ Tail(queue[s]) \in Seq(Slots)
    BY <1>1, HeadTailProperties DEF Accept, TypeOK
  <2>2. Head(queue[s]) # NoConn
    BY <2>1, ConnectorAssumption
  <2> QED BY <1>1, <2>1, <2>2 DEF Accept, TypeOK, dialVars, mainVars
<1>2. CASE AcceptCancelled(s)
  BY <1>2 DEF AcceptCancelled, AcceptLeaves, TypeOK, connVars, dialVars, mainVars
<1>7. CASE AcceptFails(s)
  BY <1>7 DEF AcceptFails, Fail, AcceptLeaves, TypeOK, connVars, dialVars, mainVars
<1>3. CASE AnswerOK(s)
  BY <1>3 DEF AnswerOK, TypeOK, dialVars, mainVars
<1>4. CASE AnswerConflict(s)
  BY <1>4 DEF AnswerConflict, AcceptAgain, TypeOK, dialVars, mainVars
<1>5. CASE ReadCancelled(s)
  BY <1>5 DEF ReadCancelled, AcceptAgain, TypeOK, dialVars, mainVars
<1>6. CASE PushAccepted(s)
  <2>1. CASE Connected(s, aConn[s]) /\ UNCHANGED closed
    BY <1>6, <2>1 DEF PushAccepted, Connected, AcceptLeaves, TypeOK, dialVars
  <2>2. CASE closed' = [closed EXCEPT ![aConn[s]] = "cancelled"] /\ UNCHANGED <<got, main>>
    BY <1>6, <2>2 DEF PushAccepted, AcceptLeaves, TypeOK, dialVars
  <2> QED BY <1>6, <2>1, <2>2 DEF PushAccepted
<1>8. CASE AnswerCut(s)
  BY <1>8 DEF AnswerCut, Fail, AcceptLeaves, TypeOK, dialVars, mainVars
<1> QED BY <1>1, <1>2, <1>3, <1>4, <1>5, <1>6, <1>7, <1>8 DEF AcceptLoop

LEMMA ConnectTypes ==
  ASSUME TypeOK, NEW s \in Peers, GiveUp(s) \/ Return(s) \/ Cancel(s)
  PROVE  TypeOK'
<1>1. CASE GiveUp(s)
  BY <1>1 DEF GiveUp, TypeOK, connVars, acceptVars, dialVars
<1>2. CASE Return(s)
  BY <1>2 DEF Return, Outcome, TypeOK, connVars, acceptVars, dialVars
<1>3. CASE Cancel(s)
  BY <1>3 DEF Cancel, TypeOK, connVars, acceptVars, dialVars, mainVars
<1> QED BY <1>1, <1>2, <1>3
(* A dialLoop that leaves, or reads its answer, only lets go of what it has. *)
LEMMA DialCancelledKeepsInv ==
  ASSUME ConnectorInv, NEW d \in Dialers, DialCancelled(d)
  PROVE  ConnectorInv'
<1> USE DEF ConnectorInv
<1>1. TypeOK'
  BY DialLoopTypes DEF DialLoop
<1>2. ASSUME NEW t \in Peers PROVE TrayInv(t)'
  BY DEF DialCancelled, connVars, acceptVars, TrayInv, Unanswered
<1>3. ASSUME NEW t \in Peers PROVE GotInv(t)'
  BY DEF DialCancelled, connVars, acceptVars, mainVars, GotInv
<1>4. ASSUME NEW e \in Dialers PROVE DialInv(e)'
  BY DEF DialCancelled, DialLeaves, connVars, mainVars, DialInv
<1>5. ASSUME NEW c \in Slots PROVE OkInv(c)'
  BY DEF DialCancelled, connVars, acceptVars, OkInv
<1>6. ASSUME NEW c \in Slots PROVE OpenInv(c)'
  BY ConnectorAssumption DEF DialCancelled, DialLeaves, connVars, acceptVars, mainVars, OpenInv
<1> QED BY <1>1, <1>2, <1>3, <1>4, <1>5, <1>6

LEMMA DialFailsKeepsInv ==
  ASSUME ConnectorInv, NEW d \in Dialers, DialFails(d)
  PROVE  ConnectorInv'
<1> USE DEF ConnectorInv
<1>1. TypeOK'
  BY DialLoopTypes DEF DialLoop
<1>2. ASSUME NEW t \in Peers PROVE TrayInv(t)'
  BY DEF DialFails, connVars, acceptVars, TrayInv, Unanswered
<1>3. ASSUME NEW t \in Peers PROVE GotInv(t)'
  BY DEF DialFails, Fail, connVars, acceptVars, mainVars, GotInv, TypeOK
<1>4. ASSUME NEW e \in Dialers PROVE DialInv(e)'
  BY DEF DialFails, DialLeaves, connVars, mainVars, DialInv
<1>5. ASSUME NEW c \in Slots PROVE OkInv(c)'
  BY DEF DialFails, connVars, acceptVars, OkInv
<1>6. ASSUME NEW c \in Slots PROVE OpenInv(c)'
  BY ConnectorAssumption DEF DialFails, DialLeaves, connVars, acceptVars, mainVars, OpenInv
<1> QED BY <1>1, <1>2, <1>3, <1>4, <1>5, <1>6

LEMMA HandshakeOKKeepsInv ==
  ASSUME ConnectorInv, NEW d \in Dialers, HandshakeOK(d)
  PROVE  ConnectorInv'
<1> USE DEF ConnectorInv
<1>1. TypeOK'
  BY DialLoopTypes DEF DialLoop
<1>2. ASSUME NEW t \in Peers PROVE TrayInv(t)'
  BY DEF HandshakeOK, connVars, acceptVars, TrayInv, Unanswered
<1>3. ASSUME NEW t \in Peers PROVE GotInv(t)'
  BY DEF HandshakeOK, connVars, acceptVars, mainVars, GotInv
<1>4. ASSUME NEW e \in Dialers PROVE DialInv(e)'
  BY DEF HandshakeOK, connVars, mainVars, DialInv
<1>5. ASSUME NEW c \in Slots PROVE OkInv(c)'
  BY DEF HandshakeOK, connVars, acceptVars, OkInv
<1>6. ASSUME NEW c \in Slots PROVE OpenInv(c)'
  BY DEF HandshakeOK, connVars, acceptVars, mainVars, OpenInv
<1> QED BY <1>1, <1>2, <1>3, <1>4, <1>5, <1>6

(* A dialLoop that closes its connection lets go of it, and nobody else of *)
(* its end has it.                                                         *)
LEMMA HandshakeRefusedKeepsInv ==
  ASSUME ConnectorInv, NEW d \in Dialers, HandshakeRefused(d)
  PROVE  ConnectorInv'
<1> USE DEF ConnectorInv
<1>1. TypeOK'
  BY DialLoopTypes DEF DialLoop
<1>2. ASSUME NEW t \in Peers PROVE TrayInv(t)'
  BY DEF HandshakeRefused, acceptVars, TrayInv, Unanswered
<1>3. ASSUME NEW t \in Peers PROVE GotInv(t)'
  BY DEF HandshakeRefused, acceptVars, mainVars, GotInv
<1>4. ASSUME NEW e \in Dialers PROVE DialInv(e)'
  BY DEF HandshakeRefused, DialAgain, mainVars, DialInv
<1>5. ASSUME NEW c \in Slots PROVE OkInv(c)'
  BY DEF HandshakeRefused, acceptVars, OkInv
<1>6. ASSUME NEW c \in Slots PROVE OpenInv(c)'
  BY ConnectorAssumption DEF HandshakeRefused, DialAgain, acceptVars, mainVars, OpenInv
<1> QED BY <1>1, <1>2, <1>3, <1>4, <1>5, <1>6

LEMMA HandshakeCancelledKeepsInv ==
  ASSUME ConnectorInv, NEW d \in Dialers, HandshakeCancelled(d)
  PROVE  ConnectorInv'
<1> USE DEF ConnectorInv
<1>1. TypeOK'
  BY DialLoopTypes DEF DialLoop
<1>2. ASSUME NEW t \in Peers PROVE TrayInv(t)'
  BY DEF HandshakeCancelled, acceptVars, TrayInv, Unanswered
<1>3. ASSUME NEW t \in Peers PROVE GotInv(t)'
  BY DEF HandshakeCancelled, acceptVars, mainVars, GotInv
<1>4. ASSUME NEW e \in Dialers PROVE DialInv(e)'
  BY DEF HandshakeCancelled, DialAgain, mainVars, DialInv
<1>5. ASSUME NEW c \in Slots PROVE OkInv(c)'
  BY DEF HandshakeCancelled, acceptVars, OkInv
<1>6. ASSUME NEW c \in Slots PROVE OpenInv(c)'
  BY ConnectorAssumption DEF HandshakeCancelled, DialAgain, acceptVars, mainVars, OpenInv, DialInv, TypeOK
<1> QED BY <1>1, <1>2, <1>3, <1>4, <1>5, <1>6

(* An acceptLoop that leaves, refuses or gives up answers no other with ok. *)
LEMMA AcceptCancelledKeepsInv ==
  ASSUME ConnectorInv, NEW s \in Peers, AcceptCancelled(s)
  PROVE  ConnectorInv'
<1> USE DEF ConnectorInv
<1>1. TypeOK'
  BY AcceptLoopTypes DEF AcceptLoop
<1>2. ASSUME NEW t \in Peers PROVE TrayInv(t)'
  BY DEF AcceptCancelled, AcceptLeaves, connVars, TrayInv, Unanswered, TypeOK
<1>3. ASSUME NEW t \in Peers PROVE GotInv(t)'
  BY DEF AcceptCancelled, AcceptLeaves, connVars, mainVars, GotInv
<1>4. ASSUME NEW e \in Dialers PROVE DialInv(e)'
  BY DEF AcceptCancelled, connVars, dialVars, mainVars, DialInv
<1>5. ASSUME NEW c \in Slots PROVE OkInv(c)'
  BY DEF AcceptCancelled, AcceptLeaves, connVars, OkInv
<1>6. ASSUME NEW c \in Slots PROVE OpenInv(c)'
  BY ConnectorAssumption DEF AcceptCancelled, AcceptLeaves, connVars, dialVars, mainVars, OpenInv
<1> QED BY <1>1, <1>2, <1>3, <1>4, <1>5, <1>6

LEMMA AcceptFailsKeepsInv ==
  ASSUME ConnectorInv, NEW s \in Peers, AcceptFails(s)
  PROVE  ConnectorInv'
<1> USE DEF ConnectorInv
<1>1. TypeOK'
  BY AcceptLoopTypes DEF AcceptLoop
<1>2. ASSUME NEW t \in Peers PROVE TrayInv(t)'
  BY ConnectorAssumption DEF AcceptFails, AcceptLeaves, connVars, TrayInv, Unanswered, TypeOK
<1>3. ASSUME NEW t \in Peers PROVE GotInv(t)'
  BY DEF AcceptFails, Fail, AcceptLeaves, connVars, mainVars, GotInv, TypeOK
<1>4. ASSUME NEW e \in Dialers PROVE DialInv(e)'
  BY DEF AcceptFails, connVars, dialVars, mainVars, DialInv
<1>5. ASSUME NEW c \in Slots PROVE OkInv(c)'
  BY DEF AcceptFails, AcceptLeaves, connVars, OkInv
<1>6. ASSUME NEW c \in Slots PROVE OpenInv(c)'
  BY ConnectorAssumption DEF AcceptFails, AcceptLeaves, connVars, dialVars, mainVars, OpenInv
<1> QED BY <1>1, <1>2, <1>3, <1>4, <1>5, <1>6

LEMMA AnswerConflictKeepsInv ==
  ASSUME ConnectorInv, NEW s \in Peers, AnswerConflict(s)
  PROVE  ConnectorInv'
<1> USE DEF ConnectorInv
<1>1. TypeOK'
  BY AcceptLoopTypes DEF AcceptLoop
<1>2. ASSUME NEW t \in Peers PROVE TrayInv(t)'
  BY TwoPeers, ConnectorAssumption DEF AnswerConflict, AcceptAgain, TrayInv, Unanswered, TypeOK
<1>3. ASSUME NEW t \in Peers PROVE GotInv(t)'
  BY DEF AnswerConflict, AcceptAgain, mainVars, GotInv, TrayInv, Unanswered
<1>4. ASSUME NEW e \in Dialers PROVE DialInv(e)'
  BY DEF AnswerConflict, dialVars, mainVars, DialInv, TrayInv, Unanswered
<1>5. ASSUME NEW c \in Slots PROVE OkInv(c)'
  BY DEF AnswerConflict, AcceptAgain, OkInv
<1>6. ASSUME NEW c \in Slots PROVE OpenInv(c)'
  BY ConnectorAssumption DEF AnswerConflict, AcceptAgain, dialVars, mainVars, OpenInv, TypeOK
<1> QED BY <1>1, <1>2, <1>3, <1>4, <1>5, <1>6

LEMMA ReadCancelledKeepsInv ==
  ASSUME ConnectorInv, NEW s \in Peers, ReadCancelled(s)
  PROVE  ConnectorInv'
<1> USE DEF ConnectorInv
<1>r. PICK a \in Slots :
        /\ a = aConn[s] /\ resp[a] \in {"none", "reset"} /\ dialer[a] = Other(s)
        /\ resp' = resp \/ resp' = [resp EXCEPT ![a] = "reset"]
        /\ \A c \in Slots : c # a => closed'[c] = closed[c]
  BY DEF ReadCancelled, TrayInv, Unanswered, TypeOK
<1>u. \A c \in Slots : (resp'[c] = "ok" <=> resp[c] = "ok") /\ (Unanswered(c) => Unanswered(c)')
  BY <1>r DEF TypeOK, Unanswered
<1>1. TypeOK'
  BY AcceptLoopTypes DEF AcceptLoop
<1>2. ASSUME NEW t \in Peers PROVE TrayInv(t)'
  BY <1>u, ConnectorAssumption DEF ReadCancelled, AcceptAgain, TrayInv, TypeOK
<1>3. ASSUME NEW t \in Peers PROVE GotInv(t)'
  BY <1>u DEF ReadCancelled, AcceptAgain, mainVars, GotInv, TypeOK
<1>4. ASSUME NEW e \in Dialers PROVE DialInv(e)'
  BY <1>u DEF ReadCancelled, dialVars, mainVars, DialInv, TypeOK
<1>5. ASSUME NEW c \in Slots PROVE OkInv(c)'
  BY <1>u DEF ReadCancelled, AcceptAgain, OkInv
<1>6. ASSUME NEW c \in Slots PROVE OpenInv(c)'
  BY <1>r, <1>u, ConnectorAssumption
  DEF ReadCancelled, AcceptAgain, dialVars, mainVars, OpenInv, TypeOK
<1> QED BY <1>1, <1>2, <1>3, <1>4, <1>5, <1>6

(* A loop that fails on a cancelled handshake lets go of the connection,   *)
(* and takes no answer back that was given.                                *)
LEMMA AnswerCutKeepsInv ==
  ASSUME ConnectorInv, NEW s \in Peers, AnswerCut(s)
  PROVE  ConnectorInv'
<1> USE DEF ConnectorInv
<1>r. PICK a \in Slots : /\ a = aConn[s] /\ dialer[a] = Other(s)
                         /\ \A c \in Slots : c # a => resp'[c] = resp[c]
                         /\ resp'[a] \in {resp[a], "reset", "conflict"}
                         /\ resp[a] # "none" => resp'[a] = resp[a]
  BY DEF AnswerCut, TrayInv, TypeOK
<1>u. \A c \in Slots : resp'[c] = "ok" <=> resp[c] = "ok"
  BY <1>r
<1>v. \A c \in Slots : c # aConn[s] => (Unanswered(c) => Unanswered(c)')
  BY <1>r DEF Unanswered
<1>1. TypeOK'
  BY AcceptLoopTypes DEF AcceptLoop
<1>2. ASSUME NEW t \in Peers PROVE TrayInv(t)'
  <2>1. CASE t = s
    BY <1>u, <1>v, <2>1, ConnectorAssumption DEF AnswerCut, AcceptLeaves, TrayInv, TypeOK
  <2>2. CASE t # s
    <3>1. /\ aPc'[t] = aPc[t] /\ aConn'[t] = aConn[t] /\ queue' = queue /\ dialer' = dialer
      BY <2>2 DEF AnswerCut, AcceptLeaves, TypeOK
    <3>2. \A i \in 1 .. Len(queue[t]) : queue[t][i] \in Slots /\ queue[t][i] # aConn[s]
      BY <1>r, <2>2, TwoPeers DEF TrayInv, TypeOK
    <3>3. aConn[t] # NoConn => aConn[t] \in Slots /\ aConn[t] # aConn[s]
      BY <1>r, <2>2, TwoPeers DEF TrayInv, TypeOK
    <3>4. aPc[t] \in {"read", "push"} => aConn[t] # NoConn
      BY DEF TypeOK
    <3> QED BY <1>u, <1>v, <3>1, <3>2, <3>3, <3>4 DEF TrayInv
  <2> QED BY <2>1, <2>2
<1>3. ASSUME NEW t \in Peers PROVE GotInv(t)'
  BY <1>u DEF AnswerCut, Fail, AcceptLeaves, mainVars, GotInv, TypeOK
<1>4. ASSUME NEW e \in Dialers PROVE DialInv(e)'
  BY <1>u DEF AnswerCut, dialVars, mainVars, DialInv, TypeOK
<1>5. ASSUME NEW c \in Slots PROVE OkInv(c)'
  <2>1. dialer' = dialer /\ dialer[c] \in Peers /\ Other(dialer[c]) \in Peers
    BY TwoPeers DEF AnswerCut, TypeOK
  <2>2. \A t \in Peers : \/ aPc'[t] = aPc[t] /\ aConn'[t] = aConn[t]
                         \/ aPc'[t] = "exit"
    BY DEF AnswerCut, AcceptLeaves, TypeOK
  <2> QED BY <1>u, <2>1, <2>2 DEF OkInv, Smaller
<1>6. ASSUME NEW c \in Slots PROVE OpenInv(c)'
  BY <1>u, ConnectorAssumption DEF AnswerCut, AcceptLeaves, dialVars, mainVars, OpenInv
<1> QED BY <1>1, <1>2, <1>3, <1>4, <1>5, <1>6

LEMMA HandshakeCutKeepsInv ==
  ASSUME ConnectorInv, NEW d \in Dialers, HandshakeCut(d)
  PROVE  ConnectorInv'
<1> USE DEF ConnectorInv
<1>u. \A c \in Slots : (resp'[c] = "ok" <=> resp[c] = "ok") /\ (Unanswered(c) => Unanswered(c)')
  BY DEF HandshakeCut, TypeOK, Unanswered
<1>1. TypeOK'
  BY DialLoopTypes DEF DialLoop
<1>2. ASSUME NEW t \in Peers PROVE TrayInv(t)'
  BY <1>u DEF HandshakeCut, acceptVars, TrayInv, TypeOK
<1>3. ASSUME NEW t \in Peers PROVE GotInv(t)'
  BY <1>u DEF HandshakeCut, Fail, acceptVars, mainVars, GotInv, TypeOK
<1>4. ASSUME NEW e \in Dialers PROVE DialInv(e)'
  BY <1>u DEF HandshakeCut, DialLeaves, mainVars, DialInv, TypeOK
<1>5. ASSUME NEW c \in Slots PROVE OkInv(c)'
  BY <1>u DEF HandshakeCut, acceptVars, OkInv
<1>6. ASSUME NEW c \in Slots PROVE OpenInv(c)'
  BY <1>u, ConnectorAssumption DEF HandshakeCut, DialLeaves, acceptVars, mainVars, OpenInv
<1> QED BY <1>1, <1>2, <1>3, <1>4, <1>5, <1>6

(* Connect itself moves no connection but the one that it has got.         *)
LEMMA GiveUpKeepsInv ==
  ASSUME ConnectorInv, NEW s \in Peers, GiveUp(s)
  PROVE  ConnectorInv'
<1> USE DEF ConnectorInv
<1>1. TypeOK'
  BY ConnectTypes
<1>2. ASSUME NEW t \in Peers PROVE TrayInv(t)'
  BY DEF GiveUp, connVars, acceptVars, TrayInv, Unanswered
<1>3. ASSUME NEW t \in Peers PROVE GotInv(t)'
  BY DEF GiveUp, GroupDone, connVars, acceptVars, GotInv
<1>4. ASSUME NEW e \in Dialers PROVE DialInv(e)'
  BY DEF GiveUp, connVars, dialVars, DialInv
<1>5. ASSUME NEW c \in Slots PROVE OkInv(c)'
  BY DEF GiveUp, connVars, acceptVars, OkInv
<1>6. ASSUME NEW c \in Slots PROVE OpenInv(c)'
  BY DEF GiveUp, connVars, acceptVars, dialVars, OpenInv
<1> QED BY <1>1, <1>2, <1>3, <1>4, <1>5, <1>6

LEMMA ReturnKeepsInv ==
  ASSUME ConnectorInv, NEW s \in Peers, Return(s)
  PROVE  ConnectorInv'
<1> USE DEF ConnectorInv
<1>1. TypeOK'
  BY ConnectTypes
<1>2. ASSUME NEW t \in Peers PROVE TrayInv(t)'
  BY DEF Return, connVars, acceptVars, TrayInv, Unanswered
<1>3. ASSUME NEW t \in Peers PROVE GotInv(t)'
  BY ConnectorAssumption DEF Return, Outcome, connVars, acceptVars, GotInv, TypeOK
<1>4. ASSUME NEW e \in Dialers PROVE DialInv(e)'
  BY DEF Return, connVars, dialVars, DialInv
<1>5. ASSUME NEW c \in Slots PROVE OkInv(c)'
  BY DEF Return, connVars, acceptVars, OkInv
<1>6. ASSUME NEW c \in Slots PROVE OpenInv(c)'
  BY DEF Return, connVars, acceptVars, dialVars, OpenInv
<1> QED BY <1>1, <1>2, <1>3, <1>4, <1>5, <1>6

LEMMA CancelKeepsInv ==
  ASSUME ConnectorInv, NEW s \in Peers, Cancel(s)
  PROVE  ConnectorInv'
<1> USE DEF ConnectorInv
<1>1. TypeOK'
  BY ConnectTypes
<1>2. ASSUME NEW t \in Peers PROVE TrayInv(t)'
  BY DEF Cancel, connVars, acceptVars, TrayInv, Unanswered
<1>3. ASSUME NEW t \in Peers PROVE GotInv(t)'
  BY DEF Cancel, connVars, acceptVars, mainVars, GotInv
<1>4. ASSUME NEW e \in Dialers PROVE DialInv(e)'
  BY DEF Cancel, connVars, dialVars, mainVars, DialInv
<1>5. ASSUME NEW c \in Slots PROVE OkInv(c)'
  BY DEF Cancel, connVars, acceptVars, OkInv
<1>6. ASSUME NEW c \in Slots PROVE OpenInv(c)'
  BY DEF Cancel, connVars, acceptVars, dialVars, mainVars, OpenInv
<1> QED BY <1>1, <1>2, <1>3, <1>4, <1>5, <1>6

(* A new connection takes a slot that nobody knows, and is the last one in *)
(* the other peer's queue.                                                 *)
LEMMA DialKeepsInv ==
  ASSUME ConnectorInv, NEW d \in Dialers, Dial(d)
  PROVE  ConnectorInv'
<1> USE DEF ConnectorInv
<1> DEFINE s == PeerOf(d)
<1> DEFINE o == Other(s)
<1>s. s \in Peers /\ o \in Peers /\ Other(o) = s /\ s # o
  BY TwoPeers, ConnectorAssumption DEF PeerOf
<1>c. PICK c \in Slots :
        /\ ~InUse(c)
        /\ dialer' = [dialer EXCEPT ![c] = s]
        /\ resp' = [resp EXCEPT ![c] = "none"]
        /\ closed' = [closed EXCEPT ![c] = "no"]
        /\ queue' = [queue EXCEPT ![o] = Append(@, c)]
        /\ dConn' = [dConn EXCEPT ![d] = c]
  BY DEF Dial
<1>u. UNCHANGED <<aPc, aConn, main, got, result, failed, cancelled>>
      /\ dPc' = [dPc EXCEPT ![d] = "handshake"]
  BY DEF Dial, acceptVars, mainVars
<1>f. /\ \A t \in Peers : aConn[t] # c /\ got[t] # c /\ result[t] # c
      /\ \A t \in Peers : \A i \in 1 .. Len(queue[t]) : queue[t][i] # c
      /\ \A e \in Dialers : dConn[e] # c
  BY <1>c DEF InUse, TypeOK
<1> HIDE DEF s, o
<1>1. TypeOK'
  BY DialLoopTypes DEF DialLoop
<1>2. ASSUME NEW t \in Peers PROVE TrayInv(t)'
  <2>1. CASE t # o
    BY <1>s, <1>c, <1>u, <1>f, <2>1 DEF TrayInv, Unanswered, TypeOK
  <2>2. CASE t = o
    <3> DEFINE q == queue[o]
    <3>1. q \in Seq(Slots) /\ queue'[t] = Append(q, c)
      BY <1>s, <1>c, <2>2 DEF TypeOK
    <3>2. /\ Len(q) \in Nat /\ Len(queue'[t]) = Len(q) + 1
          /\ \A i \in 1 .. Len(q) : queue'[t][i] = q[i]
          /\ queue'[t][Len(q) + 1] = c
      BY <3>1, AppendProperties, LenProperties
    <3> HIDE DEF q
    <3>3. \A i \in 1 .. Len(queue'[t]) : i \in 1 .. Len(q) \/ i = Len(q) + 1
      BY <3>2
    <3>4. \A i \in 1 .. Len(q) : q[i] # c /\ q[i] \in Slots
            /\ dialer'[q[i]] = Other(t) /\ resp'[q[i]] \in {"none", "reset"} /\ q[i] # aConn[t]
            /\ \A j \in 1 .. Len(q) : q[i] = q[j] => i = j
      BY <1>s, <1>c, <1>f, <2>2, <3>1 DEF TrayInv, Unanswered, TypeOK, q
    <3>5. dialer'[c] = Other(t) /\ resp'[c] \in {"none", "reset"} /\ c # aConn[t]
      BY <1>s, <1>c, <1>f, <2>2 DEF TypeOK
    <3>6. \A i \in 1 .. Len(queue'[t]) :
            /\ dialer'[queue'[t][i]] = Other(t) /\ resp'[queue'[t][i]] \in {"none", "reset"}
            /\ queue'[t][i] # aConn[t]
            /\ \A j \in 1 .. Len(queue'[t]) : queue'[t][i] = queue'[t][j] => i = j
      BY <3>2, <3>3, <3>4, <3>5
    <3>7. /\ aConn[t] # NoConn => dialer'[aConn[t]] = Other(t)
          /\ aPc[t] = "read" => resp'[aConn[t]] \in {"none", "reset"}
          /\ aPc[t] = "push" => resp'[aConn[t]] = "ok"
      BY <1>c, <1>f DEF TrayInv, Unanswered, TypeOK
    <3> QED BY <1>u, <3>6, <3>7 DEF TrayInv, Unanswered
  <2> QED BY <2>1, <2>2
<1>3. ASSUME NEW t \in Peers PROVE GotInv(t)'
  BY <1>c, <1>u, <1>f DEF GotInv, TypeOK
<1>4. ASSUME NEW e \in Dialers PROVE DialInv(e)'
  BY <1>s, <1>c, <1>u, <1>f, ConnectorAssumption DEF DialInv, TypeOK, PeerOf, s
<1>5. ASSUME NEW e \in Slots PROVE OkInv(e)'
  BY <1>c, <1>u, <1>f, TwoPeers DEF OkInv, TypeOK, Smaller
<1>6. ASSUME NEW e \in Slots PROVE OpenInv(e)'
  BY <1>c, <1>u, <1>f DEF OpenInv, TypeOK
<1> QED BY <1>1, <1>2, <1>3, <1>4, <1>5, <1>6

(* The connection at the head of the queue is nowhere else in it.          *)
LEMMA AcceptKeepsInv ==
  ASSUME ConnectorInv, NEW s \in Peers, Accept(s)
  PROVE  ConnectorInv'
<1> USE DEF ConnectorInv
<1> DEFINE q == queue[s]
<1>q. /\ q \in Seq(Slots) /\ q # <<>>
      /\ aPc[s] = "accept"
      /\ aConn' = [aConn EXCEPT ![s] = Head(q)]
      /\ queue' = [queue EXCEPT ![s] = Tail(q)]
      /\ aPc' = [aPc EXCEPT ![s] = "read"]
      /\ UNCHANGED <<dialer, resp, closed, dPc, dConn, main, got, result, failed, cancelled>>
  BY DEF Accept, TypeOK, dialVars, mainVars
<1>h. /\ Len(q) \in Nat /\ Len(Tail(q)) = Len(q) - 1 /\ Len(q) # 0
      /\ Head(q) = q[1]
      /\ \A i \in 1 .. Len(Tail(q)) : Tail(q)[i] = q[i + 1]
  BY <1>q, HeadTailProperties, LenProperties, EmptySeq
<1>a. aConn[s] = NoConn
  BY <1>q DEF TypeOK
<1> HIDE DEF q
<1>1. TypeOK'
  BY AcceptLoopTypes DEF AcceptLoop
<1>2. ASSUME NEW t \in Peers PROVE TrayInv(t)'
  <2>1. CASE t # s
    BY <1>q, <2>1 DEF TrayInv, Unanswered, TypeOK
  <2>2. CASE t = s
    <3>1. \A i \in 1 .. Len(q) :
            /\ dialer[q[i]] = Other(t) /\ resp[q[i]] \in {"none", "reset"}
            /\ \A j \in 1 .. Len(q) : q[i] = q[j] => i = j
      BY <2>2 DEF TrayInv, Unanswered, q
    <3>2. queue'[t] = Tail(q) /\ aConn'[t] = q[1] /\ aPc'[t] = "read"
      BY <1>q, <1>h, <2>2 DEF TypeOK
    <3>3. 1 \in 1 .. Len(q) /\ \A i \in 1 .. Len(Tail(q)) : i + 1 \in 1 .. Len(q) /\ i + 1 # 1
      BY <1>h
    <3>4. \A i \in 1 .. Len(Tail(q)) :
            /\ dialer[Tail(q)[i]] = Other(t) /\ resp[Tail(q)[i]] \in {"none", "reset"}
            /\ Tail(q)[i] # q[1]
            /\ \A j \in 1 .. Len(Tail(q)) : Tail(q)[i] = Tail(q)[j] => i = j
      <4> SUFFICES ASSUME NEW i \in 1 .. Len(Tail(q))
                   PROVE  /\ dialer[Tail(q)[i]] = Other(t) /\ resp[Tail(q)[i]] \in {"none", "reset"}
                          /\ Tail(q)[i] # q[1]
                          /\ \A j \in 1 .. Len(Tail(q)) : Tail(q)[i] = Tail(q)[j] => i = j
        OBVIOUS
      <4>1. /\ dialer[Tail(q)[i]] = Other(t) /\ resp[Tail(q)[i]] \in {"none", "reset"}
            /\ Tail(q)[i] # q[1]
        BY <1>h, <3>1, <3>3
      <4>2. ASSUME NEW j \in 1 .. Len(Tail(q)), Tail(q)[i] = Tail(q)[j] PROVE i = j
        <5>1. i + 1 = j + 1
          BY <1>h, <3>1, <3>3, <4>2
        <5> QED BY <5>1
      <4> QED BY <4>1, <4>2
    <3>5. dialer[aConn'[t]] = Other(t) /\ resp[aConn'[t]] \in {"none", "reset"}
      BY <3>1, <3>2, <3>3
    <3>6. dialer' = dialer /\ resp' = resp
      BY <1>q
    <3>7. \A i \in 1 .. Len(queue'[t]) :
            /\ dialer[queue'[t][i]] = Other(t) /\ resp[queue'[t][i]] \in {"none", "reset"}
            /\ queue'[t][i] # aConn'[t]
            /\ \A j \in 1 .. Len(queue'[t]) : queue'[t][i] = queue'[t][j] => i = j
      BY <3>2, <3>4
    <3> QED BY <3>2, <3>5, <3>6, <3>7 DEF TrayInv, Unanswered
  <2> QED BY <2>1, <2>2
<1>3. ASSUME NEW t \in Peers PROVE GotInv(t)'
  BY <1>q DEF GotInv, TypeOK
<1>4. ASSUME NEW e \in Dialers PROVE DialInv(e)'
  BY <1>q DEF DialInv
<1>5. ASSUME NEW c \in Slots PROVE OkInv(c)'
  BY <1>q, TwoPeers DEF OkInv, TypeOK, Smaller
<1>6. ASSUME NEW c \in Slots PROVE OpenInv(c)'
  <2>1. resp[Head(q)] \in {"none", "reset"}
    BY <1>h DEF TrayInv, Unanswered, q
  <2> QED BY <1>q, <2>1, TwoPeers DEF OpenInv, TypeOK
<1> QED BY <1>1, <1>2, <1>3, <1>4, <1>5, <1>6

(* The acceptLoop of the larger peer says ok to one connection, after      *)
(* which it handles no other; that of the smaller peer says it to none.    *)
LEMMA AnswerOKKeepsInv ==
  ASSUME ConnectorInv, NEW s \in Peers, AnswerOK(s)
  PROVE  ConnectorInv'
<1> USE DEF ConnectorInv
<1> DEFINE a == aConn[s]
<1>a. /\ a \in Slots /\ dialer[a] = Other(s) /\ resp[a] = "none" /\ closed[a] = "no"
      /\ aPc[s] = "read" /\ ~(IDOf[dialer[a]] > IDOf[s])
      /\ resp' = [resp EXCEPT ![a] = "ok"]
      /\ aPc' = [aPc EXCEPT ![s] = "push"]
      /\ UNCHANGED <<dialer, closed, queue, aConn, dPc, dConn, main, got, result, failed, cancelled>>
  BY DEF AnswerOK, LargerID, TrayInv, Unanswered, TypeOK, dialVars, mainVars
<1>p. Smaller(Other(s)) /\ ~Smaller(s)
  BY <1>a, OneIsSmaller
<1>n. \A e \in Slots : resp[e] # "ok"
  <2> SUFFICES ASSUME NEW e \in Slots, resp[e] = "ok" PROVE FALSE
    OBVIOUS
  <2>1. Smaller(dialer[e]) /\ dialer[e] \in Peers /\ aPc[Other(dialer[e])] \in {"push", "exit"}
    BY DEF OkInv, TypeOK
  <2>2. dialer[e] = Other(s)
    BY <1>p, <2>1, TwoPeers
  <2> QED BY <1>a, <2>1, <2>2, TwoPeers
<1>1. TypeOK'
  BY AcceptLoopTypes DEF AcceptLoop
<1> HIDE DEF a
<1>2. ASSUME NEW t \in Peers PROVE TrayInv(t)'
  BY <1>a, TwoPeers, ConnectorAssumption DEF TrayInv, Unanswered, TypeOK, a
<1>3. ASSUME NEW t \in Peers PROVE GotInv(t)'
  BY <1>a, <1>n DEF GotInv, TypeOK
<1>4. ASSUME NEW e \in Dialers PROVE DialInv(e)'
  BY <1>a DEF DialInv, TypeOK
<1>5. ASSUME NEW c \in Slots PROVE OkInv(c)'
  <2>1. CASE c # a
    BY <1>a, <1>n, <2>1 DEF OkInv, TypeOK
  <2>2. CASE c = a
    <3>1. /\ Other(dialer[c]) = s /\ Smaller(dialer[c])
          /\ aPc'[s] = "push" /\ aConn[s] = c
          /\ \A e \in Slots : resp'[e] = "ok" => e = c
      BY <1>a, <1>n, <1>p, <2>2, TwoPeers DEF TypeOK, a
    <3> QED BY <1>a, <3>1 DEF OkInv, Smaller
  <2> QED BY <2>1, <2>2
<1>6. ASSUME NEW c \in Slots PROVE OpenInv(c)'
  BY <1>a DEF OpenInv, TypeOK
<1> QED BY <1>1, <1>2, <1>3, <1>4, <1>5, <1>6

(* A loop that finds Connect in its select hands the connection over; one  *)
(* that comes too late closes it, and nobody else of its end has it.       *)
LEMMA PushDialledKeepsInv ==
  ASSUME ConnectorInv, NEW d \in Dialers, PushDialled(d)
  PROVE  ConnectorInv'
<1> USE DEF ConnectorInv
<1> DEFINE s == PeerOf(d)
<1> DEFINE k == dConn[d]
<1>s. s \in Peers
  BY ConnectorAssumption DEF PeerOf
<1>k. /\ k \in Slots /\ dialer[k] = s /\ resp[k] = "ok" /\ got[s] # k
      /\ \A e \in Dialers : dConn[e] = k => e = d
      /\ dPc[d] = "push"
      /\ dPc' = [dPc EXCEPT ![d] = "exit"]
      /\ dConn' = [dConn EXCEPT ![d] = NoConn]
      /\ UNCHANGED <<dialer, resp, queue, aPc, aConn, result, failed, cancelled>>
  BY DEF PushDialled, DialLeaves, DialInv, TypeOK, acceptVars
<1>h. \/ /\ main[s] = "select" /\ got' = [got EXCEPT ![s] = k]
         /\ main' = [main EXCEPT ![s] = "connected"] /\ closed' = closed
      \/ closed' = [closed EXCEPT ![k] = "cancelled"] /\ got' = got /\ main' = main
  BY DEF PushDialled, Connected
<1>1. TypeOK'
  BY DialLoopTypes DEF DialLoop
<1> HIDE DEF s, k
<1>2. ASSUME NEW t \in Peers PROVE TrayInv(t)'
  BY <1>k DEF TrayInv, Unanswered
<1>3. ASSUME NEW t \in Peers PROVE GotInv(t)'
  <2>1. CASE closed' = closed /\ got' = [got EXCEPT ![s] = k] /\ main[s] = "select"
                /\ main' = [main EXCEPT ![s] = "connected"]
    BY <1>s, <1>k, <2>1, ConnectorAssumption DEF GotInv, TypeOK
  <2>2. CASE got' = got /\ main' = main
    BY <1>k, <2>2 DEF GotInv
  <2> QED BY <1>h, <2>1, <2>2
<1>4. ASSUME NEW e \in Dialers PROVE DialInv(e)'
  <2>1. PeerOf(e) \in Peers
    BY ConnectorAssumption DEF PeerOf
  <2> QED BY <1>s, <1>k, <1>h, <2>1 DEF DialInv, TypeOK
<1>5. ASSUME NEW c \in Slots PROVE OkInv(c)'
  BY <1>k DEF OkInv, Smaller
<1>6. ASSUME NEW c \in Slots PROVE OpenInv(c)'
  <2>1. CASE closed' = closed /\ got' = [got EXCEPT ![s] = k]
    <3>1. CASE c # k
      BY <1>s, <1>k, <2>1, <3>1, TwoPeers, ConnectorAssumption DEF OpenInv, TypeOK
    <3>2. CASE c = k
      BY <1>s, <1>k, <2>1, <3>2, TwoPeers DEF OpenInv, TypeOK, k
    <3> QED BY <3>1, <3>2
  <2>2. CASE closed' = [closed EXCEPT ![k] = "cancelled"] /\ got' = got
    <3>1. CASE c # k
      BY <1>k, <2>2, <3>1, ConnectorAssumption DEF OpenInv, TypeOK
    <3>2. CASE c = k
      BY <1>k, <2>2, <3>2, ConnectorAssumption DEF OpenInv, TypeOK
    <3> QED BY <3>1, <3>2
  <2> QED BY <1>h, <2>1, <2>2
<1> QED BY <1>1, <1>2, <1>3, <1>4, <1>5, <1>6

(* The same for the acceptLoop, which is the only one of its end to have   *)
(* the connection.                                                         *)
LEMMA PushAcceptedKeepsInv ==
  ASSUME ConnectorInv, NEW s \in Peers, PushAccepted(s)
  PROVE  ConnectorInv'
<1> USE DEF ConnectorInv
<1> DEFINE k == aConn[s]
<1>k. /\ k \in Slots /\ dialer[k] = Other(s) /\ resp[k] = "ok"
      /\ aPc[s] = "push"
      /\ aPc' = [aPc EXCEPT ![s] = "exit"]
      /\ aConn' = [aConn EXCEPT ![s] = NoConn]
      /\ UNCHANGED <<dialer, resp, queue, dPc, dConn, result, failed, cancelled>>
  BY DEF PushAccepted, AcceptLeaves, TrayInv, Unanswered, TypeOK, dialVars
<1>h. \/ /\ main[s] = "select" /\ got' = [got EXCEPT ![s] = k]
         /\ main' = [main EXCEPT ![s] = "connected"] /\ closed' = closed
      \/ closed' = [closed EXCEPT ![k] = "cancelled"] /\ got' = got /\ main' = main
  BY DEF PushAccepted, Connected
<1>g. got[s] # k
  BY <1>k, TwoPeers, ConnectorAssumption DEF GotInv
<1>1. TypeOK'
  BY AcceptLoopTypes DEF AcceptLoop
<1> HIDE DEF k
<1>2. ASSUME NEW t \in Peers PROVE TrayInv(t)'
  BY <1>k, ConnectorAssumption DEF TrayInv, Unanswered, TypeOK
<1>3. ASSUME NEW t \in Peers PROVE GotInv(t)'
  <2>1. CASE closed' = closed /\ got' = [got EXCEPT ![s] = k] /\ main[s] = "select"
                /\ main' = [main EXCEPT ![s] = "connected"]
    BY <1>k, <2>1, ConnectorAssumption DEF GotInv, TypeOK
  <2>2. CASE got' = got /\ main' = main
    BY <1>k, <2>2 DEF GotInv, TypeOK
  <2> QED BY <1>h, <2>1, <2>2
<1>4. ASSUME NEW e \in Dialers PROVE DialInv(e)'
  <2>1. PeerOf(e) \in Peers
    BY ConnectorAssumption DEF PeerOf
  <2> QED BY <1>k, <1>h, <2>1, TwoPeers DEF DialInv, TypeOK
<1>5. ASSUME NEW c \in Slots PROVE OkInv(c)'
  BY <1>k, TwoPeers DEF OkInv, TypeOK, Smaller
<1>6. ASSUME NEW c \in Slots PROVE OpenInv(c)'
  <2>1. CASE closed' = closed /\ got' = [got EXCEPT ![s] = k]
    <3>1. CASE c # k
      BY <1>k, <2>1, <3>1, TwoPeers, ConnectorAssumption DEF OpenInv, TypeOK
    <3>2. CASE c = k
      BY <1>k, <2>1, <3>2, TwoPeers DEF OpenInv, TypeOK, k
    <3> QED BY <3>1, <3>2
  <2>2. CASE closed' = [closed EXCEPT ![k] = "cancelled"] /\ got' = got
    <3>1. CASE c # k
      BY <1>k, <2>2, <3>1, TwoPeers, ConnectorAssumption DEF OpenInv, TypeOK
    <3>2. CASE c = k
      BY <1>k, <1>g, <2>2, <3>2, TwoPeers, ConnectorAssumption DEF OpenInv, TypeOK
    <3> QED BY <3>1, <3>2
  <2> QED BY <1>h, <2>1, <2>2
<1> QED BY <1>1, <1>2, <1>3, <1>4, <1>5, <1>6

(* Nobody has a connection at first.                                       *)
LEMMA ConnectorInvInit == Init => ConnectorInv
<1> SUFFICES ASSUME Init PROVE ConnectorInv
  OBVIOUS
<1>1. (CHOOSE s \in Peers : TRUE) \in Peers
  BY ConnectorAssumption
<1>2. <<>> \in Seq(Slots) /\ Len(<<>>) = 0
  BY EmptySeq
<1>3. TypeOK
  BY <1>1, <1>2 DEF Init, TypeOK
<1>4. \A t \in Peers : TrayInv(t) /\ GotInv(t)
  BY <1>2, ConnectorAssumption DEF Init, TrayInv, Unanswered, GotInv
<1>5. \A d \in Dialers : DialInv(d)
  BY DEF Init, DialInv
<1>6. \A c \in Slots : OkInv(c) /\ OpenInv(c)
  BY DEF Init, OkInv, OpenInv
<1> QED BY <1>3, <1>4, <1>5, <1>6 DEF ConnectorInv

(* Every step of either peer keeps the invariant.                          *)
LEMMA ConnectorInvNext == ConnectorInv /\ [Next]_vars => ConnectorInv'
<1> SUFFICES ASSUME ConnectorInv, [Next]_vars PROVE ConnectorInv'
  OBVIOUS
<1>1. CASE UNCHANGED vars
  BY <1>1 DEF ConnectorInv, TypeOK, TrayInv, Unanswered, GotInv, DialInv, OkInv, OpenInv, Smaller,
     vars, connVars, acceptVars, dialVars, mainVars
<1>2. ASSUME NEW d \in Dialers, DialLoop(d) \/ DialFails(d) PROVE ConnectorInv'
  BY <1>2, DialKeepsInv, DialCancelledKeepsInv, DialFailsKeepsInv, HandshakeOKKeepsInv,
     HandshakeRefusedKeepsInv, HandshakeCancelledKeepsInv, HandshakeCutKeepsInv,
     PushDialledKeepsInv DEF DialLoop
<1>3. ASSUME NEW s \in Peers, AcceptLoop(s) \/ AcceptFails(s) PROVE ConnectorInv'
  BY <1>3, AcceptKeepsInv, AcceptCancelledKeepsInv, AcceptFailsKeepsInv, AnswerOKKeepsInv,
     AnswerConflictKeepsInv, ReadCancelledKeepsInv, AnswerCutKeepsInv,
     PushAcceptedKeepsInv DEF AcceptLoop
<1>4. ASSUME NEW s \in Peers, GiveUp(s) \/ Return(s) \/ Cancel(s) PROVE ConnectorInv'
  BY <1>4, GiveUpKeepsInv, ReturnKeepsInv, CancelKeepsInv
<1> QED BY <1>1, <1>2, <1>3, <1>4 DEF Next
-----------------------------------------------------------------------------
(* Every variable of the two Connects has its type, and a loop holds a     *)
(* connection exactly while it is handling one.                            *)
THEOREM ConnectorTypes == Spec => []TypeOK
<1>1. ConnectorInv => TypeOK
  BY DEF ConnectorInv
<1> QED BY <1>1, ConnectorInvInit, ConnectorInvNext, PTL DEF Spec

(* Whatever the two peers' loops do, fail or have cancelled, and in any    *)
(* order: when both calls of Connect return a connection it is the same    *)
(* one, still open, dialled by the peer with the smaller ID; and (nil, nil)*)
(* is returned only to a cancelled caller.                                 *)
THEOREM ResultsAgree == Spec => []ConnectResult
<1>1. ConnectorInv => Agreement
  <2> SUFFICES ASSUME ConnectorInv, NEW s \in Peers,
                      result[s] \in Slots, result[Other(s)] \in Slots
               PROVE  /\ result[s] = result[Other(s)]
                      /\ closed[result[s]] = "no"
                      /\ IDOf[dialer[result[s]]] <= IDOf[s]
    BY DEF Agreement
  <2> DEFINE c == result[s]
  <2> DEFINE o == Other(s)
  <2>1. /\ o \in Peers /\ o # s /\ Other(o) = s
        /\ c # NoConn /\ result[o] # NoConn
    BY TwoPeers, ConnectorAssumption
  <2>2. /\ got[s] = c /\ resp[c] = "ok"
        /\ got[o] = result[o] /\ resp[result[o]] = "ok"
    BY <2>1 DEF ConnectorInv, GotInv
  <2>3. result[o] = c /\ Smaller(dialer[c])
    BY <2>2 DEF ConnectorInv, OkInv
  <2>4. dialer[c] \in Peers /\ closed[c] \in {"no", "cancelled", "conflict"}
    BY DEF ConnectorInv, TypeOK
  <2>5. \A t \in Peers : got[t] = c
    BY <2>2, <2>3, TwoPeers
  <2>6. closed[c] = "no"
    BY <2>2, <2>4, <2>5, TwoPeers DEF ConnectorInv, OpenInv
  <2>7. IDOf[dialer[c]] <= IDOf[s]
    <3>1. CASE dialer[c] = s
      BY <3>1, ConnectorAssumption
    <3>2. CASE dialer[c] = o
      BY <2>3, <3>2, OneIsSmaller
    <3> QED BY <2>4, <3>1, <3>2, TwoPeers
  <2> QED BY <2>3, <2>6, <2>7
<1>2. ConnectorInv => NilOnlyOnCancel
  BY DEF ConnectorInv, GotInv, NilOnlyOnCancel
<1>3. ConnectorInv => ConnectResult
  BY <1>1, <1>2 DEF ConnectResult
<1> QED BY <1>3, ConnectorInvInit, ConnectorInvNext, PTL DEF Spec
=============================================================================
