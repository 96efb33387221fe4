--------------------------- MODULE RegistarProofs ---------------------------
(***************************************************************************)
(* Theorems of Registar, for every set of keys, hosters and joiners.       *)
(***************************************************************************)
EXTENDS Registar, SequenceTheorems, TLAPS

(* A joiner's handler past the look-up holds a pointer to a host agent.    *)
TargetInv ==
  \A p \in Joiners : pc[p] \in {"waitLock", "p2p", "relay"} => target[p] \in Hosters

TypeInv == TypeOK /\ TargetInv

(* CommandBoth keeps the command queues well typed.                        *)
LEMMA CommandBothType ==
  ASSUME TypeOK, NEW p \in Joiners, NEW kind \in {"connect", "relay"},
         CommandBoth(p, kind)
  PROVE  /\ reqs' \in [Clients -> Seq(Commands)]
         /\ hostErr' \in [Joiners -> Status \cup {"pending"}]
         /\ peerErr' \in [Joiners -> Status \cup {"pending"}]
<1>1. [from |-> p, kind |-> kind] \in Commands
  BY DEF Commands
<1>2. reqs' \in [Clients -> Seq(Commands)]
  BY <1>1 DEF TypeOK, CommandBoth
<1>3. hostErr' \in [Joiners -> Status \cup {"pending"}]
  BY DEF TypeOK, CommandBoth
<1>4. peerErr' \in [Joiners -> Status \cup {"pending"}]
  BY DEF TypeOK, CommandBoth, Status
<1> QED
  BY <1>2, <1>3, <1>4

(* Reply keeps the queues of a client well typed ...                       *)
LEMMA ReplyType ==
  ASSUME TypeOK, NEW c \in Clients, reqs[c] # <<>>, NEW status \in Status,
         Reply(c, status)
  PROVE  /\ reqs' \in [Clients -> Seq(Commands)]
         /\ resps' \in [Clients -> Seq(Answers)]
<1>1. reqs[c] \in Seq(Commands) /\ Head(reqs[c]) \in Commands
  BY DEF TypeOK
<1>2. [from |-> Head(reqs[c]).from, status |-> status] \in Answers
  BY <1>1 DEF Commands, Answers
<1>3. Tail(reqs[c]) \in Seq(Commands)
  BY <1>1
<1> QED
  BY <1>2, <1>3 DEF TypeOK, Reply

(* ... and so does Deliver, which respects the capacity of the channel.    *)
LEMMA DeliverType ==
  ASSUME TypeOK, NEW c \in Clients, reqs[c] # <<>>, Deliver(c)
  PROVE  /\ reqs' \in [Clients -> Seq(Commands)]
         /\ resps' \in [Clients -> Seq(Answers)]
         /\ conns' \in [Clients -> Seq(Joiners)]
         /\ \A d \in Clients : Len(conns'[d]) <= ConnsCap
<1>1. reqs[c] \in Seq(Commands) /\ Head(reqs[c]) \in Commands
  BY DEF TypeOK
<1>2. Head(reqs[c]).from \in Joiners
  BY <1>1 DEF Commands
<1>3. /\ reqs' \in [Clients -> Seq(Commands)]
      /\ resps' \in [Clients -> Seq(Answers)]
  BY ReplyType DEF Deliver, Status
<1>4. conns' = [conns EXCEPT ![c] = Append(@, Head(reqs[c]).from)]
  BY DEF Deliver
<1>5. conns[c] \in Seq(Joiners) /\ Len(conns[c]) < 1
  BY DEF TypeOK, Deliver, HasRoom, ConnsCap
<1>6. /\ Append(conns[c], Head(reqs[c]).from) \in Seq(Joiners)
      /\ Len(Append(conns[c], Head(reqs[c]).from)) <= 1
  BY <1>2, <1>5
<1> QED
  BY <1>3, <1>4, <1>6 DEF TypeOK, ConnsCap

(* Every action keeps the type invariant.                                  *)
LEMMA TypeStep == TypeInv /\ [Next]_vars => TypeInv'
<1> SUFFICES ASSUME TypeInv, [Next]_vars PROVE TypeInv'
  OBVIOUS
<1> USE ClientAssumption DEF TypeInv, TargetInv
<1>1. ASSUME NEW c \in Clients, Register(c) PROVE TypeInv'
  BY <1>1 DEF TypeOK, Register, RequestArrives, NewCert, StoreSessionCA, SessionCA,
     NoCA, HandlerStates, Clients, netVars, hostVars, setupVars
<1>2. ASSUME NEW c \in Clients, RejectRequest(c) PROVE TypeInv'
  <2>1. sessionsCA' \in [Keys -> Nat] /\ nextCA' \in Nat \ {0}
    BY <1>2 DEF TypeOK, RejectRequest, StoreSessionCA, SessionCA, NoCA
  <2> QED
    BY <1>2, <2>1 DEF TypeOK, RejectRequest, Cancel, HandlerStates, Codes, Clients,
       netVars, hostVars, setupVars
<1>3. ASSUME NEW c \in Clients, Disconnect(c) PROVE TypeInv'
  BY <1>3 DEF TypeOK, Disconnect, caVars, hostVars, setupVars
<1>4. ASSUME NEW c \in Clients, AgentConnectTo(c) PROVE TypeInv'
  <2>1. /\ reqs' \in [Clients -> Seq(Commands)]
        /\ resps' \in [Clients -> Seq(Answers)]
        /\ conns' \in [Clients -> Seq(Joiners)]
        /\ \A d \in Clients : Len(conns'[d]) <= ConnsCap
    <3>1. CASE Deliver(c)
      BY <1>4, <3>1, DeliverType DEF AgentConnectTo
    <3>2. CASE (Reply(c, "connectFailed") \/ ReplyError(c)) /\ UNCHANGED conns
      <4>1. PICK status \in Status : Reply(c, status)
        BY <3>2 DEF ReplyError, Status
      <4> QED
        BY <1>4, <3>2, <4>1, ReplyType DEF AgentConnectTo, TypeOK, Status
    <3> QED
      BY <1>4, <3>1, <3>2 DEF AgentConnectTo
  <2> QED
    BY <1>4, <2>1 DEF TypeOK, AgentConnectTo, caVars, hostVars, setupVars
<1>5. ASSUME NEW c \in Clients, AgentConnectViaRelay(c) PROVE TypeInv'
  <2>1. /\ reqs' \in [Clients -> Seq(Commands)]
        /\ resps' \in [Clients -> Seq(Answers)]
        /\ conns' \in [Clients -> Seq(Joiners)]
        /\ \A d \in Clients : Len(conns'[d]) <= ConnsCap
    <3>1. CASE Deliver(c)
      BY <1>5, <3>1, DeliverType DEF AgentConnectViaRelay
    <3>2. CASE ReplyError(c) /\ UNCHANGED conns
      <4>1. PICK status \in Status : Reply(c, status)
        BY <3>2 DEF ReplyError, Status
      <4> QED
        BY <1>5, <3>2, <4>1, ReplyType DEF AgentConnectViaRelay, TypeOK, Status
    <3> QED
      BY <1>5, <3>1, <3>2 DEF AgentConnectViaRelay
  <2> QED
    BY <1>5, <2>1 DEF TypeOK, AgentConnectViaRelay, caVars, hostVars, setupVars
<1>6. ASSUME NEW c \in Clients, Accept(c) PROVE TypeInv'
  <2>1. conns[c] \in Seq(Joiners) /\ conns[c] # <<>> /\ Len(conns[c]) <= 1
    BY <1>6 DEF Accept, TypeOK, ConnsCap
  <2>2. /\ Head(conns[c]) \in Joiners
        /\ Tail(conns[c]) \in Seq(Joiners)
        /\ Len(Tail(conns[c])) <= 1
    BY <2>1
  <2> QED
    BY <1>6, <2>2 DEF TypeOK, Accept, caVars, hostVars, setupVars, ConnsCap
<1>7. ASSUME NEW h \in Hosters, HostHandler(h) PROVE TypeInv'
  <2>1. CASE RejectHost(h)
    BY <2>1 DEF TypeOK, RejectHost, Cancel, HandlerStates, Codes, Clients,
       netVars, caVars, hostVars, setupVars
  <2>2. CASE RegisterHost(h)
    BY <2>2 DEF TypeOK, RegisterHost, HandlerStates, Clients, netVars, caVars, setupVars
  <2>3. CASE HostConnected(h)
    BY <2>3 DEF TypeOK, HostConnected, HandlerStates, Clients, netVars, caVars, setupVars
  <2> QED
    BY <1>7, <2>1, <2>2, <2>3 DEF HostHandler
<1>8. ASSUME NEW h \in Hosters, HostGone(h) PROVE TypeInv'
  BY <1>8 DEF TypeOK, HostGone, NoCA, Clients, netVars, setupVars
<1>9. ASSUME NEW p \in Joiners, JoinHandler(p) PROVE TypeInv'
  <2>1. CASE LookupHost(p)
    <3>1. CASE HostRegistered(KeyOf[p])
      <4>1. hosts[KeyOf[p]] \in Hosters
        BY <3>1 DEF TypeOK, HostRegistered, Clients
      <4>2. /\ target' = [target EXCEPT ![p] = hosts[KeyOf[p]]]
            /\ pc' = [pc EXCEPT ![p] = "waitLock"]
            /\ code' = code
            /\ UNCHANGED <<dead, shut, netVars, caVars, hostVars, mu, hostErr, peerErr, via>>
        BY <2>1, <3>1 DEF LookupHost
      <4> QED
        BY <4>1, <4>2 DEF TypeOK, HandlerStates, Clients, netVars, caVars, hostVars
    <3>2. CASE ~HostRegistered(KeyOf[p])
      <4>1. /\ target' = target
            /\ pc' = [pc EXCEPT ![p] = "closed"]
            /\ code' = [code EXCEPT ![p] = "HostNotFound"]
            /\ UNCHANGED <<dead, shut, netVars, caVars, hostVars, mu, hostErr, peerErr, via>>
        BY <2>1, <3>2 DEF LookupHost, Cancel
      <4> QED
        BY <4>1 DEF TypeOK, HandlerStates, Codes, Clients, netVars, caVars, hostVars
    <3> QED
      BY <3>1, <3>2
  <2>2. CASE LockHost(p)
    <3>1. /\ reqs' \in [Clients -> Seq(Commands)]
          /\ hostErr' \in [Joiners -> Status \cup {"pending"}]
          /\ peerErr' \in [Joiners -> Status \cup {"pending"}]
      BY <2>2, CommandBothType DEF LockHost
    <3> QED
      BY <2>2, <3>1 DEF TypeOK, LockHost, HandlerStates, Clients, caVars, hostVars
  <2>3. CASE RecvHost(p)
    <3>1. target[p] \in Clients /\ resps[target[p]] \in Seq(Answers)
      BY <2>3 DEF RecvHost, TypeOK, Clients
    <3>2. /\ hostErr' \in [Joiners -> Status \cup {"pending"}]
          /\ resps' \in [Clients -> Seq(Answers)]
      <4>1. CASE /\ resps[target[p]] # <<>>
                /\ hostErr' = [hostErr EXCEPT ![p] = Head(resps[target[p]]).status]
                   /\ resps' = [resps EXCEPT ![target[p]] = Tail(@)]
        <5>1. Head(resps[target[p]]) \in Answers /\ Tail(resps[target[p]]) \in Seq(Answers)
          BY <3>1, <4>1
        <5>2. Head(resps[target[p]]).status \in Status
          BY <5>1 DEF Answers
        <5> QED
          BY <4>1, <5>1, <5>2 DEF TypeOK
      <4>2. CASE hostErr' = [hostErr EXCEPT ![p] = "error"] /\ UNCHANGED resps
        BY <4>2 DEF TypeOK, Status
      <4> QED
        BY <2>3, <4>1, <4>2 DEF RecvHost, AnswerRead
    <3> QED
      BY <2>3, <3>2 DEF TypeOK, RecvHost, caVars, hostVars
  <2>4. CASE RecvPeer(p)
    <3>1. p \in Clients /\ resps[p] \in Seq(Answers)
      BY DEF TypeOK, Clients
    <3>2. /\ peerErr' \in [Joiners -> Status \cup {"pending"}]
          /\ resps' \in [Clients -> Seq(Answers)]
      <4>1. CASE resps[p] # <<>> /\ peerErr' = [peerErr EXCEPT ![p] = Head(resps[p]).status]
                   /\ resps' = [resps EXCEPT ![p] = Tail(@)]
        <5>1. Head(resps[p]) \in Answers /\ Tail(resps[p]) \in Seq(Answers)
          BY <3>1, <4>1
        <5>2. Head(resps[p]).status \in Status
          BY <5>1 DEF Answers
        <5> QED
          BY <4>1, <5>1, <5>2 DEF TypeOK
      <4>2. CASE peerErr' = [peerErr EXCEPT ![p] = "error"] /\ UNCHANGED resps
        BY <4>2 DEF TypeOK, Status
      <4> QED
        BY <2>4, <4>1, <4>2 DEF RecvPeer, AnswerRead
    <3> QED
      BY <2>4, <3>2 DEF TypeOK, RecvPeer, caVars, hostVars
  <2>5. CASE P2PConnected(p)
    BY <2>5 DEF TypeOK, P2PConnected, Finish, Cancel, HandlerStates, Codes, Clients,
       netVars, caVars, hostVars
  <2>6. CASE FallBackToRelay(p)
    <3>1. /\ reqs' \in [Clients -> Seq(Commands)]
          /\ hostErr' \in [Joiners -> Status \cup {"pending"}]
          /\ peerErr' \in [Joiners -> Status \cup {"pending"}]
      BY <2>6, CommandBothType DEF FallBackToRelay
    <3> QED
      BY <2>6, <3>1 DEF TypeOK, FallBackToRelay, HandlerStates, Clients, caVars, hostVars
  <2>7. CASE RelayConnected(p)
    BY <2>7 DEF TypeOK, RelayConnected, Finish, Cancel, HandlerStates, Codes, Clients,
       netVars, caVars, hostVars
  <2>8. CASE SetupFailed(p)
    BY <2>8 DEF TypeOK, SetupFailed, Finish, Cancel, HandlerStates, Codes, Clients,
       netVars, caVars, hostVars
  <2> QED
    BY <1>9, <2>1, <2>2, <2>3, <2>4, <2>5, <2>6, <2>7, <2>8 DEF JoinHandler
<1>10. CASE Close
  BY <1>10 DEF TypeOK, Close, NoCA, netVars, setupVars
<1>11. CASE UNCHANGED vars
  BY <1>11 DEF TypeOK, vars, netVars, caVars, hostVars, setupVars
<1> QED
  BY <1>1, <1>2, <1>3, <1>4, <1>5, <1>6, <1>7, <1>8, <1>9, <1>10, <1>11
  DEF Next, Agent

(* The initial state is well typed.                                        *)
LEMMA TypeInit == Init => TypeInv
<1> SUFFICES ASSUME Init PROVE TypeInv
  OBVIOUS
<1>1. TargetInv
  BY DEF Init, TargetInv, Clients
<1>2. /\ reqs \in [Clients -> Seq(Commands)]
      /\ resps \in [Clients -> Seq(Answers)]
      /\ conns \in [Clients -> Seq(Joiners)]
      /\ \A c \in Clients : Len(conns[c]) <= ConnsCap
  BY DEF Init, ConnsCap
<1>3. /\ sessionsCA \in [Keys -> Nat]
      /\ nextCA \in Nat \ {0}
      /\ certCA \in [Clients -> Nat]
  BY DEF Init, NoCA
<1> QED
  BY <1>1, <1>2, <1>3 DEF Init, TypeInv, TypeOK, HandlerStates, Codes

(* Type correctness of the whole control plane: every message a client or  *)
(* the server reads is well formed, a handler that commands a host has one *)
(* to command, and a channel of connections never exceeds its capacity.    *)
THEOREM TypeCorrect == Spec => []TypeOK
  BY TypeInit, TypeStep, PTL DEF Spec, TypeInv
-----------------------------------------------------------------------------
(* The map of hosts and the session CAs.                                   *)

(* The only actions that touch the map of hosts or a pending clean-up.     *)
LEMMA HostsChange ==
  ASSUME [Next]_vars
  PROVE  \/ UNCHANGED <<hosts, afterFunc, shut>>
         \/ \E h \in Hosters : RegisterHost(h) \/ HostGone(h)
         \/ Close
<1> USE DEF netVars, caVars, hostVars, setupVars
<1>1. ASSUME NEW c \in Clients,
             Register(c) \/ RejectRequest(c) \/ Disconnect(c) \/ Agent(c) \/ Accept(c)
      PROVE  UNCHANGED <<hosts, afterFunc, shut>>
  BY <1>1 DEF Register, RejectRequest, RequestArrives, NewCert, Disconnect, Agent,
     AgentConnectTo, AgentConnectViaRelay, Accept
<1>2. ASSUME NEW h \in Hosters, HostHandler(h)
      PROVE  UNCHANGED <<hosts, afterFunc, shut>> \/ RegisterHost(h)
  BY <1>2 DEF HostHandler, RejectHost, HostConnected
<1>3. ASSUME NEW p \in Joiners, JoinHandler(p)
      PROVE  UNCHANGED <<hosts, afterFunc, shut>>
  BY <1>3 DEF JoinHandler, LookupHost, LockHost, RecvHost, RecvPeer, P2PConnected,
     FallBackToRelay, RelayConnected, SetupFailed
<1>4. CASE UNCHANGED vars
  BY <1>4 DEF vars
<1> QED
  BY <1>1, <1>2, <1>3, <1>4 DEF Next

(* A host with a pending clean-up owns the entry of its key, in every      *)
(* interleaving of registrations, take-overs and disconnects: the          *)
(* unconditional delete in the AfterFunc of registerHost is safe.          *)
THEOREM HostOwnsEntry == Spec => []OwnEntry
<1>1. Init => OwnEntry
  BY DEF Init, OwnEntry
<1>2. TypeInv /\ OwnEntry /\ [Next]_vars => OwnEntry'
  <2> SUFFICES ASSUME TypeInv, OwnEntry, [Next]_vars PROVE OwnEntry'
    OBVIOUS
  <2> USE ClientAssumption DEF TypeInv, TypeOK, Clients
  <2>1. CASE UNCHANGED <<hosts, afterFunc, shut>>
    BY <2>1 DEF OwnEntry
  <2>2. ASSUME NEW h \in Hosters, RegisterHost(h) PROVE OwnEntry'
    BY <2>2 DEF OwnEntry, RegisterHost, HostRegistered
  <2>3. ASSUME NEW h \in Hosters, HostGone(h) PROVE OwnEntry'
    BY <2>3 DEF OwnEntry, HostGone
  <2>4. CASE Close
    BY <2>4 DEF OwnEntry, Close
  <2> QED
    BY <2>1, <2>2, <2>3, <2>4, HostsChange
<1> QED
  BY <1>1, <1>2, TypeInit, TypeStep, PTL DEF Spec

(* The only actions that touch the session CAs.                            *)
LEMMA CAChange ==
  ASSUME [Next]_vars
  PROVE  \/ UNCHANGED caVars
         \/ \E c \in Clients : Register(c) \/ RejectRequest(c)
         \/ \E h \in Hosters : HostGone(h)
         \/ Close
<1>1. ASSUME NEW c \in Clients, Disconnect(c) \/ Agent(c) \/ Accept(c)
      PROVE  UNCHANGED caVars
  BY <1>1 DEF Disconnect, Agent, AgentConnectTo, AgentConnectViaRelay, Accept
<1>2. ASSUME NEW h \in Hosters, HostHandler(h)
      PROVE  UNCHANGED caVars
  BY <1>2 DEF HostHandler, RejectHost, RegisterHost, HostConnected
<1>3. ASSUME NEW p \in Joiners, JoinHandler(p)
      PROVE  UNCHANGED caVars
  BY <1>3 DEF JoinHandler, LookupHost, LockHost, RecvHost, RecvPeer, P2PConnected,
     FallBackToRelay, RelayConnected, SetupFailed
<1>4. CASE UNCHANGED vars
  BY <1>4 DEF vars
<1> QED
  BY <1>1, <1>2, <1>3, <1>4 DEF Next

(* CAs that were issued are older than the next one; a CA belongs to one   *)
(* key, in the Authority's map and in the certificates.                    *)
CAInv ==
  /\ \A k \in Keys : sessionsCA[k] < nextCA
  /\ \A c \in Clients : certCA[c] < nextCA
  /\ \A k, l \in Keys : (sessionsCA[k] # NoCA /\ sessionsCA[k] = sessionsCA[l]) => k = l
  /\ \A c \in Clients, k \in Keys :
       (certCA[c] # NoCA /\ certCA[c] = sessionsCA[k]) => KeyOf[c] = k

(* What storing a session CA does to the map.                              *)
LEMMA StoreKeepsCAInv ==
  ASSUME TypeOK, CAInv, SessionIsolation, NEW k \in Keys, StoreSessionCA(k)
  PROVE  /\ SessionCA(k) \in Nat \ {NoCA} /\ SessionCA(k) < nextCA'
         /\ nextCA <= nextCA' /\ nextCA' \in Nat
         /\ sessionsCA' = [sessionsCA EXCEPT ![k] = SessionCA(k)]
         /\ \A l \in Keys : sessionsCA[l] = SessionCA(k) => k = l
         /\ \A c \in Clients : certCA[c] = SessionCA(k) => KeyOf[c] = k
<1>1. CASE sessionsCA[k] = NoCA
  BY <1>1 DEF TypeOK, CAInv, StoreSessionCA, SessionCA, NoCA
<1>2. CASE sessionsCA[k] # NoCA
  BY <1>2 DEF TypeOK, CAInv, StoreSessionCA, SessionCA, NoCA
<1> QED
  BY <1>1, <1>2

(* Clients of two games never get certificates of one session CA, whatever *)
(* the order in which the CAs are created, removed and created again.      *)
THEOREM GamesIsolated == Spec => []SessionIsolation
<1>1. Init => CAInv /\ SessionIsolation
  BY DEF Init, CAInv, SessionIsolation, NoCA
<1>2. TypeInv /\ CAInv /\ SessionIsolation /\ [Next]_vars
        => CAInv' /\ SessionIsolation'
  <2> SUFFICES ASSUME TypeInv, CAInv, SessionIsolation, [Next]_vars
               PROVE  CAInv' /\ SessionIsolation'
    OBVIOUS
  <2> TypeOK /\ KeyOf \in [Clients -> Keys]
    BY ClientAssumption DEF TypeInv
  <2>1. CASE UNCHANGED caVars
    BY <2>1 DEF CAInv, SessionIsolation, caVars
  <2>2. ASSUME NEW c \in Clients, Register(c) PROVE CAInv' /\ SessionIsolation'
    <3>1. /\ StoreSessionCA(KeyOf[c])
          /\ certCA' = [certCA EXCEPT ![c] = SessionCA(KeyOf[c])]
      BY <2>2 DEF Register, NewCert
    <3> DEFINE k == KeyOf[c]
               ca == SessionCA(k)
    <3>0. /\ ca \in Nat \ {NoCA} /\ ca < nextCA'
          /\ nextCA <= nextCA' /\ nextCA' \in Nat
          /\ sessionsCA' = [sessionsCA EXCEPT ![k] = ca]
          /\ \A l \in Keys : sessionsCA[l] = ca => k = l
          /\ \A d \in Clients : certCA[d] = ca => KeyOf[d] = k
      BY <3>1, StoreKeepsCAInv
    <3> k \in Keys /\ certCA' = [certCA EXCEPT ![c] = ca]
      BY <3>1
    <3> HIDE DEF ca
    <3>2. CAInv'
      BY <3>0 DEF CAInv, TypeOK, NoCA
    <3>3. SessionIsolation'
      BY <3>0 DEF SessionIsolation, TypeOK, NoCA
    <3> QED
      BY <3>2, <3>3
  <2>3. ASSUME NEW c \in Clients, RejectRequest(c) PROVE CAInv' /\ SessionIsolation'
    <3>1. CASE UNCHANGED <<sessionsCA, nextCA>>
      BY <2>3, <3>1 DEF RejectRequest, CAInv, SessionIsolation
    <3>2. CASE StoreSessionCA(KeyOf[c])
      <4> DEFINE k == KeyOf[c]
                 ca == SessionCA(k)
      <4>1. /\ ca \in Nat \ {NoCA} /\ ca < nextCA'
            /\ nextCA <= nextCA' /\ nextCA' \in Nat
            /\ sessionsCA' = [sessionsCA EXCEPT ![k] = ca]
            /\ \A l \in Keys : sessionsCA[l] = ca => k = l
            /\ \A d \in Clients : certCA[d] = ca => KeyOf[d] = k
        BY <3>2, StoreKeepsCAInv
      <4> k \in Keys /\ certCA' = certCA
        BY <2>3 DEF RejectRequest
      <4> HIDE DEF ca
      <4> QED
        BY <4>1 DEF CAInv, SessionIsolation, TypeOK, NoCA
    <3> QED
      BY <2>3, <3>1, <3>2 DEF RejectRequest
  <2>4. ASSUME NEW h \in Hosters, HostGone(h) PROVE CAInv' /\ SessionIsolation'
    BY <2>4 DEF HostGone, CAInv, SessionIsolation, TypeOK, NoCA
  <2>5. CASE Close
    BY <2>5 DEF Close, CAInv, SessionIsolation, TypeOK, NoCA
  <2> QED
    BY <2>1, <2>2, <2>3, <2>4, <2>5, CAChange
<1> QED
  BY <1>1, <1>2, TypeInit, TypeStep, PTL DEF Spec

(* A registered host keeps the session CA of its key, so the joiners that  *)
(* come later are issued by the same CA.                                   *)
THEOREM HostKeepsCA == Spec => SessionCAStable
<1>1. TypeInv /\ [Next]_vars =>
        [\A h \in Hosters :
           LET k == KeyOf[h] IN
           (hosts[k] = h /\ hosts'[k] = h /\ sessionsCA[k] # NoCA)
             => sessionsCA'[k] = sessionsCA[k]]_vars
  <2> SUFFICES ASSUME TypeInv, [Next]_vars, NEW h \in Hosters,
                      hosts[KeyOf[h]] = h, hosts'[KeyOf[h]] = h,
                      sessionsCA[KeyOf[h]] # NoCA
               PROVE  sessionsCA'[KeyOf[h]] = sessionsCA[KeyOf[h]]
    OBVIOUS
  <2> USE ClientAssumption DEF TypeInv, TypeOK, Clients
  <2>1. CASE UNCHANGED caVars
    BY <2>1 DEF caVars
  <2>2. ASSUME NEW c \in Clients, Register(c) \/ RejectRequest(c)
        PROVE  sessionsCA'[KeyOf[h]] = sessionsCA[KeyOf[h]]
    BY <2>2 DEF Register, RejectRequest, RequestArrives, NewCert, StoreSessionCA, SessionCA
  <2>3. ASSUME NEW g \in Hosters, HostGone(g)
        PROVE  sessionsCA'[KeyOf[h]] = sessionsCA[KeyOf[h]]
    BY <2>3 DEF HostGone
  <2>4. CASE Close
    BY <2>4 DEF Close
  <2> QED
    BY <2>1, <2>2, <2>3, <2>4, CAChange
<1> QED
  BY <1>1, TypeInit, TypeStep, PTL DEF Spec, SessionCAStable
-----------------------------------------------------------------------------
(* The control streams.                                                    *)

(* A host's mutex is held by the joiner whose setup with it is running.    *)
LockInv ==
  \A h \in Hosters, p \in Joiners :
    mu[h] = p <=> (pc[p] \in {"p2p", "relay"} /\ target[p] = h)

(* Nothing travels on a stream that is gone.                               *)
DeadInv == \A c \in dead : reqs[c] = <<>> /\ resps[c] = <<>>

Quiet(c) == reqs[c] = <<>> /\ resps[c] = <<>>

(* One command or its answer travels on the stream of c, for joiner p; an  *)
(* answer that reports success follows the delivery of the connection.     *)
Carries(c, p) ==
  \/ /\ resps[c] = <<>>
     /\ \E m \in Commands : reqs[c] = <<m>> /\ m.from = p
  \/ /\ reqs[c] = <<>>
     /\ \E m \in Answers : /\ resps[c] = <<m>> /\ m.from = p
                           /\ m.status = "ok" => p \in Delivered(c)

(* A stream carries something only while its setup awaits the answer.      *)
HostStreamInv ==
  \A h \in Hosters :
    Quiet(h) \/ \E p \in Joiners : mu[h] = p /\ hostErr[p] = "pending" /\ Carries(h, p)

PeerStreamInv ==
  \A p \in Joiners :
    Quiet(p) \/ (pc[p] \in {"p2p", "relay"} /\ peerErr[p] = "pending" /\ Carries(p, p))

(* A success that was read was preceded by a delivery.                     *)
SuccessInv ==
  \A p \in Joiners :
    /\ \A h \in Hosters : (hostErr[p] = "ok" /\ target[p] = h) => p \in Delivered(h)
    /\ peerErr[p] = "ok" => p \in Delivered(p)
    /\ pc[p] \notin {"p2p", "relay"} => hostErr[p] = "pending" /\ peerErr[p] = "pending"

(* A session is counted when its setup is over, and was delivered.         *)
CountedInv ==
  \A p \in Joiners : via[p] # "none" =>
    /\ pc[p] = "closed" /\ target[p] \in Hosters
    /\ p \in Delivered(p)
    /\ \A h \in Hosters : target[p] = h => p \in Delivered(h)

SetupInv ==
  /\ LockInv
  /\ DeadInv
  /\ HostStreamInv
  /\ PeerStreamInv
  /\ SuccessInv
  /\ CountedInv

(* No setup is running in the initial state.                               *)
LEMMA SetupInit == Init => SetupInv
<1> SUFFICES ASSUME Init PROVE SetupInv
  OBVIOUS
<1> USE ClientAssumption DEF Clients, Init
<1>1. LockInv
  BY DEF LockInv
<1>2. DeadInv
  BY DEF DeadInv
<1>3. HostStreamInv /\ PeerStreamInv
  BY DEF HostStreamInv, PeerStreamInv, Quiet
<1>4. SuccessInv
  BY DEF SuccessInv
<1>5. CountedInv
  BY DEF CountedInv
<1> QED
  BY <1>1, <1>2, <1>3, <1>4, <1>5 DEF SetupInv

(* Steps that leave every setup alone.                                     *)
LEMMA SetupFrame ==
  ASSUME SetupInv,
         UNCHANGED <<dead, target, mu, reqs, resps, hostErr, peerErr, conns, accepted, via>>,
         \A p \in Joiners : /\ pc'[p] \in {"p2p", "relay"} <=> pc[p] \in {"p2p", "relay"}
                            /\ pc[p] = "closed" => pc'[p] = "closed"
  PROVE  SetupInv'
<1>1. \A c \in Clients : Delivered(c)' = Delivered(c)
  BY DEF Delivered
<1>2. LockInv' /\ DeadInv'
  BY DEF SetupInv, LockInv, DeadInv
<1>3. HostStreamInv'
  BY DEF SetupInv, HostStreamInv, Quiet, Carries, Delivered
<1>4. PeerStreamInv'
  BY DEF SetupInv, PeerStreamInv, Quiet, Carries, Delivered
<1>5. SuccessInv'
  BY DEF SetupInv, SuccessInv, Delivered
<1>6. CountedInv'
  BY DEF SetupInv, CountedInv, Delivered
<1> QED
  BY <1>2, <1>3, <1>4, <1>5, <1>6 DEF SetupInv

(* Connections move from the channel to the application and stay there.    *)
LEMMA AcceptKeepsDelivered ==
  ASSUME TypeOK, NEW c \in Clients, Accept(c), NEW d \in Clients
  PROVE  Delivered(d) \subseteq Delivered(d)'
<1>1. conns[c] \in Seq(Joiners) /\ Len(conns[c]) = 1
  <2>1. conns[c] \in Seq(Joiners) /\ conns[c] # <<>> /\ Len(conns[c]) <= 1
    BY DEF TypeOK, Accept, ConnsCap
  <2>2. Len(conns[c]) \in Nat \ {0}
    BY <2>1, EmptySeq
  <2>3. \A n \in Nat \ {0} : n <= 1 => n = 1
    OBVIOUS
  <2> QED
    BY <2>1, <2>2, <2>3
<1>2. DOMAIN conns[c] = {1} /\ Head(conns[c]) = conns[c][1]
  BY <1>1
<1>3. CASE d = c
  BY <1>2, <1>3 DEF TypeOK, Accept, Delivered
<1>4. CASE d # c
  BY <1>4 DEF TypeOK, Accept, Delivered
<1> QED
  BY <1>3, <1>4

(* Deliver hands the connection over and takes none away.                  *)
LEMMA DeliverDelivers ==
  ASSUME TypeOK, NEW c \in Clients, reqs[c] # <<>>, Deliver(c), UNCHANGED accepted
  PROVE  /\ \A d \in Clients : Delivered(d) \subseteq Delivered(d)'
         /\ Head(reqs[c]).from \in Delivered(c)'
<1>1. conns[c] = <<>>
  BY DEF TypeOK, Deliver, HasRoom, ConnsCap
<1>2. conns' = [conns EXCEPT ![c] = <<Head(reqs[c]).from>>]
  BY <1>1 DEF Deliver
<1>3. ASSUME NEW d \in Clients PROVE Delivered(d) \subseteq Delivered(d)'
  BY <1>1, <1>2, <1>3 DEF Delivered, TypeOK
<1>4. conns'[c] = <<Head(reqs[c]).from>>
  BY <1>2 DEF TypeOK
<1>5. 1 \in DOMAIN conns'[c] /\ conns'[c][1] = Head(reqs[c]).from
  BY <1>4
<1>6. Head(reqs[c]).from \in Delivered(c)'
  BY <1>5 DEF Delivered
<1> QED
  BY <1>3, <1>6

(* A stream that has a command to read carries that command only.          *)
LEMMA CommandRead ==
  ASSUME TypeOK, SetupInv, NEW c \in Clients, reqs[c] # <<>>
  PROVE  \E p \in Joiners :
           /\ Carries(c, p) /\ resps[c] = <<>> /\ Len(reqs[c]) = 1
           /\ Head(reqs[c]).from = p
           /\ \/ c \in Hosters /\ mu[c] = p /\ hostErr[p] = "pending"
              \/ c = p /\ pc[p] \in {"p2p", "relay"} /\ peerErr[p] = "pending"
<1>1. \E p \in Joiners :
        /\ Carries(c, p)
        /\ \/ c \in Hosters /\ mu[c] = p /\ hostErr[p] = "pending"
           \/ c = p /\ pc[p] \in {"p2p", "relay"} /\ peerErr[p] = "pending"
  BY DEF SetupInv, HostStreamInv, PeerStreamInv, Quiet, Clients
<1>2. PICK p \in Joiners :
        /\ Carries(c, p)
        /\ \/ c \in Hosters /\ mu[c] = p /\ hostErr[p] = "pending"
           \/ c = p /\ pc[p] \in {"p2p", "relay"} /\ peerErr[p] = "pending"
  BY <1>1
<1>3. PICK m \in Commands : reqs[c] = <<m>> /\ m.from = p /\ resps[c] = <<>>
  BY <1>2 DEF Carries
<1>4. Len(reqs[c]) = 1 /\ Head(reqs[c]) = m
  BY <1>3
<1> QED
  BY <1>2, <1>3, <1>4

(* The control agent answers what it was asked, after it has delivered.    *)
LEMMA AgentKeeps ==
  ASSUME TypeInv, SetupInv, NEW c \in Clients, c \notin dead, reqs[c] # <<>>,
         NEW status \in Status, Reply(c, status),
         \A d \in Clients : Delivered(d) \subseteq Delivered(d)',
         status = "ok" => Head(reqs[c]).from \in Delivered(c)',
         UNCHANGED <<pc, dead, target, mu, hostErr, peerErr, via>>
  PROVE  SetupInv'
<1> USE ClientAssumption DEF TypeInv
<1>1. PICK p \in Joiners :
        /\ Carries(c, p) /\ resps[c] = <<>> /\ Len(reqs[c]) = 1
        /\ Head(reqs[c]).from = p
        /\ \/ c \in Hosters /\ mu[c] = p /\ hostErr[p] = "pending"
           \/ c = p /\ pc[p] \in {"p2p", "relay"} /\ peerErr[p] = "pending"
  BY CommandRead
<1>2. Tail(reqs[c]) = <<>>
  <2>1. reqs[c] \in Seq(Commands)
    BY DEF TypeOK
  <2>2. Tail(reqs[c]) \in Seq(Commands) /\ Len(Tail(reqs[c])) = 0
    BY <1>1, <2>1, HeadTailProperties
  <2> QED
    BY <2>2, EmptySeq
<1> DEFINE m == [from |-> p, status |-> status]
<1>3. m \in Answers /\ m.from = p /\ m.status = status
  BY DEF Answers
<1>4. /\ reqs' = [reqs EXCEPT ![c] = <<>>]
      /\ resps' = [resps EXCEPT ![c] = <<m>>]
  <2>1. Append(resps[c], m) = <<m>>
    BY <1>1
  <2> QED
    BY <1>1, <1>2, <2>1 DEF Reply, TypeOK
<1> HIDE DEF m
<1>5. reqs'[c] = <<>> /\ resps'[c] = <<m>>
  BY <1>4 DEF TypeOK
<1>6. Carries(c, p)'
  BY <1>1, <1>3, <1>5 DEF Carries
<1>7. \A d \in Clients \ {c} : reqs'[d] = reqs[d] /\ resps'[d] = resps[d]
  BY <1>4 DEF TypeOK
<1>8. ASSUME NEW d \in Clients \ {c}
      PROVE  /\ Quiet(d) => Quiet(d)'
             /\ \A q \in Joiners : Carries(d, q) => Carries(d, q)'
  BY <1>7, <1>8 DEF Quiet, Carries
<1>9. LockInv' /\ DeadInv'
  BY <1>4 DEF SetupInv, LockInv, DeadInv, TypeOK
<1>10. HostStreamInv'
  BY <1>1, <1>6, <1>8 DEF SetupInv, HostStreamInv, Clients
<1>11. PeerStreamInv'
  BY <1>1, <1>6, <1>8 DEF SetupInv, PeerStreamInv, Clients
<1>12. SuccessInv' /\ CountedInv'
  BY DEF SetupInv, SuccessInv, CountedInv, Clients
<1> QED
  BY <1>9, <1>10, <1>11, <1>12 DEF SetupInv

(* The two streams of a setup both of whose answers were read are quiet.   *)
LEMMA AnsweredQuiet ==
  ASSUME TypeInv, SetupInv, NEW p \in Joiners, NEW h \in Hosters,
         pc[p] \in {"p2p", "relay"}, target[p] = h, BothAnswered(p)
  PROVE  Quiet(h) /\ Quiet(p)
<1>1. mu[h] = p
  BY DEF SetupInv, LockInv
<1> QED
  BY <1>1 DEF SetupInv, HostStreamInv, PeerStreamInv, BothAnswered

(* A command is written to two quiet streams.                              *)
LEMMA CommandKeeps ==
  ASSUME TypeInv, SetupInv, NEW p \in Joiners, NEW h \in Hosters, target[p] = h,
         Quiet(h), Quiet(p), NEW kind \in {"connect", "relay"}, CommandBoth(p, kind),
         mu' = [mu EXCEPT ![h] = p], mu[h] \in {p, NoOne}, via[p] = "none",
         pc' \in [Clients -> HandlerStates],
         \A d \in Clients \ {p} : pc'[d] = pc[d], pc'[p] \in {"p2p", "relay"},
         UNCHANGED <<dead, target, resps, conns, accepted, via>>
  PROVE  SetupInv'
<1> USE ClientAssumption DEF TypeInv
<1> DEFINE m == [from |-> p, kind |-> kind]
<1>1. m \in Commands /\ m.from = p
  BY DEF Commands
<1>2. Append(<<>>, m) = <<m>>
  OBVIOUS
<1>3. \A c \in {h, p} : reqs'[c] = IF Listens(c) THEN <<m>> ELSE <<>>
  <2> SUFFICES ASSUME NEW c \in {h, p}
               PROVE  reqs'[c] = IF Listens(c) THEN <<m>> ELSE <<>>
    OBVIOUS
  <2>1. c \in Clients /\ c \in {target[p], p} /\ reqs[c] = <<>>
    BY DEF Clients, Quiet
  <2>2. reqs'[c] = IF c \in {target[p], p} /\ Listens(c)
                   THEN Append(reqs[c], m) ELSE reqs[c]
    BY <2>1 DEF CommandBoth
  <2> QED
    BY <1>2, <2>1, <2>2
<1>4. \A d \in Clients \ {h, p} : reqs'[d] = reqs[d]
  BY DEF CommandBoth, TypeOK
<1> HIDE DEF m
<1>5. /\ hostErr'[p] = "pending" /\ peerErr'[p] \in {"pending", "error"}
      /\ Listens(p) => peerErr'[p] = "pending"
  BY DEF CommandBoth, TypeOK, Listens
<1>6. \A q \in Joiners \ {p} : hostErr'[q] = hostErr[q] /\ peerErr'[q] = peerErr[q]
  BY DEF CommandBoth, TypeOK
<1>7. \A c \in {h, p} : Quiet(c)' \/ (Listens(c) /\ Carries(c, p)')
  BY <1>1, <1>3 DEF Quiet, Carries
<1>8. \A d \in Clients : Delivered(d)' = Delivered(d)
  BY DEF Delivered
<1>9. ASSUME NEW d \in Clients \ {h, p}
      PROVE  /\ Quiet(d) => Quiet(d)'
             /\ \A q \in Joiners : Carries(d, q) => Carries(d, q)'
  BY <1>4, <1>8, <1>9 DEF Quiet, Carries
<1>10. mu'[h] = p /\ \A g \in Hosters \ {h} : mu'[g] = mu[g]
  BY DEF TypeOK
<1>11. LockInv'
  BY <1>10 DEF SetupInv, LockInv, Clients
<1>12. DeadInv'
  BY <1>3, <1>4 DEF SetupInv, DeadInv, TypeOK, Quiet, Clients, Listens
<1>13. HostStreamInv'
  <2> SUFFICES ASSUME NEW g \in Hosters
               PROVE  (Quiet(g) \/ \E q \in Joiners :
                        mu[g] = q /\ hostErr[q] = "pending" /\ Carries(g, q))'
    BY DEF HostStreamInv
  <2>1. CASE g = h
    BY <1>5, <1>7, <1>10, <2>1
  <2>2. CASE g # h
    <3>1. Quiet(g) \/ \E q \in Joiners :
            mu[g] = q /\ hostErr[q] = "pending" /\ Carries(g, q)
      BY DEF SetupInv, HostStreamInv
    <3>2. g \in Clients \ {h, p}
      BY <2>2 DEF Clients
    <3> QED
      BY <1>5, <1>6, <1>9, <1>10, <2>2, <3>1, <3>2
  <2> QED
    BY <2>1, <2>2
<1>14. PeerStreamInv'
  <2> SUFFICES ASSUME NEW q \in Joiners
               PROVE  (Quiet(q) \/ /\ pc[q] \in {"p2p", "relay"} /\ peerErr[q] = "pending"
                                   /\ Carries(q, q))'
    BY DEF PeerStreamInv
  <2>1. CASE q = p
    BY <1>5, <1>7, <2>1
  <2>2. CASE q # p
    <3>1. Quiet(q) \/ /\ pc[q] \in {"p2p", "relay"} /\ peerErr[q] = "pending"
                      /\ Carries(q, q)
      BY DEF SetupInv, PeerStreamInv
    <3>2. q \in Clients \ {h, p}
      BY <2>2 DEF Clients
    <3> QED
      BY <1>6, <1>9, <2>2, <3>1, <3>2
  <2> QED
    BY <2>1, <2>2
<1>15. SuccessInv'
  BY <1>5, <1>6, <1>8 DEF SetupInv, SuccessInv, Clients
<1>16. CountedInv'
  BY <1>8 DEF SetupInv, CountedInv, Clients
<1> QED
  BY <1>11, <1>12, <1>13, <1>14, <1>15, <1>16 DEF SetupInv

(* The end of a setup.                                                     *)
LEMMA FinishKeeps ==
  ASSUME TypeInv, SetupInv, NEW p \in Joiners, NEW h \in Hosters, target[p] = h,
         pc[p] \in {"p2p", "relay"}, BothAnswered(p), NEW errCode, Finish(p, errCode),
         \A q \in Joiners \ {p} : via'[q] = via[q],
         via'[p] # "none" => hostErr[p] = "ok" /\ peerErr[p] = "ok",
         UNCHANGED <<dead, target, reqs, resps, conns, accepted>>
  PROVE  SetupInv'
<1> USE ClientAssumption DEF TypeInv
<1>1. Quiet(h) /\ Quiet(p)
  BY AnsweredQuiet
<1>2. /\ mu'[h] = NoOne /\ \A g \in Hosters \ {h} : mu'[g] = mu[g]
      /\ hostErr'[p] = "pending" /\ peerErr'[p] = "pending" /\ pc'[p] = "closed"
      /\ \A q \in Joiners \ {p} :
           hostErr'[q] = hostErr[q] /\ peerErr'[q] = peerErr[q] /\ pc'[q] = pc[q]
  BY DEF Finish, Cancel, TypeOK, Clients
<1>3. \A d \in Clients : Delivered(d)' = Delivered(d)
  BY DEF Delivered
<1>4. \A d \in Clients : /\ Quiet(d)' <=> Quiet(d)
                         /\ \A q \in Joiners : Carries(d, q)' <=> Carries(d, q)
  BY <1>3 DEF Quiet, Carries
<1>5. LockInv'
  BY <1>2 DEF SetupInv, LockInv, Clients
<1>6. DeadInv'
  BY DEF SetupInv, DeadInv
<1>7. HostStreamInv'
  BY <1>1, <1>2, <1>4 DEF SetupInv, HostStreamInv, LockInv, Clients
<1>8. PeerStreamInv'
  BY <1>1, <1>2, <1>4 DEF SetupInv, PeerStreamInv, Clients
<1>9. SuccessInv'
  BY <1>2, <1>3 DEF SetupInv, SuccessInv, Clients
<1>10. CountedInv'
  BY <1>2, <1>3 DEF SetupInv, CountedInv, SuccessInv, Clients
<1> QED
  BY <1>5, <1>6, <1>7, <1>8, <1>9, <1>10 DEF SetupInv

(* A queue of one message.                                                 *)
LEMMA Singleton == ASSUME NEW m PROVE Head(<<m>>) = m /\ Tail(<<m>>) = <<>>
<1>1. <<m>> \in Seq({m}) /\ <<m>> # <<>> /\ Len(<<m>>) = 1
  OBVIOUS
<1>2. Tail(<<m>>) \in Seq({m}) /\ Len(Tail(<<m>>)) = 0 /\ Head(<<m>>) \in {m}
  BY <1>1, HeadTailProperties
<1> QED
  BY <1>2, EmptySeq

(* The server reads the host's answer, or finds its stream gone.           *)
LEMMA RecvHostKeeps ==
  ASSUME TypeInv, SetupInv, NEW p \in Joiners, RecvHost(p)
  PROVE  SetupInv'
<1> USE ClientAssumption DEF TypeInv
<1>1. PICK h \in Hosters : h = target[p] /\ pc[p] \in {"p2p", "relay"} /\ mu[h] = p
  BY DEF RecvHost, TargetInv, SetupInv, LockInv
<1>2. UNCHANGED <<pc, dead, reqs, conns, accepted, target, mu, peerErr, via>>
  BY DEF RecvHost
<1>3. \A d \in Clients : Delivered(d)' = Delivered(d)
  BY <1>2 DEF Delivered
<1>4. /\ Quiet(h)'
      /\ hostErr'[p] = "ok" => p \in Delivered(h)
      /\ \A d \in Clients \ {h} : resps'[d] = resps[d]
      /\ \A q \in Joiners \ {p} : hostErr'[q] = hostErr[q]
  <2>1. CASE /\ resps[h] # <<>>
             /\ hostErr' = [hostErr EXCEPT ![p] = Head(resps[h]).status]
             /\ resps' = [resps EXCEPT ![h] = Tail(@)]
    <3>1. Carries(h, p)
      BY <1>1, <2>1 DEF SetupInv, HostStreamInv, Quiet
    <3>2. PICK m \in Answers : /\ reqs[h] = <<>> /\ resps[h] = <<m>> /\ m.from = p
                               /\ m.status = "ok" => p \in Delivered(h)
      BY <2>1, <3>1 DEF Carries
    <3>3. Head(resps[h]) = m /\ Tail(resps[h]) = <<>>
      BY <3>2, Singleton
    <3>4. /\ hostErr'[p] = m.status /\ resps'[h] = <<>>
          /\ \A d \in Clients \ {h} : resps'[d] = resps[d]
          /\ \A q \in Joiners \ {p} : hostErr'[q] = hostErr[q]
      BY <1>1, <2>1, <3>3 DEF TypeOK, Clients
    <3>5. Quiet(h)'
      BY <1>2, <3>2, <3>4 DEF Quiet
    <3> QED
      BY <3>2, <3>4, <3>5
  <2>2. CASE h \in dead /\ hostErr' = [hostErr EXCEPT ![p] = "error"] /\ UNCHANGED resps
    BY <1>1, <1>2, <2>2 DEF SetupInv, DeadInv, Quiet, TypeOK
  <2> QED
    BY <1>1, <2>1, <2>2 DEF RecvHost, AnswerRead
<1>5. ASSUME NEW d \in Clients \ {h}
      PROVE  /\ Quiet(d) => Quiet(d)'
             /\ \A q \in Joiners : Carries(d, q) => Carries(d, q)'
  BY <1>2, <1>3, <1>4, <1>5 DEF Quiet, Carries
<1>6. LockInv'
  BY <1>2 DEF SetupInv, LockInv
<1>7. DeadInv'
  BY <1>2, <1>4 DEF SetupInv, DeadInv, Quiet, TypeOK
<1>8. HostStreamInv'
  <2> SUFFICES ASSUME NEW g \in Hosters
               PROVE  (Quiet(g) \/ \E q \in Joiners :
                        mu[g] = q /\ hostErr[q] = "pending" /\ Carries(g, q))'
    BY DEF HostStreamInv
  <2>1. CASE g = h
    BY <1>4, <2>1
  <2>2. CASE g # h
    <3>1. mu[g] # p
      BY <1>1, <2>2 DEF SetupInv, LockInv
    <3>2. Quiet(g) \/ \E q \in Joiners :
            mu[g] = q /\ hostErr[q] = "pending" /\ Carries(g, q)
      BY DEF SetupInv, HostStreamInv
    <3>3. g \in Clients \ {h}
      BY <2>2 DEF Clients
    <3> QED
      BY <1>2, <1>4, <1>5, <3>1, <3>2, <3>3
  <2> QED
    BY <2>1, <2>2
<1>9. PeerStreamInv'
  BY <1>1, <1>2, <1>5 DEF SetupInv, PeerStreamInv, Clients
<1>10. SuccessInv'
  <2> SUFFICES ASSUME NEW q \in Joiners
               PROVE  /\ \A g \in Hosters :
                           (hostErr'[q] = "ok" /\ target[q] = g) => q \in Delivered(g)
                      /\ peerErr[q] = "ok" => q \in Delivered(q)
                      /\ pc[q] \notin {"p2p", "relay"} =>
                           hostErr'[q] = "pending" /\ peerErr[q] = "pending"
    BY <1>2, <1>3 DEF SuccessInv, Clients
  <2>1. CASE q = p
    BY <1>1, <1>4, <2>1 DEF SetupInv, SuccessInv
  <2>2. CASE q # p
    BY <1>4, <2>2 DEF SetupInv, SuccessInv
  <2> QED
    BY <2>1, <2>2
<1>11. CountedInv'
  BY <1>2, <1>3 DEF SetupInv, CountedInv, Clients
<1> QED
  BY <1>6, <1>7, <1>8, <1>9, <1>10, <1>11 DEF SetupInv

(* The server reads the joiner's answer, or finds its stream gone.         *)
LEMMA RecvPeerKeeps ==
  ASSUME TypeInv, SetupInv, NEW p \in Joiners, RecvPeer(p)
  PROVE  SetupInv'
<1> USE ClientAssumption DEF TypeInv
<1>1. pc[p] \in {"p2p", "relay"} /\ p \in Clients
  BY DEF RecvPeer, Clients
<1>2. UNCHANGED <<pc, dead, reqs, conns, accepted, target, mu, hostErr, via>>
  BY DEF RecvPeer
<1>3. \A d \in Clients : Delivered(d)' = Delivered(d)
  BY <1>2 DEF Delivered
<1>4. /\ Quiet(p)'
      /\ peerErr'[p] = "ok" => p \in Delivered(p)
      /\ \A d \in Clients \ {p} : resps'[d] = resps[d]
      /\ \A q \in Joiners \ {p} : peerErr'[q] = peerErr[q]
  <2>1. CASE /\ resps[p] # <<>>
             /\ peerErr' = [peerErr EXCEPT ![p] = Head(resps[p]).status]
             /\ resps' = [resps EXCEPT ![p] = Tail(@)]
    <3>1. Carries(p, p)
      BY <2>1 DEF SetupInv, PeerStreamInv, Quiet
    <3>2. PICK m \in Answers : /\ reqs[p] = <<>> /\ resps[p] = <<m>> /\ m.from = p
                               /\ m.status = "ok" => p \in Delivered(p)
      BY <2>1, <3>1 DEF Carries
    <3>3. Head(resps[p]) = m /\ Tail(resps[p]) = <<>>
      BY <3>2, Singleton
    <3>4. /\ peerErr'[p] = m.status /\ resps'[p] = <<>>
          /\ \A d \in Clients \ {p} : resps'[d] = resps[d]
          /\ \A q \in Joiners \ {p} : peerErr'[q] = peerErr[q]
      BY <1>1, <2>1, <3>3 DEF TypeOK
    <3>5. Quiet(p)'
      BY <1>2, <3>2, <3>4 DEF Quiet
    <3> QED
      BY <3>2, <3>4, <3>5
  <2>2. CASE p \in dead /\ peerErr' = [peerErr EXCEPT ![p] = "error"] /\ UNCHANGED resps
    BY <1>1, <1>2, <2>2 DEF SetupInv, DeadInv, Quiet, TypeOK
  <2> QED
    BY <2>1, <2>2 DEF RecvPeer, AnswerRead
<1>5. ASSUME NEW d \in Clients \ {p}
      PROVE  /\ Quiet(d) => Quiet(d)'
             /\ \A q \in Joiners : Carries(d, q) => Carries(d, q)'
  BY <1>2, <1>3, <1>4, <1>5 DEF Quiet, Carries
<1>6. LockInv'
  BY <1>2 DEF SetupInv, LockInv
<1>7. DeadInv'
  BY <1>2, <1>4 DEF SetupInv, DeadInv, Quiet, TypeOK
<1>8. HostStreamInv'
  BY <1>2, <1>5 DEF SetupInv, HostStreamInv, Clients
<1>9. PeerStreamInv'
  BY <1>2, <1>4, <1>5 DEF SetupInv, PeerStreamInv, Clients
<1>10. SuccessInv'
  BY <1>1, <1>2, <1>3, <1>4 DEF SetupInv, SuccessInv, Clients
<1>11. CountedInv'
  BY <1>2, <1>3 DEF SetupInv, CountedInv, Clients
<1> QED
  BY <1>6, <1>7, <1>8, <1>9, <1>10, <1>11 DEF SetupInv

(* A stream is cut off with all that travels on it.                        *)
LEMMA DisconnectKeeps ==
  ASSUME TypeInv, SetupInv, NEW c \in Clients, Disconnect(c)
  PROVE  SetupInv'
<1> USE DEF TypeInv
<1>1. /\ dead' = dead \cup {c}
      /\ reqs'[c] = <<>> /\ resps'[c] = <<>>
      /\ \A d \in Clients \ {c} : reqs'[d] = reqs[d] /\ resps'[d] = resps[d]
      /\ UNCHANGED <<pc, conns, accepted, target, mu, hostErr, peerErr, via>>
  BY DEF Disconnect, TypeOK, setupVars
<1>2. \A d \in Clients : Delivered(d)' = Delivered(d)
  BY <1>1 DEF Delivered
<1>3. Quiet(c)'
  BY <1>1 DEF Quiet
<1>4. ASSUME NEW d \in Clients
      PROVE  /\ Quiet(d) => Quiet(d)'
             /\ \A q \in Joiners : Carries(d, q) => Quiet(d)' \/ Carries(d, q)'
  BY <1>1, <1>2, <1>3 DEF Quiet, Carries
<1>5. LockInv'
  BY <1>1 DEF SetupInv, LockInv
<1>6. DeadInv'
  BY <1>1 DEF SetupInv, DeadInv, TypeOK
<1>7. HostStreamInv'
  BY <1>1, <1>4 DEF SetupInv, HostStreamInv, Clients
<1>8. PeerStreamInv'
  BY <1>1, <1>4 DEF SetupInv, PeerStreamInv, Clients
<1>9. SuccessInv'
  BY <1>1, <1>2 DEF SetupInv, SuccessInv, Clients
<1>10. CountedInv'
  BY <1>1, <1>2 DEF SetupInv, CountedInv, Clients
<1> QED
  BY <1>5, <1>6, <1>7, <1>8, <1>9, <1>10 DEF SetupInv

(* A connection is accepted.                                               *)
LEMMA AcceptKeeps ==
  ASSUME TypeInv, SetupInv, NEW c \in Clients, Accept(c)
  PROVE  SetupInv'
<1>1. UNCHANGED <<pc, dead, reqs, resps, target, mu, hostErr, peerErr, via>>
  BY DEF Accept, setupVars
<1>2. \A d \in Clients : Delivered(d) \subseteq Delivered(d)'
  BY AcceptKeepsDelivered DEF TypeInv
<1>3. \A d \in Clients : /\ Quiet(d)' <=> Quiet(d)
                         /\ \A q \in Joiners : Carries(d, q) => Carries(d, q)'
  BY <1>1, <1>2 DEF Quiet, Carries
<1>4. LockInv' /\ DeadInv'
  BY <1>1 DEF SetupInv, LockInv, DeadInv
<1>5. HostStreamInv'
  BY <1>1, <1>3 DEF SetupInv, HostStreamInv, Clients
<1>6. PeerStreamInv'
  BY <1>1, <1>3 DEF SetupInv, PeerStreamInv, Clients
<1>7. SuccessInv'
  BY <1>1, <1>2 DEF SetupInv, SuccessInv, Clients
<1>8. CountedInv'
  BY <1>1, <1>2 DEF SetupInv, CountedInv, Clients
<1> QED
  BY <1>4, <1>5, <1>6, <1>7, <1>8 DEF SetupInv

(* A joiner that is matched with a host, or not, has no setup yet.         *)
LEMMA LookupKeeps ==
  ASSUME TypeInv, SetupInv, NEW p \in Joiners, LookupHost(p)
  PROVE  SetupInv'
<1> USE ClientAssumption DEF TypeInv
<1>1. /\ pc[p] = "certified" /\ pc'[p] \in {"waitLock", "closed"}
      /\ \A q \in Joiners \ {p} : pc'[q] = pc[q] /\ target'[q] = target[q]
  BY DEF LookupHost, Cancel, TypeOK, Clients
<1>2. UNCHANGED <<dead, reqs, resps, conns, accepted, mu, hostErr, peerErr, via>>
  BY DEF LookupHost, netVars
<1>3. \A d \in Clients : Delivered(d)' = Delivered(d)
  BY <1>2 DEF Delivered
<1>4. \A d \in Clients : /\ Quiet(d)' <=> Quiet(d)
                         /\ \A q \in Joiners : Carries(d, q)' <=> Carries(d, q)
  BY <1>2, <1>3 DEF Quiet, Carries
<1>5. LockInv'
  BY <1>1, <1>2 DEF SetupInv, LockInv
<1>6. DeadInv'
  BY <1>2 DEF SetupInv, DeadInv
<1>7. HostStreamInv'
  BY <1>2, <1>4 DEF SetupInv, HostStreamInv, Clients
<1>8. PeerStreamInv'
  BY <1>1, <1>2, <1>4 DEF SetupInv, PeerStreamInv, Clients
<1>9. SuccessInv'
  BY <1>1, <1>2, <1>3 DEF SetupInv, SuccessInv, Clients
<1>10. CountedInv'
  BY <1>1, <1>2, <1>3 DEF SetupInv, CountedInv, Clients
<1> QED
  BY <1>5, <1>6, <1>7, <1>8, <1>9, <1>10 DEF SetupInv

(* Every action keeps the invariant of the setups.                         *)
LEMMA SetupStep == TypeInv /\ SetupInv /\ [Next]_vars => SetupInv'
<1> SUFFICES ASSUME TypeInv, SetupInv, [Next]_vars PROVE SetupInv'
  OBVIOUS
<1> USE ClientAssumption DEF TypeInv
<1>1. ASSUME NEW c \in Clients, Register(c) \/ RejectRequest(c) PROVE SetupInv'
  <2>1. UNCHANGED <<dead, target, mu, reqs, resps, hostErr, peerErr, conns, accepted, via>>
    BY <1>1 DEF Register, RejectRequest, RequestArrives, NewCert, netVars, setupVars
  <2>2. \A p \in Joiners : /\ pc'[p] \in {"p2p", "relay"} <=> pc[p] \in {"p2p", "relay"}
                           /\ pc[p] = "closed" => pc'[p] = "closed"
    BY <1>1 DEF Register, RejectRequest, RequestArrives, NewCert, Cancel, TypeOK, Clients
  <2> QED
    BY <2>1, <2>2, SetupFrame
<1>2. ASSUME NEW c \in Clients, Disconnect(c) PROVE SetupInv'
  BY <1>2, DisconnectKeeps
<1>3. ASSUME NEW c \in Clients, Agent(c) PROVE SetupInv'
  <2>1. /\ c \notin dead /\ reqs[c] # <<>>
        /\ UNCHANGED <<pc, dead, accepted, target, mu, hostErr, peerErr, via>>
        /\ \/ Deliver(c)
           \/ \E status \in Status \ {"ok"} : Reply(c, status) /\ UNCHANGED conns
    BY <1>3 DEF Agent, AgentConnectTo, AgentConnectViaRelay, ReplyError, Status, setupVars
  <2>2. CASE Deliver(c)
    <3>1. Reply(c, "ok") /\ "ok" \in Status
      BY <2>2 DEF Deliver, Status
    <3>2. /\ \A d \in Clients : Delivered(d) \subseteq Delivered(d)'
          /\ Head(reqs[c]).from \in Delivered(c)'
      BY <2>1, <2>2, DeliverDelivers
    <3> QED
      BY <2>1, <3>1, <3>2, AgentKeeps
  <2>3. ASSUME NEW status \in Status \ {"ok"}, Reply(c, status), UNCHANGED conns
        PROVE  SetupInv'
    <3>1. \A d \in Clients : Delivered(d) \subseteq Delivered(d)'
      BY <2>1, <2>3 DEF Delivered
    <3>2. status \in Status /\ status # "ok"
      OBVIOUS
    <3> QED
      BY <2>1, <2>3, <3>1, <3>2, AgentKeeps
  <2> QED
    BY <2>1, <2>2, <2>3
<1>4. ASSUME NEW c \in Clients, Accept(c) PROVE SetupInv'
  BY <1>4, AcceptKeeps
<1>5. ASSUME NEW h \in Hosters, HostHandler(h) \/ HostGone(h) PROVE SetupInv'
  <2>1. UNCHANGED <<dead, target, mu, reqs, resps, hostErr, peerErr, conns, accepted, via>>
    BY <1>5 DEF HostHandler, RejectHost, RegisterHost, HostConnected, HostGone, netVars,
       setupVars
  <2>2. \A p \in Joiners : pc'[p] = pc[p]
    BY <1>5 DEF HostHandler, RejectHost, RegisterHost, HostConnected, HostGone, Cancel,
       TypeOK, Clients
  <2> QED
    BY <2>1, <2>2, SetupFrame
<1>6. ASSUME NEW p \in Joiners, JoinHandler(p) PROVE SetupInv'
  <2>1. CASE LookupHost(p)
    BY <2>1, LookupKeeps
  <2>2. CASE LockHost(p)
    <3>1. PICK h \in Hosters : h = target[p]
      BY <2>2 DEF LockHost, TargetInv
    <3>2. mu[h] = NoOne
      BY <2>2, <3>1 DEF LockHost, HostFree
    <3>3. Quiet(h) /\ Quiet(p)
      BY <2>2, <3>2 DEF SetupInv, HostStreamInv, PeerStreamInv, LockHost, Clients
    <3>4. via[p] = "none"
      BY <2>2 DEF SetupInv, CountedInv, LockHost
    <3>5. /\ CommandBoth(p, "connect")
          /\ mu' = [mu EXCEPT ![h] = p]
          /\ pc' \in [Clients -> HandlerStates]
          /\ \A d \in Clients \ {p} : pc'[d] = pc[d]
          /\ pc'[p] = "p2p"
          /\ UNCHANGED <<dead, target, resps, conns, accepted, via>>
      BY <2>2, <3>1 DEF LockHost, TypeOK, Clients, HandlerStates
    <3> QED
      BY <3>1, <3>2, <3>3, <3>4, <3>5, CommandKeeps
  <2>3. CASE RecvHost(p)
    BY <2>3, RecvHostKeeps
  <2>4. CASE RecvPeer(p)
    BY <2>4, RecvPeerKeeps
  <2>5. CASE FallBackToRelay(p)
    <3>1. PICK h \in Hosters : h = target[p]
      BY <2>5 DEF FallBackToRelay, TargetInv
    <3>2. mu[h] = p
      BY <2>5, <3>1 DEF FallBackToRelay, SetupInv, LockInv
    <3>3. Quiet(h) /\ Quiet(p)
      BY <2>5, <3>1, AnsweredQuiet DEF FallBackToRelay
    <3>4. via[p] = "none"
      BY <2>5 DEF SetupInv, CountedInv, FallBackToRelay
    <3>5. /\ CommandBoth(p, "relay")
          /\ mu' = [mu EXCEPT ![h] = p]
          /\ pc' \in [Clients -> HandlerStates]
          /\ \A d \in Clients \ {p} : pc'[d] = pc[d]
          /\ pc'[p] = "relay"
          /\ UNCHANGED <<dead, target, resps, conns, accepted, via>>
      BY <2>5, <3>1, <3>2 DEF FallBackToRelay, TypeOK, Clients, HandlerStates
    <3> QED
      BY <3>1, <3>2, <3>3, <3>4, <3>5, CommandKeeps
  <2>6. CASE P2PConnected(p) \/ RelayConnected(p) \/ SetupFailed(p)
    <3>1. PICK h \in Hosters : h = target[p]
      BY <2>6 DEF P2PConnected, RelayConnected, SetupFailed, TargetInv
    <3>2. /\ pc[p] \in {"p2p", "relay"} /\ BothAnswered(p)
          /\ Finish(p, "NoError") \/ Finish(p, "P2PFailed")
          /\ UNCHANGED <<dead, target, reqs, resps, conns, accepted>>
      BY <2>6 DEF P2PConnected, RelayConnected, SetupFailed, netVars
    <3>3. /\ \A q \in Joiners \ {p} : via'[q] = via[q]
          /\ via'[p] # "none" => hostErr[p] = "ok" /\ peerErr[p] = "ok"
      BY <2>6 DEF P2PConnected, RelayConnected, SetupFailed, P2PWorked, RelayWorked,
         TypeOK, SetupInv, CountedInv
    <3> QED
      BY <3>1, <3>2, <3>3, FinishKeeps
  <2> QED
    BY <1>6, <2>1, <2>2, <2>3, <2>4, <2>5, <2>6 DEF JoinHandler
<1>7. CASE Close \/ UNCHANGED vars
  <2>1. UNCHANGED <<pc, dead, target, mu, reqs, resps, hostErr, peerErr, conns, accepted, via>>
    BY <1>7 DEF Close, vars, netVars, setupVars
  <2> QED
    BY <2>1, SetupFrame
<1> QED
  BY <1>1, <1>2, <1>3, <1>4, <1>5, <1>6, <1>7 DEF Next

(* The invariants of the setups hold in every reachable state.             *)
LEMMA SetupInvariant == Spec => [](TypeInv /\ SetupInv)
  BY TypeInit, TypeStep, SetupInit, SetupStep, PTL DEF Spec

(* No setup ever reads the answer of another one, though a host's control  *)
(* stream carries no session number: the host's mutex is enough, whatever  *)
(* the number of joiners, crashes and failed attempts.                     *)
THEOREM HolderOwnsStream == Spec => []AnswersBelongToHolder
<1>1. TypeInv /\ SetupInv => AnswersBelongToHolder
  <2> SUFFICES ASSUME SetupInv, NEW h \in Hosters, NEW p \in InFlight(h)
               PROVE  p = mu[h]
    BY DEF AnswersBelongToHolder
  <2>1. ~Quiet(h)
    BY DEF InFlight, Quiet
  <2>2. PICK q \in Joiners : mu[h] = q /\ Carries(h, q)
    BY <2>1 DEF SetupInv, HostStreamInv
  <2>3. CASE resps[h] = <<>> /\ \E m \in Commands : reqs[h] = <<m>> /\ m.from = q
    BY <2>2, <2>3 DEF InFlight
  <2>4. CASE reqs[h] = <<>> /\ \E m \in Answers : resps[h] = <<m>> /\ m.from = q
    BY <2>2, <2>4 DEF InFlight
  <2> QED
    BY <2>2, <2>3, <2>4 DEF Carries
<1> QED
  BY <1>1, SetupInvariant, PTL

(* A session the server counts as connected has handed its connection to   *)
(* both ends.                                                              *)
THEOREM CountedDelivered == Spec => []CountedBothDelivered
<1>1. TypeInv /\ SetupInv => CountedBothDelivered
  BY DEF SetupInv, CountedInv, CountedBothDelivered
<1> QED
  BY <1>1, SetupInvariant, PTL
=============================================================================
