------------------------------ MODULE Registar ------------------------------
(***************************************************************************)
(* The control plane of the registar server (internal/registar/server.go,  *)
(* peer.go, ca.go), the control protocol it speaks with its clients        *)
(* (internal/registar/control) and the control agent of a client           *)
(* (internal/registar/client.go).                                          *)
(*                                                                         *)
(* A hoster opens a control stream with POST /host and is entered in the   *)
(* map of hosts; a joiner opens one with POST /join, is matched with the   *)
(* host of its key, and the server commands both ends to connect: directly *)
(* first, through the relay when an end reports that the direct attempt    *)
(* failed.  A client here is one control stream: a client that comes back  *)
(* is another element of Hosters or Joiners.                               *)
(***************************************************************************)
EXTENDS Naturals, Sequences, FiniteSets

CONSTANTS
  Keys,      \* game keys (auth.Key)
  Hosters,   \* control streams opened with POST /host
  Joiners,   \* control streams opened with POST /join
  KeyOf,     \* the key in the token of each client
  NoOne      \* nil: no agent, no lock holder

Clients == Hosters \cup Joiners

ASSUME ClientAssumption ==
  /\ Hosters \cap Joiners = {}
  /\ NoOne \notin Clients
  /\ KeyOf \in [Clients -> Keys]

(* A session CA is a number; 0 is the missing entry of Authority.sessionsCA. *)
NoCA == 0
(* Capacity of the client's channel of established connections.            *)
ConnsCap == 1

(* What an answer says: 200, 412, or 500 with the text of an error.  Only  *)
(* the 500 has a body, and its length is not announced.                    *)
Status   == {"ok", "connectFailed", "error", "shortError"}
Commands == [from : Joiners, kind : {"connect", "relay"}]
Answers  == [from : Joiners, status : Status]

HandlerStates ==
  {"new",         \* the request has not arrived
   "certified",   \* certificate issued, stream taken over
   "registered",  \* host entered in the map, HostConnected not yet called
   "serving",     \* host handler returned, control stream stays open
   "waitLock",    \* joiner found its host and waits for the host's mutex
   "p2p",         \* initP2P: both ends told to connect directly
   "relay",       \* initRelay: both ends told to connect via the relay
   "closed"}      \* handler returned, control stream cancelled

Codes == {"none", "BadRequest", "NoError", "HostAlreadyRegistered",
          "HostNotFound", "P2PFailed"}

VARIABLES
  pc,           \* state of each client's request handler in the server
  code,         \* error code a control stream was cancelled with
  dead,         \* clients whose connection is gone (str.Context() done)
  hosts,        \* Server.hosts
  afterFunc,    \* the clean-up a host's stream context will run
  sessionsCA,   \* Authority.sessionsCA
  nextCA,       \* source of fresh session CAs
  certCA,       \* CA that issued each client's certificate
  activeHosts,  \* Admin.activeHosts
  target,       \* host agent a joiner's handler holds a pointer to
  mu,           \* agent.mu of each host
  reqs,         \* commands written to a control stream, not yet read
  resps,        \* answers written to a control stream, not yet read
  hostErr,      \* hostErr of the running initP2P / initRelay
  peerErr,      \* peerErr of the running initP2P / initRelay
  conns,        \* the client's channel of established connections
  accepted,     \* sessions whose connection Accept or Join returned
  via,          \* how a session was counted: p2pConns or relayConns
  shut          \* Server.Close has run

netVars    == <<reqs, resps, conns, accepted>>
caVars     == <<sessionsCA, nextCA, certCA>>
hostVars   == <<hosts, afterFunc, activeHosts>>
setupVars  == <<target, mu, hostErr, peerErr, via>>
vars == <<pc, code, dead, shut, netVars, caVars, hostVars, setupVars>>

(* Every variable has its type, and a client holds no more unread          *)
(* connections than its channel has room for.                              *)
TypeOK ==
  /\ pc \in [Clients -> HandlerStates]
  /\ code \in [Clients -> Codes]
  /\ dead \subseteq Clients
  /\ hosts \in [Keys -> Hosters \cup {NoOne}]
  /\ afterFunc \in [Hosters -> {"unset", "armed", "ran"}]
  /\ sessionsCA \in [Keys -> Nat]
  /\ nextCA \in Nat \ {0}
  /\ certCA \in [Clients -> Nat]
  /\ activeHosts \in [Keys -> Hosters \cup {NoOne}]
  /\ target \in [Joiners -> Hosters \cup {NoOne}]
  /\ mu \in [Hosters -> Joiners \cup {NoOne}]
  /\ reqs \in [Clients -> Seq(Commands)]
  /\ resps \in [Clients -> Seq(Answers)]
  /\ hostErr \in [Joiners -> Status \cup {"pending"}]
  /\ peerErr \in [Joiners -> Status \cup {"pending"}]
  /\ conns \in [Clients -> Seq(Joiners)]
  /\ \A c \in Clients : Len(conns[c]) <= ConnsCap
  /\ accepted \in [Clients -> SUBSET Joiners]
  /\ via \in [Joiners -> {"none", "p2p", "relay"}]
  /\ shut \in BOOLEAN

Init ==
  /\ pc = [c \in Clients |-> "new"]
  /\ code = [c \in Clients |-> "none"]
  /\ dead = {}
  /\ hosts = [k \in Keys |-> NoOne]
  /\ afterFunc = [h \in Hosters |-> "unset"]
  /\ sessionsCA = [k \in Keys |-> NoCA]
  /\ nextCA = 1
  /\ certCA = [c \in Clients |-> NoCA]
  /\ activeHosts = [k \in Keys |-> NoOne]
  /\ target = [p \in Joiners |-> NoOne]
  /\ mu = [h \in Hosters |-> NoOne]
  /\ reqs = [c \in Clients |-> <<>>]
  /\ resps = [c \in Clients |-> <<>>]
  /\ hostErr = [p \in Joiners |-> "pending"]
  /\ peerErr = [p \in Joiners |-> "pending"]
  /\ conns = [c \in Clients |-> <<>>]
  /\ accepted = [c \in Clients |-> {}]
  /\ via = [p \in Joiners |-> "none"]
  /\ shut = FALSE
-----------------------------------------------------------------------------
(* POST /host and POST /join, up to the takeover of the stream.            *)

(* The client opens a stream and posts its CSR and its private address,    *)
(* and the server has not been closed.                                     *)
RequestArrives(c) == pc[c] = "new" /\ ~shut

(* Authority.NewSessionCert finds or creates the CA of the key ...         *)
SessionCA(k) == IF sessionsCA[k] = NoCA THEN nextCA ELSE sessionsCA[k]

(* ... and stores it before the CSR is checked.                            *)
StoreSessionCA(k) ==
  /\ sessionsCA' = [sessionsCA EXCEPT ![k] = SessionCA(k)]
  /\ nextCA' = IF sessionsCA[k] = NoCA THEN nextCA + 1 ELSE nextCA

(* The leaf certificate is signed by the session CA of the key.            *)
NewCert(c) == certCA' = [certCA EXCEPT ![c] = SessionCA(KeyOf[c])]

Cancel(c, errCode) ==
  /\ pc' = [pc EXCEPT ![c] = "closed"]
  /\ code' = [code EXCEPT ![c] = errCode]

(* The body does not decode (nothing has happened yet), or the CSR's       *)
(* signature is wrong (the session CA has been stored).                    *)
RejectRequest(c) ==
  /\ RequestArrives(c)
  /\ Cancel(c, "BadRequest")
  /\ \/ UNCHANGED <<sessionsCA, nextCA>>
     \/ StoreSessionCA(KeyOf[c])
  /\ UNCHANGED <<certCA, dead, shut, netVars, hostVars, setupVars>>

Register(c) ==
  /\ RequestArrives(c)
  /\ StoreSessionCA(KeyOf[c])
  /\ NewCert(c)
  /\ pc' = [pc EXCEPT ![c] = "certified"]
  /\ UNCHANGED <<code, dead, shut, netVars, hostVars, setupVars>>
-----------------------------------------------------------------------------
(* Hosts.                                                                  *)

(* Mutant: registerHost does not look for an entry.                        *)
HostRegisteredIgnored(k) == FALSE

HostRegistered(k) == hosts[k] # NoOne

(* Mutant: a rejected hoster takes the session CA of the key with it.      *)
RejectHostDropsCA(h) ==
  /\ pc[h] = "certified"
  /\ HostRegistered(KeyOf[h])
  /\ Cancel(h, "HostAlreadyRegistered")
  /\ sessionsCA' = [sessionsCA EXCEPT ![KeyOf[h]] = NoCA]
  /\ UNCHANGED <<dead, shut, nextCA, certCA, netVars, hostVars, setupVars>>

RejectHost(h) ==
  /\ pc[h] = "certified"
  /\ HostRegistered(KeyOf[h])
  /\ Cancel(h, "HostAlreadyRegistered")
  /\ UNCHANGED <<dead, shut, netVars, caVars, hostVars, setupVars>>

RegisterHost(h) ==
  /\ pc[h] = "certified"
  /\ ~HostRegistered(KeyOf[h])
  /\ hosts' = [hosts EXCEPT ![KeyOf[h]] = h]
  /\ afterFunc' = [afterFunc EXCEPT ![h] = "armed"]
  /\ pc' = [pc EXCEPT ![h] = "registered"]
  /\ UNCHANGED <<code, dead, shut, activeHosts, netVars, caVars, setupVars>>

(* The HostConnected callback runs after hostsMu is released.              *)
HostConnected(h) ==
  /\ pc[h] = "registered"
  /\ activeHosts' = [activeHosts EXCEPT ![KeyOf[h]] = h]
  /\ pc' = [pc EXCEPT ![h] = "serving"]
  /\ UNCHANGED <<code, dead, shut, hosts, afterFunc, netVars, caVars, setupVars>>

(* Mutant: the clean-up forgets the map of hosts.                          *)
HostGoneKeepsEntry(h) ==
  /\ h \in dead
  /\ afterFunc[h] = "armed"
  /\ afterFunc' = [afterFunc EXCEPT ![h] = "ran"]
  /\ sessionsCA' = [sessionsCA EXCEPT ![KeyOf[h]] = NoCA]
  /\ activeHosts' = [activeHosts EXCEPT ![KeyOf[h]] = NoOne]
  /\ UNCHANGED <<pc, code, dead, shut, hosts, nextCA, certCA, netVars, setupVars>>

(* context.AfterFunc of the host's stream: the entry of the key, its       *)
(* session CA and the admin page's entry go, whoever they belong to.       *)
HostGone(h) ==
  /\ h \in dead
  /\ afterFunc[h] = "armed"
  /\ afterFunc' = [afterFunc EXCEPT ![h] = "ran"]
  /\ hosts' = [hosts EXCEPT ![KeyOf[h]] = NoOne]
  /\ sessionsCA' = [sessionsCA EXCEPT ![KeyOf[h]] = NoCA]
  /\ activeHosts' = [activeHosts EXCEPT ![KeyOf[h]] = NoOne]
  /\ UNCHANGED <<pc, code, dead, shut, nextCA, certCA, netVars, setupVars>>
-----------------------------------------------------------------------------
(* connectPeer.                                                            *)

LookupHost(p) ==
  /\ pc[p] = "certified"
  /\ IF HostRegistered(KeyOf[p])
     THEN /\ target' = [target EXCEPT ![p] = hosts[KeyOf[p]]]
          /\ pc' = [pc EXCEPT ![p] = "waitLock"]
          /\ UNCHANGED code
     ELSE /\ Cancel(p, "HostNotFound")
          /\ UNCHANGED target
  /\ UNCHANGED <<dead, shut, netVars, caVars, hostVars, mu, hostErr, peerErr, via>>

(* Joiner.Join returns with the first connection: it has stopped reading   *)
(* its control stream, but keeps its own direction of it open.             *)
JoinReturned(c) == c \in Joiners /\ accepted[c] # {}

Listens(c) == c \notin dead /\ ~JoinReturned(c)

(* One goroutine per end writes the command, which a stream that nobody    *)
(* reads never answers; writing fails once the server has learned of it.   *)
CommandBoth(p, kind) ==
  /\ reqs' = [c \in Clients |->
                IF c \in {target[p], p} /\ Listens(c)
                THEN Append(reqs[c], [from |-> p, kind |-> kind])
                ELSE reqs[c]]
  /\ hostErr' = [hostErr EXCEPT ![p] = "pending"]
  /\ \/ peerErr' = [peerErr EXCEPT ![p] = "pending"]
     \/ JoinReturned(p) /\ peerErr' = [peerErr EXCEPT ![p] = "error"]

(* Mutant: connectPeer does not wait for the host's mutex.                 *)
HostFreeAlways(h) == TRUE

HostFree(h) == mu[h] = NoOne

LockHost(p) ==
  /\ pc[p] = "waitLock"
  /\ HostFree(target[p])
  /\ mu' = [mu EXCEPT ![target[p]] = p]
  /\ CommandBoth(p, "connect")
  /\ pc' = [pc EXCEPT ![p] = "p2p"]
  /\ UNCHANGED <<code, dead, shut, resps, conns, accepted, caVars, hostVars,
                 target, via>>

(* NewBadStatusCodeError reads the text of a 500 up to 256 bytes or the    *)
(* end of the stream: a shorter text is complete only when the stream ends.*)
ErrorUnread(c) == resps[c] # <<>> /\ Head(resps[c]).status = "shortError"

AnswerRead(c) == resps[c] # <<>> /\ ~ErrorUnread(c)

(* ConnectTo / ConnectViaRelay read one answer from the stream: the first  *)
(* one there, or an error once the stream is gone.                         *)
RecvHost(p) ==
  LET h == target[p] IN
  /\ pc[p] \in {"p2p", "relay"}
  /\ hostErr[p] = "pending"
  /\ \/ /\ AnswerRead(h)
        /\ hostErr' = [hostErr EXCEPT ![p] = Head(resps[h]).status]
        /\ resps' = [resps EXCEPT ![h] = Tail(@)]
     \/ /\ h \in dead
        /\ hostErr' = [hostErr EXCEPT ![p] = "error"]
        /\ UNCHANGED resps
  /\ UNCHANGED <<pc, code, dead, shut, reqs, conns, accepted, caVars, hostVars,
                 target, mu, peerErr, via>>

RecvPeer(p) ==
  /\ pc[p] \in {"p2p", "relay"}
  /\ peerErr[p] = "pending"
  /\ \/ /\ AnswerRead(p)
        /\ peerErr' = [peerErr EXCEPT ![p] = Head(resps[p]).status]
        /\ resps' = [resps EXCEPT ![p] = Tail(@)]
     \/ /\ p \in dead
        /\ peerErr' = [peerErr EXCEPT ![p] = "error"]
        /\ UNCHANGED resps
  /\ UNCHANGED <<pc, code, dead, shut, reqs, conns, accepted, caVars, hostVars,
                 target, mu, hostErr, via>>

(* wg.Wait(): both goroutines have stored their result.                    *)
BothAnswered(p) == hostErr[p] # "pending" /\ peerErr[p] # "pending"

(* Mutant: the mutex of the host stays locked.                             *)
FinishLocked(p, errCode) ==
  /\ hostErr' = [hostErr EXCEPT ![p] = "pending"]
  /\ peerErr' = [peerErr EXCEPT ![p] = "pending"]
  /\ Cancel(p, errCode)
  /\ UNCHANGED mu

(* The deferred calls of connectPeer: unlock the host, cancel the stream.  *)
(* The two results were locals of initP2P or initRelay.                    *)
Finish(p, errCode) ==
  /\ mu' = [mu EXCEPT ![target[p]] = NoOne]
  /\ hostErr' = [hostErr EXCEPT ![p] = "pending"]
  /\ peerErr' = [peerErr EXCEPT ![p] = "pending"]
  /\ Cancel(p, errCode)

(* Mutant: one end's success decides for both.                             *)
P2PWorkedEither(p) == "ok" \in {hostErr[p], peerErr[p]}

P2PWorked(p)  == hostErr[p] = "ok" /\ peerErr[p] = "ok"

(* initP2P returns ErrConnectFailed when both ends report it, and their    *)
(* two errors joined otherwise; errors.Is in connectPeer looks through the *)
(* join, so one end's report is enough.                                    *)
P2PFailed(p)  == "connectFailed" \in {hostErr[p], peerErr[p]}

P2PConnected(p) ==
  /\ pc[p] = "p2p"
  /\ BothAnswered(p)
  /\ P2PWorked(p)
  /\ via' = [via EXCEPT ![p] = "p2p"]
  /\ Finish(p, "NoError")
  /\ UNCHANGED <<dead, shut, netVars, caVars, hostVars, target>>

FallBackToRelay(p) ==
  /\ pc[p] = "p2p"
  /\ BothAnswered(p)
  /\ ~P2PWorked(p)
  /\ P2PFailed(p)
  /\ CommandBoth(p, "relay")
  /\ pc' = [pc EXCEPT ![p] = "relay"]
  /\ UNCHANGED <<code, dead, shut, resps, conns, accepted, caVars, hostVars,
                 target, mu, via>>

RelayWorked(p) == hostErr[p] = "ok" /\ peerErr[p] = "ok"

RelayConnected(p) ==
  /\ pc[p] = "relay"
  /\ BothAnswered(p)
  /\ RelayWorked(p)
  /\ via' = [via EXCEPT ![p] = "relay"]
  /\ Finish(p, "NoError")
  /\ UNCHANGED <<dead, shut, netVars, caVars, hostVars, target>>

SetupFailed(p) ==
  /\ BothAnswered(p)
  /\ \/ pc[p] = "p2p" /\ ~P2PWorked(p) /\ ~P2PFailed(p)
     \/ pc[p] = "relay" /\ ~RelayWorked(p)
  /\ Finish(p, "P2PFailed")
  /\ UNCHANGED <<dead, shut, netVars, caVars, hostVars, target, via>>
-----------------------------------------------------------------------------
(* The client's control agent: Agent.Serve reads one command at a time,    *)
(* runs its handler to the end and writes one answer.  A command that Join *)
(* leaves behind when it returns is answered if it had been read.          *)

Reply(c, status) ==
  /\ reqs' = [reqs EXCEPT ![c] = Tail(@)]
  /\ resps' = [resps EXCEPT ![c] =
                 Append(@, [from |-> Head(reqs[c]).from, status |-> status])]

(* Mutant: the channel of connections has no capacity.                     *)
HasRoomAlways(c) == TRUE

HasRoom(c) == Len(conns[c]) < ConnsCap

(* The handler fails: http.Error writes the error's text with a 500.       *)
ReplyError(c) == \E status \in {"error", "shortError"} : Reply(c, status)

(* The handler hands the connection over, waiting for room in the channel. *)
Deliver(c) ==
  /\ HasRoom(c)
  /\ conns' = [conns EXCEPT ![c] = Append(@, Head(reqs[c]).from)]
  /\ Reply(c, "ok")

(* An end trusts the CA that issued its own certificate and no other.      *)
MutualTLS(p) == certCA[p] = certCA[target[p]]

(* External: Connector.Connect finds the other end listening.              *)
Reachable(p) == {p, target[p]} \cap dead = {}

AgentConnectTo(c) ==
  /\ c \notin dead
  /\ reqs[c] # <<>>
  /\ Head(reqs[c]).kind = "connect"
  /\ \/ /\ MutualTLS(Head(reqs[c]).from)
        /\ Reachable(Head(reqs[c]).from)
        /\ Deliver(c)
     \/ /\ Reply(c, "connectFailed") \/ ReplyError(c)
        /\ UNCHANGED conns
  /\ UNCHANGED <<pc, code, dead, shut, accepted, caVars, hostVars, setupVars>>

AgentConnectViaRelay(c) ==
  /\ c \notin dead
  /\ reqs[c] # <<>>
  /\ Head(reqs[c]).kind = "relay"
  /\ \/ Deliver(c)
     \/ ReplyError(c) /\ UNCHANGED conns
  /\ UNCHANGED <<pc, code, dead, shut, accepted, caVars, hostVars, setupVars>>

(* Hoster.Accept in its loop, Joiner.Join once.                            *)
Accept(c) ==
  /\ ~JoinReturned(c)
  /\ conns[c] # <<>>
  /\ accepted' = [accepted EXCEPT ![c] = @ \cup {Head(conns[c])}]
  /\ conns' = [conns EXCEPT ![c] = Tail(@)]
  /\ UNCHANGED <<pc, code, dead, shut, reqs, resps, caVars, hostVars, setupVars>>
-----------------------------------------------------------------------------
(* The environment.                                                        *)

(* A client closes, crashes or is cut off: its stream ends on both sides   *)
(* and what was in flight on it is lost.                                   *)
Disconnect(c) ==
  /\ c \notin dead
  /\ pc[c] \notin {"new", "closed"}
  /\ dead' = dead \cup {c}
  /\ reqs' = [reqs EXCEPT ![c] = <<>>]
  /\ resps' = [resps EXCEPT ![c] = <<>>]
  /\ UNCHANGED <<pc, code, shut, conns, accepted, caVars, hostVars, setupVars>>

(* Server.Close forgets every host and its CA, without the callbacks; the  *)
(* connections then end one by one, as Disconnect steps.                   *)
Close ==
  /\ ~shut
  /\ shut' = TRUE
  /\ hosts' = [k \in Keys |-> NoOne]
  /\ sessionsCA' = [k \in Keys |-> IF HostRegistered(k) THEN NoCA ELSE sessionsCA[k]]
  /\ UNCHANGED <<pc, code, dead, afterFunc, activeHosts, nextCA, certCA, netVars,
                 setupVars>>
-----------------------------------------------------------------------------
HostHandler(h) == RejectHost(h) \/ RegisterHost(h) \/ HostConnected(h)

JoinHandler(p) ==
  \/ LookupHost(p) \/ LockHost(p) \/ RecvHost(p) \/ RecvPeer(p)
  \/ P2PConnected(p) \/ FallBackToRelay(p) \/ RelayConnected(p) \/ SetupFailed(p)

Agent(c) == AgentConnectTo(c) \/ AgentConnectViaRelay(c)

Next ==
  \/ \E c \in Clients : \/ Register(c) \/ RejectRequest(c) \/ Disconnect(c)
                        \/ Agent(c) \/ Accept(c)
  \/ \E h \in Hosters : HostHandler(h) \/ HostGone(h)
  \/ \E p \in Joiners : JoinHandler(p)
  \/ Close

Spec == Init /\ [][Next]_vars

(* Handlers and AfterFuncs are goroutines the runtime schedules; an agent  *)
(* answers because Connect is bounded by the handshake timeout; the        *)
(* application keeps calling Accept.  Arrivals, failures and shutdown are  *)
(* not fair.                                                               *)
Goroutines ==
  \/ \E h \in Hosters : HostHandler(h) \/ HostGone(h)
  \/ \E p \in Joiners : JoinHandler(p)
  \/ \E c \in Clients : \/ ~JoinReturned(c) /\ Agent(c)
                        \/ c \notin dead /\ Accept(c)

(* One of the goroutines that can go on does.  As each client registers    *)
(* once, behaviours have finitely many steps and every goroutine gets its  *)
(* turn.                                                                   *)
Fairness == WF_vars(Goroutines)

FairSpec == Spec /\ Fairness
-----------------------------------------------------------------------------
(* Properties.                                                             *)

InFlight(c) == {reqs[c][i].from : i \in DOMAIN reqs[c]}
                 \cup {resps[c][i].from : i \in DOMAIN resps[c]}

(* Whatever travels on a host's control stream, command or answer, belongs *)
(* to the joiner whose handler holds the host's mutex: two setups never    *)
(* read each other's answers, though the stream carries no session number. *)
AnswersBelongToHolder ==
  \A h \in Hosters : \A p \in InFlight(h) : p = mu[h]

Delivered(c) == accepted[c] \cup {conns[c][i] : i \in DOMAIN conns[c]}

(* A session the server counts as connected (p2pConns, relayConns, the     *)
(* PeerConnected callback) has handed a connection to both of its ends.    *)
CountedBothDelivered ==
  \A p \in Joiners :
    via[p] # "none" => p \in Delivered(p) /\ p \in Delivered(target[p])

(* "Both must fail with ErrConnectFailed for P2P to be considered failed"  *)
(* (initP2P): one session hands at most one connection to each client, as  *)
(* no direct connection of an end is followed by a relayed one.            *)
OneConnPerSession ==
  \A c \in Clients, p \in Joiners :
    /\ Cardinality({i \in DOMAIN conns[c] : conns[c][i] = p}) <= 1
    /\ p \in accepted[c] => \A i \in DOMAIN conns[c] : conns[c][i] # p

(* Until the server closes, a host whose clean-up is pending owns the      *)
(* entry of its key, so the unconditional delete in the AfterFunc of       *)
(* registerHost removes that host and no other.                            *)
OwnEntry ==
  ~shut => \A h \in Hosters : afterFunc[h] = "armed" => hosts[KeyOf[h]] = h

(* As long as a host stays registered the session CA of its key stays too: *)
(* clean-ups of earlier hosts, rejected hosters and failed joins of the    *)
(* same key do not part it from the joiners that are still to come.        *)
SessionCAStable ==
  [][\A h \in Hosters :
       LET k == KeyOf[h] IN
       (hosts[k] = h /\ hosts'[k] = h /\ sessionsCA[k] # NoCA)
         => sessionsCA'[k] = sessionsCA[k]]_vars

(* Clients of different keys never hold certificates of one session CA.    *)
SessionIsolation ==
  \A c, d \in Clients :
    (certCA[c] # NoCA /\ certCA[c] = certCA[d]) => KeyOf[c] = KeyOf[d]

(* The server awaits an answer of a joiner that has its connection.        *)
AnswerOverdue(q) ==
  q \notin dead /\ JoinReturned(q) /\ pc[q] = "relay" /\ peerErr[q] = "pending"

(* The handler of q has the mutex of its host and waits for what may never *)
(* come: the answer of a joiner whose Join has returned, or the rest of a  *)
(* short error text on the stream of an end that stays connected.          *)
Stalled(q) ==
  /\ pc[q] \in {"p2p", "relay"}
  /\ AnswerOverdue(q) \/ ErrorUnread(q) \/ ErrorUnread(target[q])

(* A joiner that found its host gets a verdict: the mutex of the host is   *)
(* handed on, and no answer is awaited from a stream that is gone.  Two    *)
(* things can keep the mutex, and only as long as the client in question   *)
(* stays connected: a joiner of the host told to use the relay after its   *)
(* Join had returned, and an end of a setup of the host that answered 500  *)
(* with a text of less than 256 bytes.                                     *)
JoinTerminates ==
  \A p \in Joiners :
    (pc[p] \in {"waitLock", "p2p", "relay"}) ~>
      (pc[p] = "closed" \/ \E q \in Joiners : target[q] = target[p] /\ Stalled(q))

(* A host whose stream is gone does not stay in the map of hosts.          *)
HostForgotten ==
  \A h \in Hosters : (h \in dead) ~> (hosts[KeyOf[h]] # h)

(* "issues leaf certificates for both clients, so they can authenticate    *)
(* each other" (README): the two ends told to connect share an issuer.     *)
EndsAuthenticate ==
  \A p \in Joiners : pc[p] = "p2p" => MutualTLS(p)
=============================================================================
