------------------------------ MODULE Discovery ------------------------------
(***************************************************************************)
(* Discovery of the public address (internal/discovery/discovery.go).      *)
(* Bind sends a request with a fresh transaction ID, waits a second for    *)
(* the answer and sends the same request again.  The server answers every  *)
(* request with the address it came from, so a request that was sent twice *)
(* has two answers.  UDP loses, delays and reorders both, and the NAT in   *)
(* front of a client may give it another address at any time.              *)
(*                                                                         *)
(* Datagrams that are no answer to this call (from another address,        *)
(* undecodable, or of another transaction) are read and ignored.           *)
(***************************************************************************)
EXTENDS Naturals

CONSTANTS
  Clients,     \* sockets on which Bind is called
  Publics,     \* public addresses the NAT may give to a socket
  NoPublic,    \* no address
  MaxCalls     \* bound: calls of Bind on a socket, one after the other

ASSUME DiscoveryAssumption == NoPublic \notin Publics /\ MaxCalls \in Nat

VARIABLES
  calls,       \* calls of Bind so far; with the client, the transaction ID
  bind,        \* where Bind is
  ctxEnded,    \* the context of the call is done
  deadline,    \* sockets whose read deadline is set
  answer,      \* what the last call returned
  public,      \* the address the NAT uses for each socket now
  sentFrom,    \* ghost: addresses this call's requests were sent from
  wire,        \* datagrams on their way, or arrived in a socket's buffer
  serve,       \* where Server.Serve is
  serverDone   \* Server.done is closed

clientVars == <<calls, bind, ctxEnded, deadline, answer, sentFrom>>
discoveryVars == <<clientVars, public, wire, serve, serverDone>>

DiscoveryInit ==
  /\ calls = [c \in Clients |-> 0]
  /\ bind = [c \in Clients |-> "idle"]
  /\ ctxEnded = {}
  /\ deadline = {}
  /\ answer = [c \in Clients |-> NoPublic]
  /\ public \in [Clients -> Publics]
  /\ sentFrom = [c \in Clients |-> {}]
  /\ wire = {}
  /\ serve = "serving"
  /\ serverDone = FALSE
-----------------------------------------------------------------------------
(* Bind.                                                                   *)

request(c) == [kind |-> "request", client |-> c, tx |-> calls[c], addr |-> public[c]]

(* NewRequest draws a new transaction ID.                                  *)
BindCall(c) ==
  /\ bind[c] = "idle"
  /\ calls[c] < MaxCalls
  /\ calls' = [calls EXCEPT ![c] = @ + 1]
  /\ bind' = [bind EXCEPT ![c] = "send"]
  /\ answer' = [answer EXCEPT ![c] = NoPublic]
  /\ sentFrom' = [sentFrom EXCEPT ![c] = {}]
  /\ ctxEnded' = ctxEnded \ {c}
  /\ UNCHANGED <<deadline, public, wire, serve, serverDone>>

(* Mutant: the request is not sent again.                                  *)
SendRequestOnce(c) ==
  /\ bind[c] = "send"
  /\ c \notin ctxEnded
  /\ wire' = wire \cup {request(c)}
  /\ sentFrom' = [sentFrom EXCEPT ![c] = @ \cup {public[c]}]
  /\ deadline' = deadline \cup {c}
  /\ bind' = [bind EXCEPT ![c] = "read"]
  /\ UNCHANGED <<calls, ctxEnded, answer, public, serve, serverDone>>

(* The top of the loop, at first and whenever the read fails with          *)
(* ErrDeadlineExceeded.                                                    *)
SendRequest(c) ==
  /\ bind[c] # "idle"
  /\ c \notin ctxEnded
  /\ wire' = wire \cup {request(c)}
  /\ sentFrom' = [sentFrom EXCEPT ![c] = @ \cup {public[c]}]
  /\ deadline' = deadline \cup {c}
  /\ bind' = [bind EXCEPT ![c] = "read"]
  /\ UNCHANGED <<calls, ctxEnded, answer, public, serve, serverDone>>

(* Only there the context is looked at; the deadline of the round before   *)
(* stays set.                                                              *)
GiveUpBind(c) ==
  /\ bind[c] # "idle"
  /\ c \in ctxEnded
  /\ bind' = [bind EXCEPT ![c] = "idle"]
  /\ UNCHANGED <<calls, ctxEnded, deadline, answer, public, sentFrom, wire, serve,
                 serverDone>>

(* Mutant: any answer of the server is taken for the answer to this call.  *)
answersAny(c, m) == m.kind = "response" /\ m.client = c

answers(c, m) == m.kind = "response" /\ m.client = c /\ m.tx = calls[c]

ReadAnswer(c) ==
  /\ bind[c] = "read"
  /\ \E m \in wire :
       /\ answers(c, m)
       /\ answer' = [answer EXCEPT ![c] = m.addr]
       /\ wire' = wire \ {m}
  /\ deadline' = deadline \ {c}
  /\ bind' = [bind EXCEPT ![c] = "idle"]
  /\ UNCHANGED <<calls, ctxEnded, public, sentFrom, serve, serverDone>>

(* Writing fails, with the deadline as it is, or reading fails for another *)
(* reason than the deadline, which is then cleared.                        *)
BindFails(c) ==
  /\ \/ bind[c] # "idle" /\ c \notin ctxEnded /\ UNCHANGED deadline
     \/ bind[c] = "read" /\ deadline' = deadline \ {c}
  /\ bind' = [bind EXCEPT ![c] = "idle"]
  /\ UNCHANGED <<calls, ctxEnded, answer, public, sentFrom, wire, serve, serverDone>>

CancelBind(c) ==
  /\ bind[c] # "idle"
  /\ c \notin ctxEnded
  /\ ctxEnded' = ctxEnded \cup {c}
  /\ UNCHANGED <<calls, bind, deadline, answer, public, sentFrom, wire, serve,
                 serverDone>>
-----------------------------------------------------------------------------
(* Server.Serve, which looks at done every 100 ms and after each request.  *)

(* The answer goes back to where the request came from; a failed write     *)
(* ends Serve.                                                             *)
AnswerRequest(c) ==
  /\ serve = "serving"
  /\ \E m \in wire :
       /\ m.kind = "request" /\ m.client = c
       /\ \/ /\ wire' = (wire \ {m}) \cup {[m EXCEPT !.kind = "response"]}
             /\ UNCHANGED serve
          \/ /\ wire' = wire \ {m}
             /\ serve' = "returned"
  /\ UNCHANGED <<clientVars, public, serverDone>>

(* Mutant: without the read deadline done is seen after a request only.    *)
SeeDoneLate ==
  /\ serve = "serving" /\ serverDone
  /\ \E m \in wire : m.kind = "request"
  /\ serve' = "returned"
  /\ UNCHANGED <<clientVars, public, wire, serverDone>>

SeeDone ==
  /\ serve = "serving" /\ serverDone
  /\ serve' = "returned"
  /\ UNCHANGED <<clientVars, public, wire, serverDone>>

(* Reading fails for another reason than the deadline.                     *)
ServeFails ==
  /\ serve = "serving"
  /\ serve' = "returned"
  /\ UNCHANGED <<clientVars, public, wire, serverDone>>

CloseServer ==
  /\ ~serverDone
  /\ serverDone' = TRUE
  /\ UNCHANGED <<clientVars, public, wire, serve>>
-----------------------------------------------------------------------------
(* The network.                                                            *)

Lose(m) ==
  /\ m \in wire
  /\ wire' = wire \ {m}
  /\ UNCHANGED <<clientVars, public, serve, serverDone>>

Rebind(c, a) ==
  /\ public[c] # a
  /\ public' = [public EXCEPT ![c] = a]
  /\ UNCHANGED <<clientVars, wire, serve, serverDone>>

DiscoveryNext ==
  \/ \E c \in Clients :
       \/ BindCall(c) \/ SendRequest(c) \/ GiveUpBind(c) \/ ReadAnswer(c)
       \/ BindFails(c) \/ CancelBind(c) \/ AnswerRequest(c)
       \/ \E a \in Publics : Rebind(c, a)
  \/ SeeDone \/ ServeFails \/ CloseServer
  \/ \E m \in wire : Lose(m)

DiscoverySpec == DiscoveryInit /\ [][DiscoveryNext]_discoveryVars

(* Bind and Serve go on.  The network may lose any datagram, but of those  *)
(* that are sent again and again some arrive.                              *)
DiscoveryFairness ==
  /\ WF_discoveryVars(SeeDone)
  /\ \A c \in Clients : /\ WF_discoveryVars(SendRequest(c) \/ GiveUpBind(c))
                        /\ SF_discoveryVars(ReadAnswer(c))
                        /\ SF_discoveryVars(AnswerRequest(c))
-----------------------------------------------------------------------------
(* Bind returns an address that the client had while this very call was    *)
(* sending: an answer to an earlier call that comes late, after the NAT    *)
(* has changed its mind, is not taken for the answer to this one.  The     *)
(* socket is given back without a deadline, also after a call before that  *)
(* was cancelled and left one.                                             *)
AnswerOfThisCall ==
  \A c \in Clients :
    answer[c] # NoPublic => answer[c] \in sentFrom[c] /\ c \notin deadline

(* A call of Bind returns although datagrams are lost, unless the server   *)
(* has ended.                                                              *)
BindReturns ==
  \A c \in Clients : (bind[c] # "idle") ~> (bind[c] = "idle" \/ serve = "returned")

(* After Close, Serve returns whether or not requests come.                *)
CloseStopsServer == serverDone ~> (serve = "returned")
=============================================================================
