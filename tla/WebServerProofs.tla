--------------------------- MODULE WebServerProofs --------------------------
(***************************************************************************)
(* Theorems of WebServer and of the Forwarder it runs, for any requests    *)
(* and any number of sessions and connections: the types, and that a       *)
(* session that runs can be stopped by exactly one party.                  *)
(***************************************************************************)
EXTENDS WebServer, FiniteSetTheorems, TLAPS

(* The types of the forwarder, variable by variable.                       *)
FwdTypes ==
  /\ kind \in [Sessions -> {"none", "host", "peer"}]
  /\ ctxDone \subseteq Sessions
  /\ accepting \in [Sessions -> {"none", "accept", "accepted", "link", "rejoin", "returned"}]
  /\ queue \in [Sessions -> 0 .. MaxConns]
  /\ arrived \in [Sessions -> 0 .. MaxConns]
  /\ linked \in [Sessions -> SUBSET Conns]
  /\ live \in [Sessions -> [Conns -> SUBSET Both]]
  /\ cause \in [Sessions -> {"none", "idle", "transport", "other"}]
  /\ lisDone \subseteq Sessions
  /\ stuck \subseteq Sessions
  /\ closed \subseteq Sessions
  /\ closer \in [Sessions -> {"none", "watch", "cancelled", "closing", "returned"}]

(* No more connections are accepted than arrived, nothing is linked before *)
(* the session is started, and a peer has a link, and then one, only while *)
(* AcceptAndLink waits for it.                                             *)
LinkInv(s) ==
  /\ queue[s] <= arrived[s]
  /\ accepting[s] = "accepted" => queue[s] < arrived[s]
  /\ accepting[s] \in {"link", "rejoin"} => kind[s] = "peer"
  /\ kind[s] = "none" => linked[s] = {}
  /\ kind[s] = "peer" /\ accepting[s] # "link" => linked[s] = {}
  /\ kind[s] = "peer" => \E c \in Conns \cup {0} : linked[s] \subseteq {c}

FwdInv == FwdTypes /\ \A s \in Sessions : LinkInv(s)

LEMMA FwdInvTypes == FwdInv => ForwarderTypeOK
<1> SUFFICES ASSUME FwdInv PROVE ForwarderTypeOK
  OBVIOUS
<1>1. ASSUME NEW s \in Sessions
      PROVE  /\ kind[s] = "peer" => Cardinality(linked[s]) <= 1
             /\ accepting[s] \in {"link", "rejoin"} => kind[s] = "peer"
  <2>1. LinkInv(s)
    BY DEF FwdInv
  <2>2. ASSUME kind[s] = "peer" PROVE Cardinality(linked[s]) <= 1
    <3>1. PICK c \in Conns \cup {0} : linked[s] \subseteq {c}
      BY <2>1, <2>2 DEF LinkInv
    <3>2. linked[s] = {} \/ linked[s] = {c}
      BY <3>1
    <3>3. Cardinality({}) = 0 /\ Cardinality({c}) = 1
      BY FS_EmptySet, FS_Singleton
    <3> QED
      BY <3>2, <3>3
  <2> QED
    BY <2>1, <2>2 DEF LinkInv
<1> QED
  BY <1>1 DEF FwdInv, FwdTypes, ForwarderTypeOK

(* The other sessions are left alone by a step of one of them.             *)
LEMMA OtherSession ==
  ASSUME FwdInv, NEW s \in Sessions, NEW q \in Sessions, q # s,
         queue'[q] = queue[q], arrived'[q] = arrived[q],
         accepting'[q] = accepting[q], kind'[q] = kind[q], linked'[q] = linked[q]
  PROVE  LinkInv(q)'
  BY DEF FwdInv, LinkInv

LEMMA StartKeepsFwd ==
  ASSUME FwdInv, NEW s \in Sessions, NEW k \in {"host", "peer"}, kind[s] = "none",
         StartForwarder(s, k)
  PROVE  FwdInv'
<1>1. FwdTypes'
  BY DEF FwdInv, FwdTypes, StartForwarder
<1>2. ASSUME NEW q \in Sessions PROVE LinkInv(q)'
  <2>1. CASE q # s
    BY <2>1, OtherSession DEF StartForwarder, FwdInv, FwdTypes
  <2>2. CASE q = s
    <3>1. /\ kind'[q] = k /\ accepting'[q] = "accept" /\ linked'[q] = {}
          /\ UNCHANGED <<queue, arrived>> /\ LinkInv(q)
      BY <2>2 DEF StartForwarder, FwdInv, FwdTypes, LinkInv
    <3>2. 0 \in Conns \cup {0} /\ {} \subseteq {0}
      OBVIOUS
    <3> QED
      BY <3>1, <3>2 DEF LinkInv
  <2> QED
    BY <2>1, <2>2
<1> QED
  BY <1>1, <1>2 DEF FwdInv

(* Steps of the forwarder that touch neither connections nor links.        *)
LEMMA QuietKeepsFwd ==
  ASSUME FwdInv, NEW s \in Sessions,
         \/ Cancel(s) \/ HostClose(s) \/ PeerClose(s) \/ AfterFunc(s)
         \/ HostReturns(s) \/ PeerReturns(s) \/ Rejoin(s) \/ RejoinFails(s)
  PROVE  FwdInv'
<1> USE DEF FwdInv, FwdTypes
<1>1. CASE Cancel(s) \/ HostClose(s) \/ PeerClose(s) \/ AfterFunc(s)
  <2>1. /\ UNCHANGED <<kind, accepting, queue, arrived, linked, live, cause>>
        /\ ctxDone' \subseteq Sessions /\ lisDone' \subseteq Sessions
        /\ closed' \subseteq Sessions
        /\ closer' \in [Sessions -> {"none", "watch", "cancelled", "closing", "returned"}]
    BY <1>1 DEF Cancel, HostClose, PeerClose, AfterFunc, CloseListener
  <2>2. stuck' \subseteq Sessions
    BY <1>1 DEF Cancel, HostClose, PeerClose, AfterFunc, CloseListener
  <2>3. ASSUME NEW q \in Sessions PROVE LinkInv(q)'
    BY <2>1 DEF LinkInv
  <2> QED
    BY <2>1, <2>2, <2>3
<1>2. CASE HostReturns(s) \/ PeerReturns(s) \/ Rejoin(s) \/ RejoinFails(s)
  <2>1. /\ UNCHANGED <<kind, ctxDone, queue, arrived, linked, live, cause, lisDone, stuck,
                       closed, closer>>
        /\ accepting[s] # "link"
        /\ accepting' = [accepting EXCEPT ![s] = "returned"]
             \/ accepting' = [accepting EXCEPT ![s] = "accept"]
    BY <1>2 DEF HostReturns, PeerReturns, Rejoin, RejoinFails
  <2>2. ASSUME NEW q \in Sessions PROVE LinkInv(q)'
    BY <2>1 DEF LinkInv
  <2> QED
    BY <2>1, <2>2
<1> QED
  BY <1>1, <1>2

(* Connections arrive, are accepted, linked and done.                      *)
LEMMA ConnKeepsFwd ==
  ASSUME FwdInv, NEW s \in Sessions,
         \/ Arrive(s) \/ HostAccept(s) \/ HostLink(s) \/ PeerAccept(s) \/ PeerUnlink(s)
         \/ \E c \in Conns : HostUnlink(s, c)
  PROVE  FwdInv'
<1>0. /\ FwdTypes /\ LinkInv(s) /\ MaxConns \in Nat
      /\ queue[s] \in 0 .. MaxConns /\ arrived[s] \in 0 .. MaxConns
      /\ queue[s] <= arrived[s]
  BY ForwarderAssumption DEF FwdInv, FwdTypes, LinkInv
<1>1. CASE Arrive(s)
  <2>1. FwdTypes'
    BY <1>0, <1>1 DEF Arrive, FwdTypes
  <2>2. ASSUME NEW q \in Sessions PROVE LinkInv(q)'
    <3>1. CASE q # s
      BY <1>1, <3>1, OtherSession DEF Arrive, FwdInv, FwdTypes
    <3>2. CASE q = s
      <4>1. /\ queue'[q] = queue[q] + 1 /\ arrived'[q] = arrived[q] + 1
            /\ UNCHANGED <<kind, accepting, linked>>
        BY <1>1, <3>2 DEF Arrive, FwdTypes, FwdInv
      <4> QED
        BY <1>0, <3>2, <4>1 DEF LinkInv
    <3> QED
      BY <3>1, <3>2
  <2> QED
    BY <2>1, <2>2 DEF FwdInv
<1>2. CASE HostAccept(s)
  <2>1. FwdTypes'
    BY <1>0, <1>2 DEF HostAccept, FwdTypes
  <2>2. ASSUME NEW q \in Sessions PROVE LinkInv(q)'
    <3>1. CASE q # s
      BY <1>2, <3>1, OtherSession DEF HostAccept, FwdInv, FwdTypes
    <3>2. CASE q = s
      <4>1. /\ queue'[q] = queue[q] - 1 /\ queue[q] > 0 /\ accepting'[q] = "accepted"
            /\ kind[q] = "host" /\ UNCHANGED <<kind, arrived, linked>>
        BY <1>2, <3>2 DEF HostAccept, FwdTypes, FwdInv
      <4> QED
        BY <1>0, <3>2, <4>1 DEF LinkInv
    <3> QED
      BY <3>1, <3>2
  <2> QED
    BY <2>1, <2>2 DEF FwdInv
<1>3. CASE HostLink(s)
  <2>0. arrived[s] - queue[s] \in Conns
    BY <1>0, <1>3 DEF HostLink, LinkInv, Conns
  <2>1. FwdTypes'
    <3> DEFINE c == arrived[s] - queue[s]
    <3>1. /\ \/ /\ linked' = [linked EXCEPT ![s] = @ \cup {c}]
                /\ live' = [live EXCEPT ![s][c] = Both]
             \/ UNCHANGED <<linked, live>>
          /\ accepting' = [accepting EXCEPT ![s] = "accept"]
          /\ UNCHANGED <<kind, ctxDone, queue, arrived, cause, lisDone, stuck, closed, closer>>
      BY <1>3 DEF HostLink, StartLink
    <3>2. c \in Conns
      BY <2>0
    <3> HIDE DEF c
    <3>3. CASE /\ linked' = [linked EXCEPT ![s] = @ \cup {c}]
               /\ live' = [live EXCEPT ![s][c] = Both]
      BY <1>0, <3>1, <3>2, <3>3 DEF FwdTypes, Both
    <3>4. CASE UNCHANGED <<linked, live>>
      BY <1>0, <3>1, <3>4 DEF FwdTypes
    <3> QED
      BY <3>1, <3>3, <3>4
  <2>2. ASSUME NEW q \in Sessions PROVE LinkInv(q)'
    <3>1. CASE q # s
      BY <1>3, <3>1, OtherSession DEF HostLink, StartLink, FwdInv, FwdTypes
    <3>2. CASE q = s
      <4>1. /\ accepting'[q] = "accept" /\ kind[q] = "host"
            /\ UNCHANGED <<kind, arrived, queue>>
        BY <1>3, <3>2 DEF HostLink, FwdTypes, FwdInv
      <4> QED
        BY <1>0, <3>2, <4>1 DEF LinkInv
    <3> QED
      BY <3>1, <3>2
  <2> QED
    BY <2>1, <2>2 DEF FwdInv
<1>4. CASE PeerAccept(s)
  <2> DEFINE c == arrived[s] - (queue[s] - 1)
  <2>0. /\ c \in Conns /\ queue[s] - 1 \in 0 .. MaxConns
        /\ queue[s] - 1 <= arrived[s] /\ kind[s] = "peer" /\ linked[s] = {}
    BY <1>0, <1>4 DEF PeerAccept, LinkInv, Conns
  <2>1. /\ queue' = [queue EXCEPT ![s] = queue[s] - 1] /\ queue'[s] = queue[s] - 1
        /\ accepting' = [accepting EXCEPT ![s] = "link"]
        /\ UNCHANGED <<kind, ctxDone, arrived, cause, lisDone, stuck, closed, closer>>
    BY <1>0, <1>4 DEF PeerAccept, FwdTypes
  <2>2. /\ linked' = [linked EXCEPT ![s] = @ \cup {c}]
        /\ live' = [live EXCEPT ![s][c] = Both]
    BY <1>4, <2>1 DEF PeerAccept, StartLink
  <2> HIDE DEF c
  <2>3. FwdTypes'
    BY <1>0, <2>0, <2>1, <2>2 DEF FwdTypes, Both
  <2>4. ASSUME NEW q \in Sessions PROVE LinkInv(q)'
    <3>1. CASE q # s
      BY <2>1, <2>2, <3>1, OtherSession DEF FwdInv, FwdTypes
    <3>2. CASE q = s
      <4>1. linked'[q] = {c} /\ accepting'[q] = "link" /\ kind'[q] = "peer"
        BY <1>0, <2>0, <2>1, <2>2, <3>2 DEF FwdTypes
      <4> QED
        BY <1>0, <2>0, <2>1, <3>2, <4>1 DEF LinkInv
    <3> QED
      BY <3>1, <3>2
  <2> QED
    BY <2>3, <2>4 DEF FwdInv
<1>5. CASE PeerUnlink(s)
  <2>1. FwdTypes'
    BY <1>0, <1>5 DEF PeerUnlink, FwdTypes
  <2>2. ASSUME NEW q \in Sessions PROVE LinkInv(q)'
    <3>1. CASE q # s
      BY <1>5, <3>1, OtherSession DEF PeerUnlink, FwdInv, FwdTypes
    <3>2. CASE q = s
      <4>1. /\ kind[q] = "peer" /\ UNCHANGED <<kind, queue, arrived>>
            /\ \/ accepting'[q] \in {"rejoin", "returned"} /\ linked'[q] = {}
               \/ UNCHANGED <<accepting, linked>>
        BY <1>0, <1>5, <3>2 DEF PeerUnlink, FwdTypes
      <4>2. 0 \in Conns \cup {0} /\ {} \subseteq {0}
        OBVIOUS
      <4> QED
        BY <1>0, <3>2, <4>1, <4>2 DEF LinkInv
    <3> QED
      BY <3>1, <3>2
  <2> QED
    BY <2>1, <2>2 DEF FwdInv
<1>6. ASSUME NEW c \in Conns, HostUnlink(s, c) PROVE FwdInv'
  <2>1. FwdTypes'
    BY <1>0, <1>6 DEF HostUnlink, FwdTypes
  <2>2. ASSUME NEW q \in Sessions PROVE LinkInv(q)'
    <3>1. CASE q # s
      BY <1>6, <3>1, OtherSession DEF HostUnlink, FwdInv, FwdTypes
    <3>2. CASE q = s
      BY <1>0, <1>6, <3>2 DEF HostUnlink, LinkInv
    <3> QED
      BY <3>1, <3>2
  <2> QED
    BY <2>1, <2>2 DEF FwdInv
<1> QED
  BY <1>1, <1>2, <1>3, <1>4, <1>5, <1>6

(* A goroutine of a link ends.                                             *)
LEMMA EndKeepsFwd ==
  ASSUME FwdInv, NEW s \in Sessions, NEW c \in Conns, NEW g \in Both,
         NEW why \in {"idle", "transport", "other"}, EndGoroutine(s, c, g, why)
  PROVE  FwdInv'
<1>1. FwdTypes'
  BY DEF FwdInv, FwdTypes, EndGoroutine
<1>2. ASSUME NEW q \in Sessions PROVE LinkInv(q)'
  BY DEF FwdInv, LinkInv, EndGoroutine
<1> QED
  BY <1>1, <1>2 DEF FwdInv

LEMMA ForwardKeepsFwd ==
  ASSUME FwdInv, NEW s \in Sessions, Goroutine(s) \/ Environment(s)
  PROVE  FwdInv'
<1>1. ASSUME NEW c \in Conns, LinkUnwinds(s, c) \/ LinkBreaks(s, c) PROVE FwdInv'
  BY <1>1, EndKeepsFwd DEF LinkUnwinds, LinkBreaks, Both
<1> QED
  BY <1>1, ConnKeepsFwd, QuietKeepsFwd DEF Goroutine, Environment, AcceptAndLink
-----------------------------------------------------------------------------
(* The sessions.                                                           *)
WebTypes ==
  /\ pc \in [Requests -> {"idle", "starting", "stopping", "redirecting"}]
  /\ mu \in Requests \cup {NoRequest}
  /\ session \in Sessions \cup {NoSession}
  /\ held \in [Requests -> Sessions \cup {NoSession}]
  /\ started \in 0 .. MaxSessions
  /\ done \subseteq Sessions
  /\ stop \in {"running", "taken", "waiting", "returned"}
  /\ stopHeld \in Sessions \cup {NoSession}
  /\ \A r \in Requests : pc[r] = "starting" <=> mu = r

(* A handler has a session exactly while it is about to stop it, so does   *)
(* Server.Stop; there is no session while one is started; and no session   *)
(* is known before it is started.                                          *)
OwnerInv ==
  /\ \A r \in Requests : held[r] # NoSession <=> pc[r] = "stopping"
  /\ stop # "taken" => stopHeld = NoSession
  /\ mu # NoRequest => session = NoSession
  /\ stopHeld # NoSession => stopHeld # session
  /\ session <= started /\ stopHeld <= started
  /\ \A r \in Requests : held[r] <= started
  /\ \A s \in Sessions : s > started => kind[s] = "none"

WebInv == FwdInv /\ WebTypes /\ OwnerInv /\ SessionOwned

(* Steps of the forwarders.                                                *)
LEMMA ForwardKeepsWeb ==
  ASSUME WebInv, NEW s \in Sessions, EndSession(s) \/ Forward(s)
  PROVE  WebInv'
<1>1. UNCHANGED webVars /\ FwdInv'
  BY ForwardKeepsFwd, QuietKeepsFwd DEF EndSession, Forward, WebInv
<1>2. kind' = kind
  BY DEF EndSession, Forward, Cancel, Goroutine, Environment, AcceptAndLink, Arrive,
         HostAccept, HostLink, HostReturns, PeerAccept, PeerUnlink, PeerReturns, Rejoin,
         RejoinFails, AfterFunc, HostClose, PeerClose, LinkUnwinds, LinkBreaks,
         EndGoroutine, HostUnlink
<1>3. WebTypes' /\ OwnerInv' /\ SessionOwned'
  BY <1>1, <1>2
     DEF WebInv, WebTypes, OwnerInv, SessionOwned, NoOrphanSession, OneStopper, webVars
<1> QED
  BY <1>1, <1>3 DEF WebInv

(* Steps that neither take nor give a session.                             *)
LEMMA RequestKeepsWeb ==
  ASSUME WebInv, NEW r \in Requests,
         StartSession(r) \/ StartFails(r) \/ SeeSession(r) \/ RedirectToSession(r)
  PROVE  WebInv'
<1>1. UNCHANGED <<session, held, started, done, stop, stopHeld, fwdVars>>
  BY DEF StartSession, StartFails, SeeSession, RedirectToSession
<1>2. FwdInv' /\ SessionOwned'
  BY <1>1 DEF WebInv, FwdInv, FwdTypes, LinkInv, SessionOwned, NoOrphanSession,
              OneStopper, fwdVars
<1>3. WebTypes'
  BY <1>1, WebAssumption
     DEF WebInv, WebTypes, StartSession, StartFails, SeeSession, RedirectToSession
<1>4. OwnerInv'
  <2>1. kind' = kind
    BY <1>1 DEF fwdVars
  <2>2. mu' # NoRequest => session' = NoSession
    BY <1>1 DEF StartSession, StartFails, SeeSession, RedirectToSession, NoActiveSession,
                WebInv, OwnerInv
  <2>3. \A q \in Requests : pc'[q] = "stopping" <=> pc[q] = "stopping"
    BY DEF StartSession, StartFails, SeeSession, RedirectToSession, WebInv, WebTypes
  <2> QED
    BY <1>1, <2>1, <2>2, <2>3 DEF WebInv, OwnerInv
<1> QED
  BY <1>2, <1>3, <1>4 DEF WebInv

(* The new session has a number nobody holds.                              *)
LEMMA StartedKeepsWeb ==
  ASSUME WebInv, NEW r \in Requests, NEW k \in {"host", "peer"}, Started(r, k)
  PROVE  WebInv'
<1> DEFINE n == started + 1
<1>0. /\ WebTypes /\ OwnerInv /\ NoOrphanSession /\ OneStopper /\ FwdInv
      /\ MaxSessions \in Nat /\ started \in Nat /\ n \in Sessions /\ n > started
      /\ n \in Nat /\ kind[n] = "none"
      /\ kind \in [Sessions -> {"none", "host", "peer"}]
  <2>1. WebTypes /\ OwnerInv /\ NoOrphanSession /\ OneStopper /\ FwdInv
    BY DEF WebInv, SessionOwned
  <2>2. MaxSessions \in Nat /\ started \in Nat /\ started < MaxSessions
    BY <2>1, ForwarderAssumption DEF WebTypes, Started
  <2>3. n \in Sessions /\ n > started /\ n \in Nat
    BY <2>2 DEF Sessions
  <2> QED
    BY <2>1, <2>2, <2>3 DEF OwnerInv, FwdInv, FwdTypes
<1>1. /\ pc[r] = "starting" /\ started' = n /\ session' = n /\ StartForwarder(n, k)
      /\ mu' = NoRequest /\ pc' = [pc EXCEPT ![r] = "idle"]
      /\ UNCHANGED <<held, done, stop, stopHeld>> /\ n \in 0 .. MaxSessions
  BY <1>0 DEF Started
<1>2. session = NoSession
  BY <1>0, <1>1, WebAssumption DEF WebTypes, OwnerInv
<1>3. /\ stopHeld # n /\ \A q \in Requests : held[q] # n
      /\ n # NoSession /\ stopHeld <= n /\ \A q \in Requests : held[q] <= n
  BY <1>0 DEF OwnerInv, WebTypes, NoSession, Sessions
<1>4. FwdInv'
  BY <1>0, <1>1, StartKeepsFwd
<1>5. kind' = [kind EXCEPT ![n] = k]
  BY <1>1 DEF StartForwarder
<1>6. \A s \in Sessions : s > n => kind'[s] = "none"
  BY <1>0, <1>5 DEF OwnerInv, Sessions
<1>7. \A s \in 1 .. n : s \in 1 .. started \/ s = n
  BY <1>0
<1>8. \A s \in 1 .. started : s # NoSession
  BY DEF NoSession
<1> HIDE DEF n
<1>9. WebTypes'
  BY <1>0, <1>1, WebAssumption DEF WebTypes
<1>10. OwnerInv'
  <2>1. n <= n
    BY <1>0
  <2>2. \A q \in Requests : pc'[q] = "stopping" <=> pc[q] = "stopping"
    BY <1>0, <1>1 DEF WebTypes
  <2> QED
    BY <1>0, <1>1, <1>3, <1>6, <2>1, <2>2 DEF OwnerInv
<1>11. NoOrphanSession'
  BY <1>0, <1>1, <1>2, <1>7, <1>8 DEF NoOrphanSession
<1>12. OneStopper'
  BY <1>0, <1>1, <1>3 DEF OneStopper
<1> QED
  BY <1>4, <1>9, <1>10, <1>11, <1>12 DEF WebInv, SessionOwned

(* A session is handed from the server to a request or to Stop, and by it  *)
(* to done.                                                                *)
LEMMA TakeKeepsWeb ==
  ASSUME WebInv, NEW r \in Requests, TakeSession(r)
  PROVE  WebInv'
<1>0. WebTypes /\ OwnerInv /\ NoOrphanSession /\ OneStopper /\ FwdInv
  BY DEF WebInv, SessionOwned
<1>1. /\ pc[r] = "idle" /\ mu = NoRequest /\ session # NoSession
      /\ held' = [held EXCEPT ![r] = session] /\ session' = NoSession
      /\ pc' = [pc EXCEPT ![r] = "stopping"]
      /\ UNCHANGED <<mu, started, done, fwdVars, stop, stopHeld>>
  BY DEF TakeSession
<1>2. /\ held[r] = NoSession /\ stopHeld # session
      /\ \A q \in Requests : held[q] # session
  BY <1>0, <1>1 DEF OwnerInv, OneStopper
<1>3. \A q \in Requests : held'[q] = IF q = r THEN session ELSE held[q]
  BY <1>0, <1>1 DEF WebTypes
<1>4. FwdInv'
  BY <1>0, <1>1 DEF FwdInv, FwdTypes, LinkInv, fwdVars
<1>5. WebTypes'
  BY <1>0, <1>1, WebAssumption DEF WebTypes
<1>6. OwnerInv'
  <2>1. NoSession <= started
    BY <1>0 DEF WebTypes, NoSession
  <2>2. kind' = kind
    BY <1>1 DEF fwdVars
  <2>3. \A q \in Requests : pc'[q] = IF q = r THEN "stopping" ELSE pc[q]
    BY <1>0, <1>1 DEF WebTypes
  <2> QED
    BY <1>0, <1>1, <1>3, <2>1, <2>2, <2>3 DEF OwnerInv
<1>7. NoOrphanSession'
  <2> SUFFICES ASSUME NEW s \in 1 .. started
               PROVE  s \in done \/ s = session' \/ s = stopHeld
                        \/ \E q \in Requests : held'[q] = s
    BY <1>1 DEF NoOrphanSession
  <2>1. CASE s = session
    BY <1>3, <2>1
  <2>2. ASSUME NEW q \in Requests, held[q] = s PROVE held'[q] = s
    <3>1. held[q] # NoSession
      BY <2>2 DEF NoSession
    <3> QED
      BY <1>2, <1>3, <2>2, <3>1
  <2> QED
    BY <1>0, <2>1, <2>2 DEF NoOrphanSession
<1>8. OneStopper'
  BY <1>0, <1>1, <1>2, <1>3 DEF OneStopper
<1> QED
  BY <1>4, <1>5, <1>6, <1>7, <1>8 DEF WebInv, SessionOwned

LEMMA StopSessionKeepsWeb ==
  ASSUME WebInv, NEW r \in Requests, StopSession(r)
  PROVE  WebInv'
<1>0. WebTypes /\ OwnerInv /\ NoOrphanSession /\ OneStopper /\ FwdInv
  BY DEF WebInv, SessionOwned
<1>1. /\ pc[r] = "stopping" /\ done' = done \cup {held[r]}
      /\ held' = [held EXCEPT ![r] = NoSession]
      /\ pc' = [pc EXCEPT ![r] = "idle"]
      /\ UNCHANGED <<mu, session, started, fwdVars, stop, stopHeld>>
  BY DEF StopSession
<1>2. held[r] # NoSession /\ held[r] \in Sessions
  BY <1>0, <1>1 DEF OwnerInv, WebTypes
<1>3. \A q \in Requests : held'[q] = IF q = r THEN NoSession ELSE held[q]
  BY <1>0, <1>1 DEF WebTypes
<1>4. FwdInv'
  BY <1>0, <1>1 DEF FwdInv, FwdTypes, LinkInv, fwdVars
<1>5. WebTypes'
  BY <1>0, <1>1, <1>2, WebAssumption DEF WebTypes
<1>6. OwnerInv'
  <2>1. NoSession <= started
    BY <1>0 DEF WebTypes, NoSession
  <2>2. kind' = kind
    BY <1>1 DEF fwdVars
  <2>3. \A q \in Requests : pc'[q] = IF q = r THEN "idle" ELSE pc[q]
    BY <1>0, <1>1 DEF WebTypes
  <2> QED
    BY <1>0, <1>1, <1>3, <2>1, <2>2, <2>3 DEF OwnerInv
<1>7. NoOrphanSession'
  <2> SUFFICES ASSUME NEW s \in 1 .. started
               PROVE  s \in done' \/ s = session \/ s = stopHeld
                        \/ \E q \in Requests : held'[q] = s
    BY <1>1 DEF NoOrphanSession
  <2>1. CASE s = held[r]
    BY <1>1, <2>1
  <2>2. CASE s # held[r]
    BY <1>0, <1>1, <1>3, <2>2 DEF NoOrphanSession
  <2> QED
    BY <2>1, <2>2
<1>8. OneStopper'
  BY <1>0, <1>1, <1>3 DEF OneStopper
<1> QED
  BY <1>4, <1>5, <1>6, <1>7, <1>8 DEF WebInv, SessionOwned

LEMMA StopKeepsWeb ==
  ASSUME WebInv, Stop
  PROVE  WebInv'
<1>0. WebTypes /\ OwnerInv /\ NoOrphanSession /\ OneStopper /\ FwdInv
  BY DEF WebInv, SessionOwned
<1>1. UNCHANGED <<pc, mu, held, started, fwdVars>>
  BY DEF Stop
<1>2. FwdInv' /\ kind' = kind
  BY <1>0, <1>1 DEF FwdInv, FwdTypes, LinkInv, fwdVars
<1>3. NoSession <= started /\ \A s \in 1 .. started : s # NoSession
  BY <1>0 DEF WebTypes, NoSession
<1>4. CASE /\ stop = "running" /\ mu = NoRequest /\ stopHeld' = session
           /\ session' = NoSession /\ stop' = "taken" /\ done' = done
  <2>0. stopHeld = NoSession
    BY <1>0, <1>4 DEF OwnerInv
  <2>1. WebTypes'
    BY <1>0, <1>1, <1>4 DEF WebTypes
  <2>2. OwnerInv'
    BY <1>0, <1>1, <1>2, <1>3, <1>4 DEF OwnerInv
  <2>3. NoOrphanSession'
    BY <1>0, <1>1, <1>3, <1>4, <2>0 DEF NoOrphanSession
  <2>4. OneStopper'
    BY <1>0, <1>1, <1>4 DEF OneStopper
  <2> QED
    BY <1>2, <2>1, <2>2, <2>3, <2>4 DEF WebInv, SessionOwned
<1>5. CASE /\ stop = "taken" /\ done' = done \cup ({stopHeld} \ {NoSession})
           /\ stop' = "waiting" /\ stopHeld' = NoSession /\ session' = session
  <2>1. WebTypes'
    BY <1>0, <1>1, <1>5 DEF WebTypes
  <2>2. OwnerInv'
    BY <1>0, <1>1, <1>2, <1>3, <1>5 DEF OwnerInv
  <2>3. NoOrphanSession'
    BY <1>0, <1>1, <1>3, <1>5 DEF NoOrphanSession
  <2>4. OneStopper'
    BY <1>0, <1>1, <1>5 DEF OneStopper
  <2> QED
    BY <1>2, <2>1, <2>2, <2>3, <2>4 DEF WebInv, SessionOwned
<1>6. CASE stop = "waiting" /\ stop' = "returned" /\ UNCHANGED <<session, stopHeld, done>>
  <2>1. WebTypes'
    BY <1>0, <1>1, <1>6 DEF WebTypes
  <2>2. OwnerInv'
    BY <1>0, <1>1, <1>2, <1>6 DEF OwnerInv
  <2>3. SessionOwned'
    BY <1>0, <1>1, <1>6 DEF SessionOwned, NoOrphanSession, OneStopper
  <2> QED
    BY <1>2, <2>1, <2>2, <2>3 DEF WebInv
<1> QED
  BY <1>4, <1>5, <1>6 DEF Stop

LEMMA WebInvInit == Init => WebInv
<1> SUFFICES ASSUME Init PROVE WebInv
  OBVIOUS
<1> USE ForwarderAssumption, WebAssumption DEF Init, ForwarderInit, NoSession
<1>1. FwdTypes
  BY DEF FwdTypes
<1>2. ASSUME NEW s \in Sessions PROVE LinkInv(s)
  BY DEF LinkInv
<1>3. WebTypes
  BY DEF WebTypes
<1>4. OwnerInv
  BY DEF OwnerInv
<1>5. SessionOwned
  BY DEF SessionOwned, NoOrphanSession, OneStopper
<1> QED
  BY <1>1, <1>2, <1>3, <1>4, <1>5 DEF WebInv, FwdInv

LEMMA WebInvStep == WebInv /\ [Next]_vars => WebInv'
<1> SUFFICES ASSUME WebInv, [Next]_vars PROVE WebInv'
  OBVIOUS
<1>1. ASSUME NEW r \in Requests,
             StartSession(r) \/ TakeSession(r) \/ SeeSession(r) \/ Handler(r)
      PROVE  WebInv'
  BY <1>1, RequestKeepsWeb, StartedKeepsWeb, TakeKeepsWeb, StopSessionKeepsWeb
     DEF Handler
<1>2. ASSUME NEW s \in Sessions, EndSession(s) \/ Forward(s) PROVE WebInv'
  BY <1>2, ForwardKeepsWeb
<1>3. CASE Stop
  BY <1>3, StopKeepsWeb
<1>4. CASE UNCHANGED vars
  BY <1>4 DEF vars, webVars, fwdVars, WebInv, FwdInv, FwdTypes, LinkInv, WebTypes,
              OwnerInv, SessionOwned, NoOrphanSession, OneStopper
<1> QED
  BY <1>1, <1>2, <1>3, <1>4 DEF Next

LEMMA AlwaysWebInv == Spec => []WebInv
<1> QED
  BY WebInvInit, WebInvStep, PTL DEF Spec

(* Types of the web UI and of its forwarders; a peer has at most one link, *)
(* and only a start keeps the mutex of the server.                         *)
THEOREM WebTypeCorrect == Spec => []TypeOK
<1>1. WebInv => TypeOK
  BY FwdInvTypes DEF WebInv, WebTypes, TypeOK
<1> QED
  BY <1>1, AlwaysWebInv, PTL

(* Whatever requests come and whenever the server is stopped, a session    *)
(* that runs is known to exactly one party that can stop it: no session is *)
(* lost, and none has its done channel closed twice.                       *)
THEOREM SessionsOwned == Spec => []SessionOwned
<1>1. WebInv => SessionOwned
  BY DEF WebInv
<1> QED
  BY <1>1, AlwaysWebInv, PTL
=============================================================================
