----------------------------- MODULE WebServer ------------------------------
(***************************************************************************)
(* The session of the client's web UI (internal/webserver/server.go and    *)
(* session.go).  HTTP requests run concurrently: one may start a session   *)
(* (as host or as peer), stop it, or look whether there is one to redirect *)
(* to.  A session owns a forwarder and runs two goroutines: AcceptAndLink, *)
(* and one that waits for the session's end, cancels the context and       *)
(* closes the forwarder.                                                   *)
(***************************************************************************)
EXTENDS Forwarder

CONSTANTS
  Requests,      \* requests under way at one time
  NoRequest      \* nobody holds Server.mu

ASSUME WebAssumption == NoRequest \notin Requests

NoSession == 0

VARIABLES
  pc,         \* where the handler of each request is
  mu,         \* Server.mu, while it is held across a network call
  session,    \* Server.session
  held,       \* the session a handler has taken to stop it
  started,    \* sessions started so far
  done,       \* sessions whose done channel is closed
  stop,       \* progress of Server.Stop
  stopHeld    \* the session Server.Stop has taken

webVars == <<pc, mu, session, held, started, done, stop, stopHeld>>
vars == <<webVars, fwdVars>>

(* Every variable has its type, and only a start keeps the mutex.          *)
TypeOK ==
  /\ ForwarderTypeOK
  /\ pc \in [Requests -> {"idle", "starting", "stopping", "redirecting"}]
  /\ mu \in Requests \cup {NoRequest}
  /\ session \in Sessions \cup {NoSession}
  /\ held \in [Requests -> Sessions \cup {NoSession}]
  /\ started \in 0 .. MaxSessions
  /\ done \subseteq Sessions
  /\ stop \in {"running", "taken", "waiting", "returned"}
  /\ stopHeld \in Sessions \cup {NoSession}
  /\ \A r \in Requests : pc[r] = "starting" <=> mu = r

Init ==
  /\ ForwarderInit
  /\ pc = [r \in Requests |-> "idle"]
  /\ mu = NoRequest
  /\ session = NoSession
  /\ held = [r \in Requests |-> NoSession]
  /\ started = 0
  /\ done = {}
  /\ stop = "running"
  /\ stopHeld = NoSession
-----------------------------------------------------------------------------
(* handleHostStart and handlePeerStart: the mutex is held from the check   *)
(* to the end, over the form and the registration with the server.         *)

(* Mutant: a start does not look for a session.                            *)
NoActiveSessionAssumed == TRUE

NoActiveSession == session = NoSession

StartSession(r) ==
  /\ pc[r] = "idle"
  /\ mu = NoRequest
  /\ NoActiveSession
  /\ mu' = r
  /\ pc' = [pc EXCEPT ![r] = "starting"]
  /\ UNCHANGED <<session, held, started, done, fwdVars, stop, stopHeld>>

(* Mutant: the early return leaves the mutex locked.                       *)
StartFailsLocked(r) ==
  /\ pc[r] = "starting"
  /\ pc' = [pc EXCEPT ![r] = "idle"]
  /\ UNCHANGED <<mu, session, held, started, done, fwdVars, stop, stopHeld>>

(* The form has errors, or Register or Join fails.                         *)
StartFails(r) ==
  /\ pc[r] = "starting"
  /\ mu' = NoRequest
  /\ pc' = [pc EXCEPT ![r] = "idle"]
  /\ UNCHANGED <<session, held, started, done, fwdVars, stop, stopHeld>>

Started(r, k) ==
  /\ pc[r] = "starting"
  /\ started < MaxSessions
  /\ started' = started + 1
  /\ session' = started'
  /\ StartForwarder(started', k)
  /\ mu' = NoRequest
  /\ pc' = [pc EXCEPT ![r] = "idle"]
  /\ UNCHANGED <<held, done, stop, stopHeld>>

(* handleHostStop and handlePeerStop: the session is taken under the mutex *)
(* and stopped after it.                                                   *)
TakeSession(r) ==
  /\ pc[r] = "idle"
  /\ mu = NoRequest
  /\ session # NoSession
  /\ held' = [held EXCEPT ![r] = session]
  /\ session' = NoSession
  /\ pc' = [pc EXCEPT ![r] = "stopping"]
  /\ UNCHANGED <<mu, started, done, fwdVars, stop, stopHeld>>

StopSession(r) ==
  /\ pc[r] = "stopping"
  /\ done' = done \cup {held[r]}
  /\ held' = [held EXCEPT ![r] = NoSession]
  /\ pc' = [pc EXCEPT ![r] = "idle"]
  /\ UNCHANGED <<mu, session, started, fwdVars, stop, stopHeld>>

(* redirectIfSession looks under the mutex ...                             *)
SeeSession(r) ==
  /\ pc[r] = "idle"
  /\ mu = NoRequest
  /\ session # NoSession
  /\ pc' = [pc EXCEPT ![r] = "redirecting"]
  /\ UNCHANGED <<mu, session, held, started, done, fwdVars, stop, stopHeld>>

(* ... and redirectToSession reads s.session again without it.  If it is   *)
(* nil the handler panics, and net/http gives up the request.              *)
RedirectToSession(r) ==
  /\ pc[r] = "redirecting"
  /\ pc' = [pc EXCEPT ![r] = "idle"]
  /\ UNCHANGED <<mu, session, held, started, done, fwdVars, stop, stopHeld>>
-----------------------------------------------------------------------------
(* The second goroutine of a session waits for its end.                    *)
EndSession(s) ==
  /\ s \in done
  /\ Cancel(s)
  /\ UNCHANGED webVars

(* Everything the forwarder of a session does.                             *)
Forward(s) == (Goroutine(s) \/ Environment(s)) /\ UNCHANGED webVars
-----------------------------------------------------------------------------
(* Server.Stop; the HTTP server is still serving.                          *)
Stop ==
  /\ \/ /\ stop = "running"
        /\ mu = NoRequest
        /\ stopHeld' = session
        /\ session' = NoSession
        /\ stop' = "taken"
        /\ UNCHANGED done
     \/ /\ stop = "taken"
        /\ done' = done \cup ({stopHeld} \ {NoSession})
        /\ stop' = "waiting"
        /\ stopHeld' = NoSession
        /\ UNCHANGED session
     \/ /\ stop = "waiting"
        /\ \A s \in 1 .. started : accepting[s] = "returned" /\ closer[s] = "returned"
        /\ stop' = "returned"
        /\ UNCHANGED <<session, stopHeld, done>>
  /\ UNCHANGED <<pc, mu, held, started, fwdVars>>
-----------------------------------------------------------------------------
Handler(r) ==
  \/ StartFails(r) \/ StopSession(r) \/ RedirectToSession(r)
  \/ \E k \in {"host", "peer"} : Started(r, k)

Next ==
  \/ \E r \in Requests : StartSession(r) \/ TakeSession(r) \/ SeeSession(r) \/ Handler(r)
  \/ \E s \in Sessions : EndSession(s) \/ Forward(s)
  \/ Stop

Spec == Init /\ [][Next]_vars

(* What runs goes on: a session with a goroutine that can go on by itself  *)
(* takes a step.  The network owes nothing, and nobody has to send a       *)
(* request or to stop the server.                                          *)
Fairness ==
  /\ \A r \in Requests : WF_vars(Handler(r))
  /\ \A s \in Sessions : WF_vars(EndSession(s) \/ (Goroutine(s) /\ UNCHANGED webVars))
  /\ WF_vars(stop # "running" /\ Stop)

FairSpec == Spec /\ Fairness
-----------------------------------------------------------------------------
(* No session is orphaned: one that runs is the current session, or some   *)
(* handler or Server.Stop has taken it and is about to stop it.            *)
NoOrphanSession ==
  \A s \in 1 .. started :
    s \in done \/ s = session \/ s = stopHeld \/ \E r \in Requests : held[r] = s

(* Only one request stops a session, so that its done channel is closed    *)
(* once and a session that was replaced is not stopped by a late request.  *)
OneStopper ==
  \A r, q \in Requests :
    (held[r] # NoSession /\ (held[r] = held[q] \/ held[r] \in {session, stopHeld}))
      => (r = q /\ held[r] \notin {session, stopHeld})

(* A session that runs can be stopped, by exactly one party.               *)
SessionOwned == NoOrphanSession /\ OneStopper

(* A session that was stopped ends, with the links of its players: its two *)
(* goroutines and all goroutines it started return.  Only a peer whose     *)
(* gameListener hangs while it is closed does not.                         *)
StoppedSessionEnds ==
  \A s \in Sessions : (s \in done) ~> (Ended(s) \/ s \in stuck)

(* "Caller must ensure s.session is not nil" (redirectToSession).          *)
SessionNotNil == \A r \in Requests : pc[r] = "redirecting" => session # NoSession
=============================================================================
