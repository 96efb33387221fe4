------------------------------- MODULE Client -------------------------------
(***************************************************************************)
(* The registar's client (internal/registar/client.go): NewHoster, Accept  *)
(* and Close of a Hoster, Join and Close of a Joiner.  Each call opens a   *)
(* control stream, registers, and starts a control agent that serves the   *)
(* commands of the server until the stream ends.  The call, the agent, the *)
(* server, the network and the context of the caller race.                 *)
(*                                                                         *)
(* The server is external here (Registar models it): it answers the        *)
(* request, sends commands one after the other and cancels the stream.     *)
(* What it sent before it cancelled may or may not be read.                *)
(***************************************************************************)
EXTENDS Naturals

CONSTANTS
  MaxJoins,      \* bound: calls of Join on one Joiner
  MaxCommands    \* bound: commands on one control stream

ASSUME ClientAssumption == MaxJoins \in Nat /\ MaxCommands \in Nat

VARIABLES
  role,          \* "hoster" or "joiner"
  call,          \* where NewHoster and Close, or Join, is
  joins,         \* calls of Join so far
  callEnded,     \* the context of the call is done
  afterFunc,     \* the AfterFunc of register has been started
  link,          \* the connection to the registar
  ctrl,          \* what the server did with the control stream
  commands,      \* commands the server has sent on it
  unanswered,    \* whether the last one is not answered
  readEnd,       \* why the client cancelled reading, or "no"
  writeEnded,    \* the client's direction is over: so is Stream.Context
  agent,         \* where Agent.Serve is
  agentErr,      \* what it returned to the errgroup
  handed,        \* connections in the channel conns, of capacity one
  result         \* what the last call returned

callVars == <<role, joins, callEnded>>
streamVars == <<ctrl, commands, unanswered, readEnd, writeEnded>>
agentVars == <<agent, agentErr, handed>>
clientState == <<callVars, call, afterFunc, link, streamVars, agentVars, result>>

FreshStream ==
  /\ ctrl' = "new"
  /\ commands' = 0
  /\ unanswered' = FALSE
  /\ readEnd' = "no"
  /\ writeEnded' = FALSE
  /\ agent' = "off"
  /\ agentErr' = "nil"
  /\ handed' = 0

ClientInit ==
  /\ role \in {"hoster", "joiner"}
  /\ call = "none"
  /\ joins = 0
  /\ callEnded = FALSE
  /\ afterFunc = FALSE
  /\ link = "up"
  /\ ctrl = "new" /\ commands = 0 /\ unanswered = FALSE
  /\ readEnd = "no" /\ writeEnded = FALSE
  /\ agent = "off" /\ agentErr = "nil" /\ handed = 0
  /\ result = "none"

(* The errors a read of the control stream may return by now.              *)
ReadErrors ==
  (IF readEnd = "no" THEN {} ELSE {readEnd})
    \cup (IF link = "up" THEN {} ELSE {link})
    \cup (IF ctrl \in {"refused", "finished"} THEN {ctrl} ELSE {})
-----------------------------------------------------------------------------
(* register.                                                               *)

(* A call on a connection that is up: the request is sent.                 *)
RegisterCall ==
  /\ call = "none"
  /\ link = "up"
  /\ joins < (IF role = "hoster" THEN 1 ELSE MaxJoins)
  /\ joins' = joins + 1
  /\ call' = "response"
  /\ callEnded' = FALSE
  /\ result' = "none"
  /\ FreshStream
  /\ afterFunc' = FALSE
  /\ UNCHANGED <<role, link>>

(* External: status 200 and a certificate, then the stream is kept or      *)
(* cancelled at once; or another status.                                   *)
ServerResponds ==
  /\ call = "response" /\ ctrl = "new" /\ link = "up"
  /\ ctrl' \in {"accepted", "refused", "badStatus"}
  /\ UNCHANGED <<callVars, call, afterFunc, link, commands, unanswered, readEnd,
                 writeEnded, agentVars, result>>

(* register returns an error: Join passes it on, NewHoster closes its      *)
(* transport.                                                              *)
RegisterFails(e) ==
  /\ call' = "none"
  /\ result' = IF e = "refused" THEN "refused" ELSE "error"
  /\ link' = IF role = "hoster" /\ link = "up" THEN "closed" ELSE link
  /\ UNCHANGED <<callVars, afterFunc, ctrl, commands, unanswered, readEnd, agentVars>>

ReadResponse ==
  /\ call = "response"
  /\ \/ /\ ctrl \in {"accepted", "refused"}
        /\ call' = "body"
        /\ UNCHANGED <<callVars, afterFunc, link, streamVars, agentVars, result>>
     \/ /\ \E e \in ReadErrors \cup ({ctrl} \cap {"badStatus"}) : RegisterFails(e)
        /\ writeEnded' = TRUE

(* The certificate is decoded: the agent starts.                           *)
ReadBody ==
  /\ call = "body"
  /\ \/ /\ call' = IF role = "hoster" THEN "serving" ELSE "select"
        /\ agent' = "read"
        /\ UNCHANGED <<callVars, afterFunc, link, streamVars, agentErr, handed, result>>
     \/ /\ \E e \in ReadErrors : RegisterFails(e)
        /\ UNCHANGED writeEnded

(* The context of NewHoster or Join ends.  During register this starts the *)
(* AfterFunc, which may run after register has returned.                   *)
ContextEnds ==
  /\ call \in {"response", "body", "select"}
  /\ ~callEnded
  /\ callEnded' = TRUE
  /\ afterFunc' = (call # "select")
  /\ UNCHANGED <<role, joins, call, link, streamVars, agentVars, result>>

CancelStream ==
  /\ afterFunc
  /\ afterFunc' = FALSE
  /\ readEnd' = IF readEnd = "no" THEN "cancelled" ELSE readEnd
  /\ writeEnded' = TRUE
  /\ UNCHANGED <<callVars, call, link, ctrl, commands, unanswered, agentVars, result>>
-----------------------------------------------------------------------------
(* The control agent.                                                      *)

AgentReads ==
  /\ agent = "read"
  /\ unanswered
  /\ agent' = "handle"
  /\ UNCHANGED <<callVars, call, afterFunc, link, streamVars, agentErr, handed, result>>

(* Mutant: every end of the agent counts as a local close.                 *)
agentResultNil(e) == "nil"

(* isLocalHTTP3CloseError: the client closed its connection.               *)
agentResult(e) == IF e = "closed" THEN "nil" ELSE "error"

AgentReadFails ==
  /\ agent = "read"
  /\ \E e \in ReadErrors : agentErr' = agentResult(e)
  /\ agent' = "returned"
  /\ UNCHANGED <<callVars, call, afterFunc, link, streamVars, handed, result>>

(* The handlers of newControlAgent: a connection to hand over, or not.     *)
AgentHandles ==
  /\ agent = "handle"
  /\ agent' \in {"deliver", "answer"}
  /\ UNCHANGED <<callVars, call, afterFunc, link, streamVars, agentErr, handed, result>>

(* The select at the end of a handler.                                     *)
AgentDelivers ==
  /\ agent = "deliver"
  /\ \/ handed = 0 /\ handed' = 1
     \/ writeEnded /\ UNCHANGED handed
  /\ agent' = "answer"
  /\ UNCHANGED <<callVars, call, afterFunc, link, streamVars, agentErr, result>>

AgentAnswers ==
  /\ agent = "answer"
  /\ unanswered' = FALSE
  /\ IF writeEnded
     THEN /\ agent' = "returned"
          /\ agentErr' = agentResult(link)
     ELSE /\ agent' = "read"
          /\ UNCHANGED agentErr
  /\ UNCHANGED <<callVars, call, afterFunc, link, ctrl, commands, readEnd, writeEnded,
                 handed, result>>

Serve == AgentReads \/ AgentReadFails \/ AgentHandles \/ AgentDelivers \/ AgentAnswers
-----------------------------------------------------------------------------
(* Join.                                                                   *)

(* Whichever is ready: Go chooses at random.                               *)
JoinTakesConn ==
  /\ call = "select"
  /\ handed = 1
  /\ handed' = 0
  /\ readEnd' = IF readEnd = "no" THEN "cancelled" ELSE readEnd
  /\ call' = "waitConn"
  /\ UNCHANGED <<callVars, afterFunc, link, ctrl, commands, unanswered, writeEnded, agent,
                 agentErr, result>>

(* The context of the errgroup ends with the caller's, or with an error of *)
(* the agent.                                                              *)
JoinGivesUp ==
  /\ call = "select"
  /\ callEnded \/ agentErr = "error"
  /\ readEnd' = IF readEnd = "no" THEN "cancelled" ELSE readEnd
  /\ call' = "waitError"
  /\ UNCHANGED <<callVars, afterFunc, link, ctrl, commands, unanswered, writeEnded,
                 agentVars, result>>

(* eg.Wait.                                                                *)
JoinReturns ==
  /\ call \in {"waitConn", "waitError"}
  /\ agent = "returned"
  /\ result' = IF call = "waitConn" THEN "conn" ELSE agentErr
  /\ call' = "none"
  /\ UNCHANGED <<callVars, afterFunc, link, streamVars, agentVars>>

(* Joiner.Close, possibly while Join runs.                                 *)
CloseJoiner ==
  /\ role = "joiner" /\ link = "up"
  /\ link' = "closed"
  /\ writeEnded' = TRUE
  /\ UNCHANGED <<callVars, call, afterFunc, ctrl, commands, unanswered, readEnd, agentVars,
                 result>>
-----------------------------------------------------------------------------
(* Hoster.                                                                 *)

(* Hoster.Accept returns a connection, perhaps after Close.                *)
HosterAccepts ==
  /\ role = "hoster" /\ call \in {"serving", "closing"}
  /\ handed = 1
  /\ handed' = 0
  /\ UNCHANGED <<callVars, call, afterFunc, link, streamVars, agent, agentErr, result>>

(* Mutant: Close waits for the agent without ending its stream.            *)
CloseHosterWaits ==
  /\ call = "serving"
  /\ call' = "closing"
  /\ UNCHANGED <<callVars, afterFunc, link, streamVars, agentVars, result>>

(* Hoster.Close, up to eg.Wait, and its return.                            *)
CloseHoster ==
  /\ call = "serving"
  /\ readEnd' = IF readEnd = "no" THEN "closed" ELSE readEnd
  /\ link' = IF link = "up" THEN "closed" ELSE link
  /\ writeEnded' = TRUE
  /\ call' = "closing"
  /\ UNCHANGED <<callVars, afterFunc, ctrl, commands, unanswered, agentVars, result>>

HosterCloses ==
  /\ call = "closing"
  /\ agent = "returned"
  /\ result' = agentErr
  /\ call' = "none"
  /\ UNCHANGED <<callVars, afterFunc, link, streamVars, agentVars>>
-----------------------------------------------------------------------------
(* External: the server and the network.                                   *)

ServerCommands ==
  /\ ctrl = "accepted" /\ link = "up" /\ readEnd = "no"
  /\ ~unanswered /\ commands < MaxCommands
  /\ commands' = commands + 1
  /\ unanswered' = TRUE
  /\ UNCHANGED <<callVars, call, afterFunc, link, ctrl, readEnd, writeEnded, agentVars,
                 result>>

(* connectPeer is done with a joiner and cancels both directions.          *)
ServerFinishes ==
  /\ role = "joiner"
  /\ ctrl = "accepted" /\ commands > 0 /\ ~unanswered
  /\ ctrl' = "finished"
  /\ writeEnded' = TRUE
  /\ UNCHANGED <<callVars, call, afterFunc, link, commands, unanswered, readEnd, agentVars,
                 result>>

LinkLost ==
  /\ link = "up"
  /\ link' = "lost"
  /\ writeEnded' = TRUE
  /\ UNCHANGED <<callVars, call, afterFunc, ctrl, commands, unanswered, readEnd, agentVars,
                 result>>
-----------------------------------------------------------------------------
CallSteps ==
  \/ ReadResponse \/ ReadBody \/ CancelStream
  \/ JoinTakesConn \/ JoinGivesUp \/ JoinReturns \/ HosterCloses

ClientNext ==
  \/ RegisterCall \/ ContextEnds \/ CallSteps \/ Serve
  \/ HosterAccepts \/ CloseJoiner \/ CloseHoster
  \/ ServerResponds \/ ServerCommands \/ ServerFinishes \/ LinkLost

ClientSpec == ClientInit /\ [][ClientNext]_clientState

(* A call that was made and the agent go on (a handler ends because        *)
(* Connect is bounded by timeouts).  Nobody has to call, to close, to      *)
(* accept or to answer.                                                    *)
ClientFairness == WF_clientState(CallSteps) /\ WF_clientState(Serve)
-----------------------------------------------------------------------------
(* What a call returns is true.  Join returns neither a connection nor an  *)
(* error only to a caller that has closed the Joiner meanwhile, although   *)
(* the agent's error is dropped when it says so; ErrHostAlreadyRegistered  *)
(* or ErrHostNotFound only if the server refused.                          *)
CallTells ==
  /\ role = "joiner" /\ result = "nil" => link = "closed"
  /\ result = "refused" => ctrl = "refused"

(* The agent of a Join that has given up waits to hand over a second       *)
(* connection: the channel is full, and ending the read direction does not *)
(* end the context it watches.                                             *)
AgentStuck == agent = "deliver" /\ handed = 1 /\ ~writeEnded

(* Calls end: a Join whose context is done returns unless its agent is     *)
(* stuck, Close of a Hoster returns, and a refused registration is told to *)
(* the caller or ends the agent of the Hoster.                             *)
CallsReturn ==
  /\ (role = "joiner" /\ call # "none" /\ callEnded) ~> (call = "none" \/ AgentStuck)
  /\ (call = "closing") ~> (call = "none")
  /\ (ctrl = "refused") ~> (result \in {"refused", "error"} \/ agent = "returned")
=============================================================================
