-------------------------------- MODULE Admin --------------------------------
(***************************************************************************)
(* The admin page of the registar (internal/registar/admin/admin.go): the  *)
(* list of active hosts and the stream of live events, both fed by the     *)
(* callbacks of the registar server, and the shutdown of the command       *)
(* (cmd/registar/main.go), which must not wait for a page that stays open. *)
(* A page is served by one of two servers, HTTP/3 or TLS, and compressed   *)
(* if the browser accepts it (Gzip in                                      *)
(* internal/platform/httpplatform/middleware.go).  An event is its number. *)
(***************************************************************************)
EXTENDS Naturals, Sequences

CONSTANTS
  Keys,         \* keys of hosts
  Callers,      \* goroutines of the server that run a callback
  Browsers,     \* requests for the event stream
  H3Browsers,   \* those that came over HTTP/3
  Compressed,   \* those that accept gzip
  EventBuffer,  \* capacity of a subscriber's channel (10 in handleEvents)
  MaxEvents     \* bound on the events ever broadcast

ASSUME AdminAssumption ==
  /\ H3Browsers \subseteq Browsers /\ Compressed \subseteq Browsers
  /\ EventBuffer \in Nat \ {0} /\ MaxEvents \in Nat

VARIABLES
  activeHosts,  \* Admin.activeHosts
  caller,       \* callbacks that have yet to broadcast
  events,       \* events broadcast so far
  subscribers,  \* Admin.subscribers
  buffer,       \* events in the channel of each page
  closed,       \* pages whose channel is closed
  stream,       \* where handleEvents of each page is
  since,        \* ghost: events broadcast before the page subscribed
  written,      \* events the handler has written
  seen,         \* how many of them the browser has got
  missed,       \* pages whose channel was full when an event came
  stopped,      \* Admin.stopped is closed
  scraper,      \* the goroutine of the bandwidth scraper runs
  handlers,     \* handlers of Register or Relay, or relays, run or may yet come
  command       \* where the shutdown of main is

hostVars == <<activeHosts, caller>>
pageVars == <<subscribers, closed, stream, since, written, seen>>
adminVars == <<hostVars, events, buffer, pageVars, missed, stopped, scraper, handlers,
               command>>

AdminInit ==
  /\ activeHosts = {}
  /\ caller = [g \in Callers |-> "idle"]
  /\ events = 0
  /\ subscribers = {}
  /\ buffer = [p \in Browsers |-> <<>>]
  /\ closed = {}
  /\ stream = [p \in Browsers |-> "new"]
  /\ since = [p \in Browsers |-> 0]
  /\ written = [p \in Browsers |-> <<>>]
  /\ seen = [p \in Browsers |-> 0]
  /\ missed = {}
  /\ stopped = FALSE
  /\ scraper = TRUE
  /\ handlers = TRUE
  /\ command = "serving"
-----------------------------------------------------------------------------
(* The callbacks: the map first, then the broadcast, under separate locks. *)

HostConnectedCall(g, k) ==
  /\ caller[g] = "idle"
  /\ activeHosts' = activeHosts \cup {k}
  /\ caller' = [caller EXCEPT ![g] = "broadcast"]
  /\ UNCHANGED <<events, buffer, pageVars, missed, stopped, scraper, handlers, command>>

HostDisconnectedCall(g, k) ==
  /\ caller[g] = "idle"
  /\ activeHosts' = activeHosts \ {k}
  /\ caller' = [caller EXCEPT ![g] = "broadcast"]
  /\ UNCHANGED <<events, buffer, pageVars, missed, stopped, scraper, handlers, command>>

PeerConnectedCall(g) ==
  /\ caller[g] = "idle"
  /\ caller' = [caller EXCEPT ![g] = "broadcast"]
  /\ UNCHANGED <<activeHosts, events, buffer, pageVars, missed, stopped, scraper, handlers,
                 command>>

BufferRoom(p) == Len(buffer[p]) < EventBuffer

(* The send never blocks: an event that finds no room is dropped.          *)
broadcast(g) ==
  /\ caller[g] = "broadcast"
  /\ events < MaxEvents
  /\ events' = events + 1
  /\ buffer' = [p \in Browsers |-> IF p \in subscribers /\ BufferRoom(p)
                                   THEN Append(buffer[p], events') ELSE buffer[p]]
  /\ missed' = missed \cup {p \in subscribers : ~BufferRoom(p)}
  /\ caller' = [caller EXCEPT ![g] = "idle"]
  /\ UNCHANGED <<activeHosts, pageVars, stopped, scraper, handlers, command>>
-----------------------------------------------------------------------------
(* handleEvents.                                                           *)

(* The server of the page still takes requests.                            *)
ServerOpen(p) ==
  IF p \in H3Browsers THEN command \in {"serving", "stop"}
  ELSE command \in {"serving", "stop", "closeHTTP3"}

OpenPage(p) ==
  /\ stream[p] = "new"
  /\ ServerOpen(p)
  /\ subscribers' = subscribers \cup {p}
  /\ since' = [since EXCEPT ![p] = events]
  /\ stream' = [stream EXCEPT ![p] = "open"]
  /\ UNCHANGED <<hostVars, events, buffer, closed, written, seen, missed, stopped,
                 scraper, handlers, command>>

(* The first flush fails, as the browser has gone: nothing is subscribed.  *)
OpenPageFails(p) ==
  /\ stream[p] = "new"
  /\ ServerOpen(p)
  /\ stream' = [stream EXCEPT ![p] = "gone"]
  /\ UNCHANGED <<hostVars, events, buffer, subscribers, closed, since, written, seen,
                 missed, stopped, scraper, handlers, command>>

(* The flush passes by the compressor (gzipResponseWriter has Unwrap and   *)
(* no Flush), which hands on what it was given when it likes.              *)
reaches(p) ==
  IF p \in Compressed THEN {seen[p], Len(written[p]) + 1} ELSE {Len(written[p]) + 1}

WriteEvent(p) ==
  /\ stream[p] = "open"
  /\ buffer[p] # <<>>
  /\ written' = [written EXCEPT ![p] = Append(@, Head(buffer[p]))]
  /\ buffer' = [buffer EXCEPT ![p] = Tail(@)]
  /\ \E n \in reaches(p) : seen' = [seen EXCEPT ![p] = n]
  /\ UNCHANGED <<hostVars, events, subscribers, closed, stream, since, missed, stopped,
                 scraper, handlers, command>>

(* Mutant: the handler does not watch stopped.                             *)
LeaveStoppedNever(p) ==
  /\ FALSE
  /\ UNCHANGED adminVars

LeaveStopped(p) ==
  /\ stream[p] = "open"
  /\ stopped
  /\ stream' = [stream EXCEPT ![p] = "leaving"]
  /\ UNCHANGED <<hostVars, events, buffer, subscribers, closed, since, written, seen,
                 missed, stopped, scraper, handlers, command>>

(* The browser goes away.                                                  *)
LeaveGone(p) ==
  /\ stream[p] = "open"
  /\ stream' = [stream EXCEPT ![p] = "leaving"]
  /\ UNCHANGED <<hostVars, events, buffer, subscribers, closed, since, written, seen,
                 missed, stopped, scraper, handlers, command>>

(* Mutant: the channel is closed before the page is taken off the map.     *)
UnsubscribeCloses(p) == closed' = closed \cup {p} /\ UNCHANGED subscribers

UnsubscribePage(p) ==
  closed' = closed \cup {p} /\ subscribers' = subscribers \ {p}

(* The deferred function, then the deferred Close of the compressor.       *)
Leave(p) ==
  /\ stream[p] = "leaving"
  /\ UnsubscribePage(p)
  /\ seen' = [seen EXCEPT ![p] = Len(written[p])]
  /\ stream' = [stream EXCEPT ![p] = "gone"]
  /\ UNCHANGED <<hostVars, events, buffer, since, written, missed, stopped, scraper, handlers,
                 command>>
-----------------------------------------------------------------------------
(* The shutdown of main.                                                   *)

ScraperExit ==
  /\ scraper /\ stopped
  /\ scraper' = FALSE
  /\ UNCHANGED <<hostVars, events, buffer, pageVars, missed, stopped, handlers, command>>

Running(p) == stream[p] \in {"open", "leaving"}

(* A signal, or one of the servers failed: adminPage.Stop.                 *)
StopAdmin ==
  \/ /\ command = "serving"
     /\ stopped' = TRUE
     /\ command' = "stop"
     /\ UNCHANGED <<hostVars, events, buffer, pageVars, missed, scraper, handlers>>
  \/ /\ command = "stop"
     /\ ~scraper
     /\ command' = "closeHTTP3"
     /\ UNCHANGED <<hostVars, events, buffer, pageVars, missed, stopped, scraper, handlers>>

(* External (Registar and RelayHub model them): Server.Close has cancelled *)
(* the relays and no request comes any more; the last handler of Register  *)
(* or Relay returns.  It may never do so, as RelayHub shows.               *)
HandlersReturn ==
  /\ handlers /\ command = "closeHTTP3"
  /\ handlers' = FALSE
  /\ UNCHANGED <<hostVars, events, buffer, pageVars, missed, stopped, scraper, command>>

(* Server.Close waits for the relays and for the handlers of all           *)
(* connections.                                                            *)
CloseHTTP3 ==
  /\ command = "closeHTTP3"
  /\ ~handlers
  /\ \A p \in H3Browsers : ~Running(p)
  /\ command' = "shutdown"
  /\ UNCHANGED <<hostVars, events, buffer, pageVars, missed, stopped, scraper, handlers>>

(* Shutdown waits for the handlers or five seconds; then eg.Wait.          *)
Shutdown ==
  /\ command = "shutdown"
  /\ \A p \in Browsers \ H3Browsers : ~Running(p)
  /\ command' = "exit"
  /\ UNCHANGED <<hostVars, events, buffer, pageVars, missed, stopped, scraper, handlers>>

ShutdownTimesOut ==
  /\ command = "shutdown"
  /\ \E p \in Browsers \ H3Browsers : Running(p)
  /\ command' = "exit"
  /\ UNCHANGED <<hostVars, events, buffer, pageVars, missed, stopped, scraper, handlers>>
-----------------------------------------------------------------------------
PageHandler(p) == WriteEvent(p) \/ LeaveStopped(p) \/ Leave(p)

ShutdownStep == (stopped /\ StopAdmin) \/ CloseHTTP3 \/ Shutdown

AdminNext ==
  \/ \E g \in Callers :
       \/ \E k \in Keys : HostConnectedCall(g, k) \/ HostDisconnectedCall(g, k)
       \/ PeerConnectedCall(g) \/ broadcast(g)
  \/ \E p \in Browsers : \/ OpenPage(p) \/ OpenPageFails(p)
                         \/ PageHandler(p) \/ LeaveGone(p)
  \/ ScraperExit \/ StopAdmin \/ HandlersReturn \/ CloseHTTP3
  \/ Shutdown \/ ShutdownTimesOut

AdminSpec == AdminInit /\ [][AdminNext]_adminVars

(* Page handlers and the shutdown go on; no browser has to leave, no event *)
(* has to come and no signal, and no handler of Register or Relay has to   *)
(* return.                                                                 *)
AdminFairness ==
  /\ \A p \in Browsers : WF_adminVars(PageHandler(p))
  /\ WF_adminVars(ScraperExit)
  /\ WF_adminVars(ShutdownStep)

AdminFairSpec == AdminSpec /\ AdminFairness
-----------------------------------------------------------------------------
(* A page gets the events broadcast since it subscribed, in their order    *)
(* and without a gap unless its channel was full; and the channel is never *)
(* closed while broadcast may send on it.                                  *)
EventsInOrder ==
  \A p \in Browsers :
    LET w == written[p] \o buffer[p] IN
    /\ p \in subscribers => p \notin closed
    /\ \A i \in DOMAIN w : since[p] + i <= w[i] /\ (i > 1 => w[i - 1] < w[i])
    /\ p \in subscribers \ missed => w = [i \in 1 .. events - since[p] |-> since[p] + i]

(* The command ends after a signal although pages stay open, on either     *)
(* server: only a handler of Register or Relay that does not return keeps  *)
(* it, in Server.Close, and when that is over the command goes on to its   *)
(* end.                                                                    *)
ShutdownEnds ==
  stopped ~> (command = "exit" \/ (command = "closeHTTP3" /\ handlers))

(* What is written to an open page is shown: the events are live.          *)
EventsLive ==
  \A p \in Browsers : (seen[p] < Len(written[p])) ~> (seen[p] = Len(written[p]))
=============================================================================
