------------------------------- MODULE SseLog -------------------------------
(***************************************************************************)
(* The log page of the client's web UI (internal/webserver/sse.go and      *)
(* handleLogs of server.go).  Log lines go to a ring buffer and to the     *)
(* channel of every subscriber; a page first shows what the ring holds,    *)
(* then what comes through its channel.  Stopping a session resets the log *)
(* and disconnects every page.  Handle, Subscribe, Unsubscribe and Reset   *)
(* run under SSEHandler.mu; a line is its number.                          *)
(***************************************************************************)
EXTENDS Naturals, Sequences

CONSTANTS
  Pages,      \* requests for the log stream
  Capacity,   \* size of the ring buffer (NewSSEHandler's bufferSize)
  ChanCap,    \* capacity of a subscriber's channel (100 in Subscribe)
  MaxLines    \* bound on the lines ever logged

ASSUME SseAssumption ==
  /\ Capacity \in Nat \ {0}
  /\ ChanCap \in Nat \ {0}
  /\ MaxLines \in Nat

Lines == 1 .. MaxLines
NoLine == 0
Slots == 0 .. Capacity - 1

VARIABLES
  ring,      \* values of the ring's elements
  head,      \* element ringBuffer.r points to
  count,     \* ringBuffer.count
  logged,    \* lines logged so far
  erased,    \* lines logged before the last Reset
  subs,      \* SSEHandler.subscribers
  chan,      \* lines in the channel of each page
  closes,    \* how often the channel of each page was closed
  pc,        \* where handleLogs of each page is
  history,   \* what Subscribe returned to each page
  shown,     \* lines each page has written
  slow       \* pages that missed a line because their channel was full

logVars == <<ring, head, count, logged, erased, subs, chan, closes, pc,
             history, shown, slow>>
ringVars == <<ring, head, count, logged, erased>>

(* Every variable has its type, and no channel holds more than its         *)
(* capacity: Handle never blocks on a slow page with the mutex held.       *)
LogTypeOK ==
  /\ ring \in [Slots -> Lines \cup {NoLine}]
  /\ head \in Slots
  /\ count \in 0 .. Capacity
  /\ logged \in 0 .. MaxLines
  /\ erased \in 0 .. logged
  /\ subs \subseteq Pages
  /\ chan \in [Pages -> Seq(Lines)]
  /\ \A p \in Pages : Len(chan[p]) <= ChanCap
  /\ closes \in [Pages -> Nat]
  /\ pc \in [Pages -> {"new", "replay", "stream", "leaving", "gone"}]
  /\ history \in [Pages -> Seq(Lines \cup {NoLine})]
  /\ shown \in [Pages -> Seq(Lines \cup {NoLine})]
  /\ slow \subseteq Pages

LogInit ==
  /\ ring = [i \in Slots |-> NoLine]
  /\ head = 0
  /\ count = 0
  /\ logged = 0
  /\ erased = 0
  /\ subs = {}
  /\ chan = [p \in Pages |-> <<>>]
  /\ closes = [p \in Pages |-> 0]
  /\ pc = [p \in Pages |-> "new"]
  /\ history = [p \in Pages |-> <<>>]
  /\ shown = [p \in Pages |-> <<>>]
  /\ slow = {}
-----------------------------------------------------------------------------
(* The ring buffer.                                                        *)

nextCount == IF count < Capacity THEN count + 1 ELSE count

add(line) ==
  /\ ring' = [ring EXCEPT ![head] = line]
  /\ head' = (head + 1) % Capacity
  /\ count' = nextCount

(* Mutant: the walk starts at the write position.                          *)
startHead == head

(* ring.Move(-count) from the write position.                              *)
start == (head + Capacity - count) % Capacity

entries == [i \in 1 .. count |-> ring[(start + i - 1) % Capacity]]
-----------------------------------------------------------------------------
(* The log handler.                                                        *)

(* Mutant: a full channel takes the line all the same.                     *)
hasRoomAlways(p) == TRUE

hasRoom(p) == Len(chan[p]) < ChanCap

Handle ==
  /\ logged < MaxLines
  /\ logged' = logged + 1
  /\ add(logged')
  /\ chan' = [p \in Pages |-> IF p \in subs /\ hasRoom(p)
                              THEN Append(chan[p], logged') ELSE chan[p]]
  /\ slow' = slow \cup {p \in subs : ~hasRoom(p)}
  /\ UNCHANGED <<erased, subs, closes, pc, history, shown>>

Subscribe(p) ==
  /\ pc[p] = "new"
  /\ subs' = subs \cup {p}
  /\ history' = [history EXCEPT ![p] = entries]
  /\ pc' = [pc EXCEPT ![p] = "replay"]
  /\ UNCHANGED <<ringVars, chan, closes, shown, slow>>

(* Mutant: the page's channel is closed whether or not it is subscribed.   *)
UnsubscribeAlways(p) ==
  /\ pc[p] = "leaving"
  /\ subs' = subs \ {p}
  /\ closes' = [closes EXCEPT ![p] = @ + 1]
  /\ pc' = [pc EXCEPT ![p] = "gone"]
  /\ UNCHANGED <<ringVars, chan, history, shown, slow>>

(* Deferred by handleLogs.                                                 *)
Unsubscribe(p) ==
  /\ pc[p] = "leaving"
  /\ subs' = subs \ {p}
  /\ closes' = IF p \in subs THEN [closes EXCEPT ![p] = @ + 1] ELSE closes
  /\ pc' = [pc EXCEPT ![p] = "gone"]
  /\ UNCHANGED <<ringVars, chan, history, shown, slow>>

(* Mutant: pages are forgotten but their channels stay open.               *)
disconnectAllOpen == subs' = {} /\ UNCHANGED closes

disconnectAll ==
  /\ subs' = {}
  /\ closes' = [p \in Pages |-> IF p \in subs THEN closes[p] + 1 ELSE closes[p]]

(* Called by the stop handlers and by Server.Stop.                         *)
Reset ==
  /\ ring' = [i \in Slots |-> NoLine]
  /\ head' = 0
  /\ count' = 0
  /\ erased' = logged
  /\ disconnectAll
  /\ UNCHANGED <<logged, chan, pc, history, shown, slow>>
-----------------------------------------------------------------------------
(* handleLogs.                                                             *)

(* Mutant: the page replays what the ring holds by now.                    *)
ReplayNow(p) ==
  /\ pc[p] = "replay"
  /\ shown' = [shown EXCEPT ![p] = entries]
  /\ pc' = [pc EXCEPT ![p] = "stream"]
  /\ UNCHANGED <<ringVars, subs, chan, closes, history, slow>>

Replay(p) ==
  /\ pc[p] = "replay"
  /\ shown' = [shown EXCEPT ![p] = history[p]]
  /\ pc' = [pc EXCEPT ![p] = "stream"]
  /\ UNCHANGED <<ringVars, subs, chan, closes, history, slow>>

ShowLine(p) ==
  /\ pc[p] = "stream"
  /\ chan[p] # <<>>
  /\ shown' = [shown EXCEPT ![p] = Append(@, Head(chan[p]))]
  /\ chan' = [chan EXCEPT ![p] = Tail(@)]
  /\ UNCHANGED <<ringVars, subs, closes, pc, history, slow>>

(* The channel is drained and closed.                                      *)
ChannelClosed(p) ==
  /\ pc[p] = "stream"
  /\ chan[p] = <<>>
  /\ closes[p] > 0
  /\ pc' = [pc EXCEPT ![p] = "leaving"]
  /\ UNCHANGED <<ringVars, subs, chan, closes, history, shown, slow>>

(* The browser goes away: r.Context() is done.                             *)
BrowserGone(p) ==
  /\ pc[p] = "stream"
  /\ pc' = [pc EXCEPT ![p] = "leaving"]
  /\ UNCHANGED <<ringVars, subs, chan, closes, history, shown, slow>>
-----------------------------------------------------------------------------
Page(p) == Replay(p) \/ ShowLine(p) \/ ChannelClosed(p) \/ Unsubscribe(p)

LogNext ==
  \/ Handle \/ Reset
  \/ \E p \in Pages : Subscribe(p) \/ Page(p) \/ BrowserGone(p)

LogSpec == LogInit /\ [][LogNext]_logVars

(* A page that is open keeps writing; nobody has to log, stop or leave.    *)
LogFairness == \A p \in Pages : WF_logVars(Page(p))
-----------------------------------------------------------------------------
(* The ring holds the newest lines since the last Reset, oldest first and  *)
(* as many as fit: entries, with its walk back by count from the write     *)
(* position, against the definition of a bounded history.                  *)
HistoryIsNewest ==
  LET n == logged - erased
      kept == IF n < Capacity THEN n ELSE Capacity
  IN  entries = [i \in 1 .. kept |-> logged - kept + i]

Written(p) == (IF pc[p] = "replay" THEN history[p] ELSE shown[p]) \o chan[p]

(* A page shows lines once and in order: the lines replayed and the lines  *)
(* that arrive on the channel meanwhile do not overlap, and nothing is     *)
(* missing between them unless the page was too slow for its channel.      *)
NoGapNoRepeat ==
  \A p \in Pages :
    LET w == Written(p) IN
    \A i \in 1 .. Len(w) - 1 :
      IF p \in slow THEN w[i] < w[i + 1] ELSE w[i + 1] = w[i] + 1

(* A channel is closed at most once and never while Handle may send on it, *)
(* in whatever order Reset and Unsubscribe reach it: each would panic.     *)
ChannelClosedOnce ==
  \A p \in Pages : closes[p] <= IF p \in subs THEN 0 ELSE 1

(* A page that Reset disconnected ends; its request does not hang.         *)
DisconnectedEnds ==
  \A p \in Pages : (pc[p] = "stream" /\ p \notin subs) ~> (pc[p] = "gone")
=============================================================================
