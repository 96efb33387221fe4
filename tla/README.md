# A formal model of star

`star` lets players host a game behind a NAT: a *registar* server introduces a
host and its players, they connect directly over QUIC if they can, and through
the registar's relay if they cannot. This directory holds TLA+ models of its
concurrent parts, TLC configurations that check them on small instances, and
TLAPS proofs of what matters most for instances of every size. File and line
references are relative to the repository (`src/` in `PROJECT.json`).

## The system

| Part | State | Operations | What is hard |
|---|---|---|---|
| Registar server (`internal/registar/server.go`, `peer.go`, `ca.go`) | `hosts`, `Authority.sessionsCA`, a mutex per host, counters | POST `/host`, POST `/join`, clean-up of a host whose stream ended, `Close` | handlers of many clients run concurrently; clean-ups run at any later time and delete by key; one control stream per host is shared by all joiners |
| Control protocol (`internal/registar/control`) | commands and answers on a stream | `ConnectTo`, `ConnectViaRelay`, `Agent.Serve` | no session number, no timeout, one end may fail |
| Client (`internal/registar/client.go`) | channel of connections | `NewHoster`, `Accept`, `Join`, `Close` | the call, its context, the control agent, the server and the network race; `Join` leaves while the server still talks to it |
| Relay (`Server.Relay`) | `relayWaiting`, `registeredConns`, two goroutines per relay | POST `/relay/{sessionID}`, `Close` | two ends meet in any order, or never |
| P2P connector (`internal/registar/p2p`) | an accept loop and dial loops on each peer | `Connect` | simultaneous dialling on both sides, tie-breaking, cancellation of the losers |
| UDP listener (`internal/platform/udp`) | `conns`, accept queue, read buffers, one socket | `readLoop`, `Accept`, `Conn.Read`, `Conn.Close`, `Close` | shared socket, lock held over a wait, queued before stored |
| UDP relay (`internal/relay`) | routes, inbox, workers | `Serve`, routes, `Close` | draining while the reader still fills |
| Web UI session (`internal/webserver/server.go`, `session.go`) | `session`, `mu`, a wait group | start, stop, redirect, `Stop` | concurrent requests; check-then-act |
| Web UI log (`internal/webserver/sse.go`) | ring buffer, subscribers | `Handle`, `Subscribe`, `Unsubscribe`, `Reset` | two closers of a channel; history against stream |
| Admin (`internal/registar/admin`) | active hosts, event stream, bandwidth ring | callbacks, scraper, pages, the shutdown of `cmd/registar` | callbacks out of order; channels closed under a broadcast; a graph read outside of the lock |
| Forwarder (`internal/forwarder`) | links between the game and a connection | `AcceptAndLink`, `Close` | rejoin after an idle timeout |
| Rate limit (`internal/platform/httpplatform/middleware.go`, `internal/platform/ttlmap.go`) | a limiter per address, map and list of the last accesses | the middleware `RateLimit`, `GetOrSet` | limiters forgotten while requests use them |
| Queue (`internal/platform/queue.go`) | ring buffer | `Peek`, `Pop`, `Push` | wrapping and growing at any position |
| Discovery (`internal/discovery`) | transaction, read deadline | `Bind`, `Serve`, `Close` | lost, late and repeated answers; polling for the end |
| Helpers (auth, certificates, error codes, templates) | none | | |

A host's forwarder registers with the server and keeps its control stream open.
A joiner's `Join` posts to `/join`; the handler finds the host, locks it, and
commands both ends to connect. Each end's control agent runs `Connector.Connect`
and answers; if that failed, both are told to post to `/relay/{id}`, where
`Server.Relay` pairs them. The connection goes to `Accept` or `Join`, and the
forwarder links it with the game's UDP socket (`UdpListener` on the joiner's
side). The web UI starts and stops forwarders and shows their log.

What makes each part correct: setups of different joiners do not mix; what is
counted was delivered; clean-ups hit what they were meant for; both peers settle
on one connection; ends of one relay session meet and no others; packets reach
the connection of their address; every session can be stopped and ends when it
is; a call tells its caller what happened; an address is admitted as often as its
limit says; everything that was closed really ends.

## Modules

**`Registar`** - the control plane. A client is one control stream (a client that
comes back is another element). `pc` says where the server's handler of a client
is; `hosts`, `sessionsCA` and `activeHosts` are the maps; `mu` the hosts' mutexes;
`reqs`/`resps` the two directions of each control stream; `hostErr`/`peerErr` the
results the two goroutines of `initP2P`/`initRelay` store; `conns`/`accepted` the
client's channel and what was taken from it; `afterFunc` the clean-up that the
end of a host's stream will trigger. Actions follow the handler: `Register` (and
`RejectRequest`), then for hosts `RejectHost`, `RegisterHost`, `HostConnected`,
later `HostGone`; for joiners `LookupHost`, `LockHost`, `RecvHost`/`RecvPeer`,
`P2PConnected`, `FallBackToRelay`, `RelayConnected`, `SetupFailed`. Each lock-
protected block is one step; what runs outside a lock is a step of its own. The
client's side is `AgentConnectTo`, `AgentConnectViaRelay`, `Accept`. `Disconnect`
loses whatever is in flight. `Close` is the server's. An agent's 500 answer has no
`Content-Length`, and the server reads up to 256 bytes of its text with the host's mutex
held; a shorter text (`shortError`) is read only when the stream ends (`ErrorUnread`).

A session CA is a number, a certificate is the CA that issued it, and two ends
authenticate each other when theirs are equal (each trusts only the CA it got
with its certificate). A command carries the joiner it is about as a ghost field;
the code's message does not, which is why `AnswersBelongToHolder` matters.

**`RelayHub`** - `Server.Relay`, the two copying goroutines of `relay`,
`registerConn` and `Close`. A setup is one call of `initRelay`; an end is one POST
to `/relay/{id}`. `newSessionID` draws 128 random bits; the model takes them to
be distinct. `Close` waits for every handler of every connection, also for those of
`Register`, which are another module's: `joining` says that one of them has not returned.

**`Meeting`** - what `RelayHub` promises, without session IDs, maps, locks and
channels: an end waits until the other end of its own setup joins it or it leaves,
nobody waits where there is a partner, a pair is never parted or shared.
`ImplementsMeeting` is the refinement: `waits` are the ends whose handler
waits without a partner, `pairs` those that were given one, and the place of an end is its setup
(not its session ID, which only the implementation knows).

**`Client`** - the calls of one `Hoster` or one `Joiner`, whose `Join` is called
again on the same connection. `call` is where the call is, `agent` where
`Agent.Serve` is, `handed` the channel of connections. The two directions of the
control stream end separately (`readEnd`, `writeEnded`): cancelling the read side
does not end the stream's context, which is what the handlers of the agent watch.
The server is external in this module: it answers (a refusal follows a status 200
and a certificate, and what is read first is open), sends commands, finishes and
goes away.

**`Connector`** - `Connect` on two peers: accept loop, dial loops, the handshake
with the ID comparison and the final `select`. A QUIC connection is a slot,
reused when nobody refers to it. Failure of any attempt and cancellation of the
caller may happen at any time. A handshake that an end gives up because its `Connect`
has a connection already is cut off in the order of the code: the accept loop resets the
stream and then closes the connection, and the dialer may see either first
(`ReadCancelled`, `HandshakeCut`, `AnswerCut`). `failed` is the first error of the
errgroup, with its cause: `cut` is such a handshake, `error` anything else. Slots are
names, so a dial takes the first free one.

**`UdpListener`** - `readLoop` step by step against an application that accepts,
reads and closes. `connLock` in the model is who holds the lock while waiting for
`readLoop`; shorter critical sections are atomic steps that need it free.

**`UdpRelay`** - reader, workers and routes, with counters in packets.

**`WebServer`** - the session of the web UI under concurrent requests. `mu` is
held over the whole start (as the code does, registration included), and only
around single steps elsewhere. Starting and stopping have the same control for
a host and a peer and are one set of actions; what they start differs.

**`Forwarder`** - what a session runs, extended by `WebServer`. `accepting` is where
`AcceptAndLink` is, `linked` and `live` are the links and their two goroutines,
`cause` is the error that ended a peer's link (it decides between rejoining and
returning), `closer` the owner's goroutine that cancels the context and calls
`Close`. The game listener is abstracted to whether it is closed and how many
connections it holds; that closing its socket may hang, which `UdpListenerClose`
shows, is the variable `stuck`. `Rejoin` goes on after `Close` too, when `Join` may
return without an error and without a connection.

**`SseLog`** - ring buffer, subscribers and log pages; a line is its number.

**`Admin`** - the callbacks of the server, `broadcast`, the event stream of every
page, served over HTTP/3 or TCP and perhaps compressed, and the shutdown of the
command in its order: `Admin.Stop`, `Server.Close`, which waits for handlers without
limit, and `Shutdown`, which waits five seconds. `handlers` says that a handler of
`Register` or `Relay` has not returned; nothing makes it (`HandlersReturn` is not fair).
`activeHosts` is there because the callbacks change it together with the broadcast;
only `handleStats` shows it, and no property depends on it.

**`Bandwidth`** - the scraper and `handleBandwidth`. The loop after the unlock reads
a bucket in two steps (time, bytes), between which the scraper may overwrite it: a
data race in the code, and a choice of outcomes in the model.

**`Discovery`** - `Bind` with its retransmission, over a network that loses, delays
and reorders datagrams and a NAT that may give a socket another address at any
time; `Serve` and `Close`.

**`RateLimit`** - `GetOrSet` of the TTL map and the middleware, whose steps between
the map and the decision are separate. Time is relative to now: `Tick` ages every
time stamp and fills every bucket. `rate.Limiter` is external: `Reserve` takes the
token in advance, `Cancel` gives back what no later reservation counts on. `budget`
is a ghost: what one bucket of size `Burst` that is never forgotten would still grant.

**`Queue`** and **`Fifo`** - the ring buffer, and the sequence it implements
(`ImplementsFifo`, with `Content`, the slots read from the head, for the sequence).

`MC*.tla` give the constants of the small instances, `*.cfg` the runs.
Eight modules hold the theorems: `RegistarProofs`, `ConnectorProofs`,
`WebServerProofs` (with `Forwarder`), `UdpListenerProofs`, `RelayHubProofs` (with
`Client`), `PageProofs` (`SseLog`, `Admin`, `Bandwidth`), `PlatformProofs` (`Queue`,
`RateLimit`) and `ServicesProofs` (`UdpRelay`, `Discovery`). Operators marked *Mutant* are wrong variants
of the definition after them: `PROJECT.json` lists, for each property, a mutant
under which TLC finds the property violated, so that no property holds by the
shape of the model.

## Runs

| Run | Instance | Shows |
|---|---|---|
| `RegistarCrowd` | 1 host, 2 joiners, 1 key | `AnswersBelongToHolder`, `CountedBothDelivered`, `JoinTerminates` |
| `RegistarTakeover` | 2 hosters of one key, 1 joiner | `OwnEntry`, `SessionCAStable`, `HostForgotten` |
| `RelayClient` | relay: 2 setups, 3 ends | `ImplementsMeeting`, `WaiterFindable`, `Rendezvous`, `Forgotten`, `RelayEnds`, `CloseReturns` |
| | client: a hoster, or a joiner with 2 calls; 2 commands each | `CallTells`, `CallsReturn` |
| `Connector` | 2 peers, 1 address each, 3 slots | `ConnectResult` (`Agreement` and `NilOnlyOnCancel`), `PeersConnect` |
| `WebServer` | 2 requests, 2 sessions, 2 connections at the first | `SessionOwned` (`NoOrphanSession` and `OneStopper`), `StoppedSessionEnds` |
| `Platform` | listener: 2 addresses, 3 connections, backlog 1, buffer 2 | `TableSound` (`OneConnPerAddr` and `StoredUntilReleased`), `SocketOutlivesConns` |
| | limiter: 2 addresses, 2 requests, burst 2, 2 ticks per token | `ListInAccessOrder`, `BudgetKept` |
| | queue: 2 items, up to 7 in the queue | `ImplementsFifo` |
| `Services` | UDP relay: 2 addresses, 2 workers, 5 packets | `NothingLost` (`Conserved`, `GivesUpOne` and `Drained`), `ServersStop` |
| | discovery: 1 socket, 2 public addresses, 2 calls | `AnswerOfThisCall`, `BindReturns`, `ServersStop` |
| | log: 1 page, ring 2, channel 2, 6 lines | `HistoryIsNewest`, `NoGapNoRepeat`, `ChannelClosedOnce`, `DisconnectedEnds` |
| | admin: 2 pages (HTTP/3 and TCP), 3 events, channel 1 | `EventsInOrder`, `ShutdownEnds` |
| | bandwidth: ring of 2, 5 scrapes, 3 bytes | `GraphFitsWindow` |
| `RegistarIssuer` | as Takeover | violated: `EndsAuthenticate` |
| `RegistarFallback` | as Takeover | violated: `OneConnPerSession` |
| `UdpListenerClose` | 2 addresses, 2 connections | violated: `CloseReturns` |
| `WebServerRedirect` | 3 requests, 2 sessions | violated: `SessionNotNil` |
| `AdminLive` | a page that accepts gzip | violated: `EventsLive` |

Every passing run but `RegistarTakeover` also checks a type invariant, which
includes the capacity of queues and channels.

`RelayClient`, `Platform` and `Services` are sums: their parts share no state, so each
behaviour runs one of them, chosen in the initial state, while the others stay
where they start. In that state none of the steps that fairness is about is
enabled, so the parts do not disturb each other's liveness.

*Bounds.* Two joiners are enough for one to wait for the host's mutex while the
other holds it; two hosters of one key for a clean-up to run late and for a
rejected rival; keys interact only through a shared host or CA, so one key is
enough for these runs (isolation of keys is proved, `GamesIsolated`). The relay
needs a pair that meets and an end that stays alone. Three slots let each peer
have a dial under way and a third connection wait in a queue. Three UDP
connections on two addresses allow an address to be reused after a close while
the other one is busy; queues have their smallest sizes so that they fill. Five
packets let both workers fail, fill the inbox of two and leave one in the
reader's hand. Two
requests and `Stop` are a starter and two stoppers at once; two sessions let one
start while the goroutines of the other still run; two connections give a host
concurrent links and a peer a second game after it rejoined. Sessions do not
interact through their connections, so only the first one gets any (`Busy`). Six lines go round a
ring of two three times, while a page's channel of two fills; pages touch nothing of
each other's. Two calls of `Join` or `Bind` let the second one meet what the
first one left; two commands are a setup and its fall-back. Seven items make
the queue grow from 0 to 2, 6 and 14 slots with its head anywhere. Two requests of
one address overlap, two addresses give the list an order; a burst of two makes the
lifetime of a limiter differ from the time of a token. Five scrapes overwrite
a ring of two while it is read. `MaxConns`, `MaxPackets`, `MaxSessions`, `MaxLines`, `MaxEvents`, `MaxCalls`,
`MaxJoins`, `MaxCommands`, `MaxItems`, `MaxScrapes` and `MaxBytes` bound
what would otherwise be endless; when they are reached the bounded action is
disabled (a new UDP connection is refused as with a full backlog).
`MaxStall` bounds how long a request may be under way between the map and the
decision, and `MaxDebt` how far a limiter is overdrawn when the next request comes.
`BudgetKept` grants `MaxStall` on top of the limit, because a limiter may be dropped
when it has just been used by a request that fetched it that long ago. It speaks of
a `MaxStall` below the lifetime of a limiter (1 and 4 ticks in the run), since beyond
that it is false; see below.
Deadlock is not checked: each instance has a bounded supply of requests, lines or
packets and each of these systems may rest when nothing arrives. That nothing
hangs is stated by the liveness properties instead.

*Fairness.* Goroutines that can go on do (weak fairness on each handler, loop or
clean-up; in `WebServer` on the goroutines of a session together, in `Registar` on
all of them together, which is weaker and enough because each client registers
once), and the Go scheduler justifies it. A mutex is handed over as in
`sync.Mutex`, which does not starve waiters. Nothing is assumed of the
environment: no request, packet, disconnect, failure or shutdown has to happen.
Two assumptions are about clients: an agent that has read a command answers it
(`Connect` is bounded by QUIC's handshake timeout), and the application keeps
calling `Accept`, as `Host.AcceptAndLink` does. An agent whose `Join` has returned
is *not* assumed to answer. `Client` assumes that a call and its agent go on, and
nothing of the server, the network or the application. `Discovery` needs strong
fairness for receiving: any datagram may be lost, but of a request that is sent again
and again some copy arrives and is answered; without it `BindReturns` is false, and no
code could make it true. `Admin` assumes that the handlers of pages and the shutdown go on, not
that a browser leaves or an event comes, nor that a handler of `Register` or `Relay`
returns; `RelayHub` does not assume the latter of `Register` either. A goroutine of a relay
takes a datagram that is there before it looks at its context, so that it leaves is
strong fairness: it looks again and again, and a client does not keep the queue full for
ever.

*Symmetry* is used only in runs without temporal properties.

## What the violated runs show

1. `RegistarIssuer`: the certificate is issued before the host is registered, and
   the clean-up of the key's previous stream may remove the CA in between
   (`server.go:122`, `194-203`). The host then holds a certificate that no later
   joiner's CA issued.
2. `RegistarFallback`: `peer.go:52` says both ends must report `ErrConnectFailed`;
   `errors.Is` in `connectPeer` (`server.go:245`) looks through the joined errors
   (`peer.go:57`, `79-89`), so one report is enough, and an end that has a direct
   connection gets a relayed one too.
3. `UdpListenerClose`: `tryCloseConn` waits for `readLoop` with `connLock` held
   (`listen.go:224`) and `readLoop` may be waiting for `connLock` (`124`, `165`).
4. `WebServerRedirect`: `redirectToSession` reads `s.session` after the lock was
   released (`webserver/server.go:415-437`).
5. `AdminLive`: the pages are compressed (`cmd/registar/main.go:333`) by a writer that
   has `Unwrap` but no `Flush` (`middleware.go:221-236`), so the flush after each event
   (`admin.go:130`) passes by the compressor and the event stays in it.

Seen while modelling and not among the runs:

- `server.go:228` with 2.: a joiner whose `Join` returned with the direct
  connection does not answer the relay command, and the read has no timeout
  (`controller.go:75`): the host's mutex stays locked while that joiner stays
  connected. `JoinTerminates` names this as one of its two exceptions. The other:
  a 500 of an agent is written without a length (`agent.go:109-122`), and
  `controller.go:59` and `82` read its text up to 256 bytes or the end of the stream
  (`httpplatform/error.go:28`), so that a shorter text keeps the mutex as long.
- `server.go:537-538`: `Server.Close` waits for the handlers of all connections, also for
  one of `Register` that hangs as above, or that waits for the mutex, and for an end that waits alone in
  `Relay` (`CloseReturns`). `cmd/registar/main.go:203` calls it without a limit, so the
  command may not end after a signal (`ShutdownEnds` names it).
- `connector.go:250-253`: an accept loop whose `Connect` has a connection resets the stream
  it is reading, and the dialer at the other end (`206-222`) does not expect that: its
  loop fails and with it its `Connect`, although the first one has returned a connection.
  The same comes of closing a stream that was cancelled meanwhile (`278`, `289`, `319`).
  `PeersConnect` names it.
- `peer.go:47` "If either succeeded, P2P worked" - line 48 requires both.
- `server.go:205`: `HostConnected` may run after `HostDisconnected`, so that the
  admin page keeps a host that is gone.
- `connector.go:113` returns `(nil, nil)` when its context ends and the loops
  leave in peace; `client.go:311-313` then uses the nil connection.
- `listen.go:163-168`: a connection accepted and closed before it is stored stays
  in the map for good and keeps the socket open (`listen.go:202` says it is closed
  when no accepted connections are left). `Accept` may return a queued connection
  after `Close` (`listen.go:177`). A `Close` between queueing and storing finds an empty
  map and closes the socket under a connection that was or will be accepted
  (`162-167`), which is the one exception of `SocketOutlivesConns`; it then waits for
  `readLoop` as in 3.
- `relay.go:71` says `Serve` blocks "until the connection is closed or an error
  occurs": a failed write ends one worker only, and with all of them gone `Serve`
  waits until `Close`. `relay.go:162` says `Close` processes "all packets already
  read": lines 186-189 discard the one in the reader's hand
  (`NothingLost`: that one and no other). `relay.go:139`:
  `RemoveAllRoutes` leaves reverse routes (145-149).
- `forwarder/host.go:77-88`: a connection that `Accept` handed over just before
  `Close` is linked after `wg.Wait` has returned; the link ends soon after by its
  context, outside of every wait group. `forwarder/peer.go:130`: rejoining replaces
  `hostConn` without closing the old one, and the host's link of it has no idle
  timeout. A game connection still queued when the listener is closed is never
  closed and keeps the socket open (`listen.go:222`).
- `client.go:408-416`: when the server resets the stream after a successful setup,
  the connection may be in the channel and the errgroup's context done at once; the
  `select` then takes either, and may drop the connection. `Join` whose context ended
  waits for an agent that may be handing over a second connection to a full channel
  (`AgentStuck`, the only exception of `CallsReturn`). After `Joiner.Close` a running
  `Join` may return `(nil, nil)` (`CallTells`), with which `forwarder/peer.go:127-135` goes on.
- `client.go:436-446`: `Accept` may return a buffered connection after `Close`, where
  line 435 says `ErrHosterClosed`; it does not notice that the registar is gone, nor
  that a late refusal has ended the agent.
- `middleware.go:143-145`: of two refused requests at a time the first to cancel gives
  nothing back, as the second reservation counts on it, and tokens are lost;
  `middleware_test.go:181` expects the next request to pass after the delay, as it does
  without concurrency.
- `middleware.go:138-143`: a request that takes as long as the lifetime of a limiter
  from the look-up to `Reserve` draws on a limiter that the map has replaced
  (`ttlmap.go:37-47`), and its address is admitted one burst more. TLC finds it when
  `MaxStall` is not below `ttl` and the condition of `BudgetKept` is taken away.
- `server.go:383`: when a relay ends because one stream failed the other stream stays
  open. `server.go:122`: a joiner of an unknown key creates a session CA that nothing
  removes. `connector.go:103`: a loop that fails after another one has delivered its
  connection makes `Connect` return the error and leave the connection open.
- `webserver/server.go:263`: the log is reset after the session was given up; a session
  started in between loses its first lines and its page.
- `webserver/server.go:68-84`: `Stop` may wait for a session that was started after
  it took the old one, as `cmd/star/main.go` stops the HTTP server only later.

## Proofs

Every invariant, every action property and both refinements that the passing runs
check are proved for all values of the constants. Each proof has an inductive
invariant, tried out with TLC on small instances, from which the theorem follows by
`PTL`. The assumptions are the named `ASSUME`s of the
modules: sizes and bounds are natural numbers (those of buffers, rings, backlogs and
bursts not zero, as the code's constants and constructors have it) and marker values
such as `NoOne` or `NoConn` are not among what they mark. Two kinds say more:
`ConnectorAssumption` gives two peers distinct IDs, and `EndsAssumption`,
`RelayAssumption` and `RateLimitAssumption` make set-ups, workers, addresses and
requests finite, because the proofs count them.

**`RegistarProofs`**, for every set of keys, hosters and joiners:

- `TypeCorrect`: `Spec => []TypeOK`. The strengthening `TypeInv` adds that a
  handler past its look-up points to a host (`TargetInv`), without which the
  updates of the host's mutex and queues could not be typed.
- `HostOwnsEntry`: `Spec => []OwnEntry`. Inductive with `TypeInv`: an entry is only
  written when there is none (`RegisterHost`), and only deleted by its owner's
  clean-up.
- `HostKeepsCA`: `Spec => SessionCAStable`, from `OwnEntry`: a clean-up that removes
  the CA also removes the entry, so it is not a step in which the host stays.
- `GamesIsolated`: `Spec => []SessionIsolation`, with `CAInv` (all CAs in use are
  older than `nextCA`, the maps of CAs are injective, and a certificate's CA never
  serves another key).
- `HolderOwnsStream` and `CountedDelivered`: from `SetupInv`, the invariant of a
  setup. `LockInv`: the mutex is held exactly by the joiner in `p2p` or `relay`.
  `DeadInv`: nothing travels on a dead stream. `HostStreamInv` and `PeerStreamInv`:
  while a result is pending at most one message of the setup is on the stream,
  and when it is there the stream is empty - this is what makes the answer that
  `RecvHost` reads the right one. `SuccessInv`: an `ok` on its way or stored means
  that the connection was delivered. `CountedInv` carries it to the counters.

**`RelayHubProofs`**, for every finite set of set-ups and every set of ends:

- `RelayTypes`, `WaiterIsFindable`, and `RelayImplementsMeeting`, the refinement of
  `Meeting`. `Inv` adds to the types that session IDs are counted up and never
  shared (`IDInv`), that an entry of `relayWaiting` is an end that waits alone for
  that very ID (`MapInv`), and that partners know each other and are of one set-up
  (`PartnerInv`). A step of the hub is a step of `Meeting` or leaves `waits` and
  `pairs` alone; `WaiterFindable` is what forbids an end to wait where a partner is.
- `CallsTellTheTruth`: `ClientSpec => []CallTells`, for any number of calls and
  commands. `JoinerInv`: a joiner's agent returns without an error only after the
  `Joiner` was closed, so that `(nil, nil)` has no other cause.

**`ConnectorProofs`**, for any two IDs, any number of addresses to dial and of slots:
`ConnectorTypes` and `ResultsAgree` (`ConnectResult`). At most one connection is ever
answered with `ok` (`OkInv`): one that the peer with the smaller ID dialled, by an
accept loop that takes nothing after it. A peer gets only a connection answered with
`ok` (`GotInv`), hence both get the same; `TrayInv` and `DialInv` say that queued and
dialled connections are in one place only, and not answered yet (though perhaps reset)
while they are queued or read, and `OpenInv` that whoever closes the
connection has let go of it.

**`WebServerProofs`**, for any requests and any number of sessions and connections:
`WebTypeCorrect` and `SessionsOwned`. `OwnerInv`: a handler holds a session exactly
while it is about to stop it, and none is there while one is started under `mu`.
The types need `LinkInv` of the forwarder (a peer has one link at a time).

**`UdpListenerProofs`**, for any addresses, queue sizes and number of connections:
`ListenerTypes`, `TableIsSound` and `SocketOutlives`. `LoopInv`: what `readLoop` has
looked up stays true while it waits without the lock, as only `readLoop` adds entries;
`SocketInv`: who closes the socket keeps `connLock` until `readLoop` is gone, and the
table is empty. `SocketOutlives` says of every open connection, stored or not, that its
socket is open, unless it is the one that `readLoop` has queued and is about to store;
it follows from `SocketInv` and `StoredUntilReleased`.

**`ServicesProofs`**:

- `RelayLosesNothing`, for any number of workers and packets. `Conserved` counts the
  busy workers by cardinality; the proof moves one worker at a time in and out. `GivesUpOne` is inductive by itself
  (`GiveUpStep`: the reader that gives a packet up is gone); `Drained` follows from
  `Conserved` and `DrainedBeforeExit`, that a worker leaves only an empty inbox behind
  (`ServedDrained`).
- `BindAnswersThisCall`, for any sockets, addresses and calls. `WireInv`: no datagram
  is of a later call than the current one, and those of the current one carry an
  address it was sent from.
- `ServicesTypes`: the types of the composition, part by part.

**`PageProofs`**, for any pages, sizes of the buffers, and number of lines, events and
scrapes:

- `LogKeepsNewest`: `RingInv` says which line is in which slot; the walk of `entries`
  back from the write position is shown to start at the oldest (`WalkFromOldest`).
- `LogShownInOrder` and `LogChannelClosedOnce`: `PageInv` says that what a page has
  shown and will get is consecutive and ends at the newest line (rising and ending
  below it once the channel has overflowed).
- `AdminEventsInOrder`: the same for events, with no channel closed before its page
  is gone.
- `GraphInWindow`: `BandwidthInv` ties every slot of the ring to the scrape last
  written there, and what a reader has collected without the lock to scrapes that
  have been in that slot since it looked.

**`PlatformProofs`**:

- `QueueImplementsFifo`, the refinement of `Fifo` for any items and any number of
  them: `Push`, `Pop` and growing keep the content read from the head, wherever it is.
- `PlatformTypes`: the types of the composition.
- `ListIsInAccessOrder`, for any addresses, requests and bursts. `ListInv`: list and map
  have the same keys, each once, and ages fall along the list. A spare limiter exists
  by counting (`SpareLimiter`).
- `ForgettingGrantsNothing`: `RateSpec => []BudgetKept`. `BudgetInv` consists of
  `ListInv`, `UseInv` (if `MaxStall < ttl`, a request uses the limiter that the map has for
  its address, because a limiter with a request under way cannot have expired) and
  `KeyInv` for each address. An address without a limiter has a budget of a full
  bucket; one whose limiter has been idle for some time has a budget of as much. A
  limiter in use has `BucketInv`: waiting requests queue up one token apart and overdraw
  the limiter (`WaitInv`); no more tokens were taken, or may come back, in the last `s`
  ticks than a bucket had and got (`RecentInv`); no more are served within `h` ticks
  than that (`ServedInv`); and the budget covers what the limiter has left and has
  given away, and each admission by the time it is due (`CoverInv`). `RecentInv` and
  `ServedInv` are there for the tick at which the budget is full and stays. There is
  one lemma about `BucketInv` for each of `Reserve`, `Admit`, `Refuse`, `Cancel` and
  `Tick`, over plain data, and one per action that lifts it to the state.

Only model-checked:

- the liveness properties (`JoinTerminates`, `HostForgotten`, `Rendezvous`, `Forgotten`,
  `RelayEnds`, `CloseReturns`, `CallsReturn`, `PeersConnect`, `StoppedSessionEnds`,
  `ServersStop`, `BindReturns`, `DisconnectedEnds`, `ShutdownEnds`): fairness and
  ENABLED are beyond the prover;
- the violated runs, whose point is a counterexample;
- that the parts of a sum run (`RelayClient`, `Platform`, `Services`) keep their
  properties in the composition, apart from the types of `Platform` and `Services`: the
  theorems are about each part's own specification.

## Not modelled

Time (certificate lifetimes, idle timeouts other than as nondeterministic
failures) except in `RateLimit`, TLS, QUIC and HTTP/3 themselves, message encoding,
tokens (the key of each client is a constant), datagrams on a link, templates,
configuration, the form cache of the web UI, test helpers. These keep no state that two
goroutines share, or are pure computation. The burst of zero, with which `RateLimit`
refuses everything, is left out.

## Plan

1. Done: all modules above, the refinements of `Meeting` and `Fifo`, and the proofs of
   every safety property that the passing runs check.
2. Proofs: the safety half of the liveness properties (what a waiting handler waits for
   is held by somebody who can go on), the properties of the parts carried to the
   specifications of the sum runs.
3. Compositions: `Registar` with `RelayHub` through `Meeting`, `Client` in the place of
   the client's actions of `Registar`, `WebServer` with `SseLog`.
