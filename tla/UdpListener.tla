---------------------------- MODULE UdpListener -----------------------------
(***************************************************************************)
(* Connections over one UDP socket (internal/platform/udp/listen.go and    *)
(* conn.go).  A single goroutine, readLoop, reads the socket and hands     *)
(* each packet to the connection of its source address, creating the       *)
(* connection and queueing it for Accept when the address is new.  The     *)
(* application accepts, reads and closes connections and closes the        *)
(* listener.  The socket is closed by whoever finds the listener closed    *)
(* and no connection left, under connLock, and waits there for readLoop.   *)
(***************************************************************************)
EXTENDS Naturals, Sequences, FiniteSets

CONSTANTS
  Addrs,            \* source addresses
  ConnBacklog,      \* capacity of acceptQueue
  ReadBufferSize,   \* capacity of a connection's reads
  MaxConns          \* bound on the connections ever created

ASSUME BoundsAssumption ==
  /\ ConnBacklog \in Nat \ {0}
  /\ ReadBufferSize \in Nat \ {0}
  /\ MaxConns \in Nat \ {0}

Conns == 1 .. MaxConns
NoConn == 0
Free == 0            \* connLock is not held ...
TheListener == MaxConns + 1   \* ... or held by Listener.Close, or by a connection

VARIABLES
  loop,         \* where readLoop is
  packet,       \* source address of the packet in its hand
  found,        \* the connection it looked up or created
  sockOpen,     \* Listener.conn is open
  done,         \* Listener.done is closed
  conns,        \* Listener.conns
  acceptQueue,  \* Listener.acceptQueue
  created,      \* connections created so far
  addrOf,       \* Conn.writeAddr
  reads,        \* packets buffered in Conn.reads
  accepted,     \* connections returned by Accept
  connDone,     \* connections whose done channel is closed
  released,     \* connections whose Close has returned
  connLock      \* who holds the lock while waiting for readLoop

vars == <<loop, packet, found, sockOpen, done, conns, acceptQueue, created, addrOf,
          reads, accepted, connDone, released, connLock>>

loopVars == <<loop, packet, found>>
connVars == <<created, addrOf>>
userVars == <<accepted, connDone, released>>

(* Every variable has its type; no queue exceeds its capacity.             *)
TypeOK ==
  /\ loop \in {"read", "lookup", "deliver", "checkDone", "enqueue", "store", "exited"}
  /\ packet \in Addrs
  /\ found \in Conns \cup {NoConn}
  /\ sockOpen \in BOOLEAN
  /\ done \in BOOLEAN
  /\ conns \in [Addrs -> Conns \cup {NoConn}]
  /\ acceptQueue \in Seq(Conns) /\ Len(acceptQueue) <= ConnBacklog
  /\ created \in 0 .. MaxConns
  /\ addrOf \in [Conns -> Addrs]
  /\ reads \in [Conns -> 0 .. ReadBufferSize]
  /\ accepted \subseteq Conns
  /\ connDone \subseteq Conns
  /\ released \subseteq Conns
  /\ connLock \in Conns \cup {Free, TheListener}

Init ==
  /\ loop = "read"
  /\ packet \in Addrs
  /\ found = NoConn
  /\ sockOpen = TRUE
  /\ done = FALSE
  /\ conns = [a \in Addrs |-> NoConn]
  /\ acceptQueue = <<>>
  /\ created = 0
  /\ addrOf = [c \in Conns |-> packet]
  /\ reads = [c \in Conns |-> 0]
  /\ accepted = {}
  /\ connDone = {}
  /\ released = {}
  /\ connLock = Free
-----------------------------------------------------------------------------
(* readLoop.                                                               *)

ReadFrom(a) ==
  /\ loop = "read"
  /\ sockOpen
  /\ packet' = a
  /\ loop' = "lookup"
  /\ UNCHANGED <<found, sockOpen, done, conns, acceptQueue, connVars, reads, userVars,
                 connLock>>

(* The socket is closed, or reading it fails: readDone is closed.          *)
ReadFails ==
  /\ loop = "read"
  /\ loop' = "exited"
  /\ UNCHANGED <<packet, found, sockOpen, done, conns, acceptQueue, connVars, reads,
                 userVars, connLock>>

LookUp(a) == conns[a]

(* dispatch, under the read lock.                                          *)
Dispatch ==
  /\ loop = "lookup"
  /\ connLock = Free
  /\ found' = LookUp(packet)
  /\ loop' = IF found' # NoConn THEN "deliver" ELSE "checkDone"
  /\ UNCHANGED <<packet, sockOpen, done, conns, acceptQueue, connVars, reads, userVars,
                 connLock>>

(* A full buffer drops the packet (ErrReadBufferExceeded).                 *)
Deliver ==
  /\ loop = "deliver"
  /\ reads' = IF reads[found] < ReadBufferSize
              THEN [reads EXCEPT ![found] = @ + 1] ELSE reads
  /\ loop' = "read"
  /\ UNCHANGED <<packet, found, sockOpen, done, conns, acceptQueue, connVars, userVars,
                 connLock>>

CheckDone ==
  /\ loop = "checkDone"
  /\ loop' = IF done THEN "read" ELSE "enqueue"
  /\ UNCHANGED <<packet, found, sockOpen, done, conns, acceptQueue, connVars, reads,
                 userVars, connLock>>

(* Mutant: a queue that never blocks and never refuses.                    *)
BacklogRoomAlways == TRUE

BacklogRoom == Len(acceptQueue) < ConnBacklog

(* The new connection, with its first packet, is queued before it is       *)
(* stored; with no room, or a closed listener, it is dropped.              *)
Enqueue ==
  /\ loop = "enqueue"
  /\ \/ /\ BacklogRoom
        /\ created < MaxConns
        /\ created' = created + 1
        /\ found' = created'
        /\ addrOf' = [addrOf EXCEPT ![found'] = packet]
        /\ reads' = [reads EXCEPT ![found'] = 1]
        /\ acceptQueue' = Append(acceptQueue, found')
        /\ loop' = "store"
     \/ /\ done \/ ~BacklogRoom \/ created = MaxConns
        /\ loop' = "read"
        /\ UNCHANGED <<found, connVars, reads, acceptQueue>>
  /\ UNCHANGED <<packet, sockOpen, done, conns, userVars, connLock>>

(* Mutant: a connection that is queued already is given up when the        *)
(* listener has been closed meanwhile.                                     *)
StoreUnlessDone ==
  /\ loop = "store"
  /\ connLock = Free
  /\ conns' = IF done THEN conns ELSE [conns EXCEPT ![packet] = found]
  /\ loop' = "read"
  /\ UNCHANGED <<packet, found, sockOpen, done, acceptQueue, connVars, reads, userVars,
                 connLock>>

Store ==
  /\ loop = "store"
  /\ connLock = Free
  /\ conns' = [conns EXCEPT ![packet] = found]
  /\ loop' = "read"
  /\ UNCHANGED <<packet, found, sockOpen, done, acceptQueue, connVars, reads, userVars,
                 connLock>>
-----------------------------------------------------------------------------
(* The application.                                                        *)

(* Accept takes the case of its select that finds a connection; its other  *)
(* cases return readErr or ErrClosedListener and change nothing.           *)
Accept ==
  /\ acceptQueue # <<>>
  /\ accepted' = accepted \cup {Head(acceptQueue)}
  /\ acceptQueue' = Tail(acceptQueue)
  /\ UNCHANGED <<loopVars, sockOpen, done, conns, connVars, reads, connDone, released,
                 connLock>>

(* Conn.Read; a closed connection may still return buffered packets.       *)
Read(c) ==
  /\ c \in accepted
  /\ reads[c] > 0
  /\ reads' = [reads EXCEPT ![c] = @ - 1]
  /\ UNCHANGED <<loopVars, sockOpen, done, conns, acceptQueue, connVars, userVars,
                 connLock>>

(* Conn.Close, up to the lock of the listener.                             *)
CloseConn(c) ==
  /\ c \in accepted \ connDone
  /\ connDone' = connDone \cup {c}
  /\ UNCHANGED <<loopVars, sockOpen, done, conns, acceptQueue, connVars, reads, accepted,
                 released, connLock>>

(* Mutant: the socket goes with the listener.                              *)
NoneLeftIgnored(m) == TRUE

NoneLeft(m) == \A a \in Addrs : m[a] = NoConn

(* tryCloseConn: the caller who closes the socket keeps the lock and waits *)
(* for readDone.                                                           *)
TryCloseConn(who, isDone, m) ==
  IF isDone /\ NoneLeft(m)
  THEN sockOpen' = FALSE /\ connLock' = who
  ELSE UNCHANGED <<sockOpen, connLock>>

(* Conn.release: the entry of the address goes, whoever it holds.          *)
Release(c) ==
  /\ c \in connDone \ released
  /\ connLock = Free
  /\ conns' = [conns EXCEPT ![addrOf[c]] = NoConn]
  /\ TryCloseConn(c, done, conns')
  /\ released' = released \cup {c}
  /\ UNCHANGED <<loopVars, done, acceptQueue, connVars, reads, accepted, connDone>>

(* Listener.Close; a second call finds done closed and returns.            *)
Close ==
  /\ ~done
  /\ connLock = Free
  /\ done' = TRUE
  /\ TryCloseConn(TheListener, TRUE, conns)
  /\ UNCHANGED <<loopVars, conns, acceptQueue, connVars, reads, userVars>>

(* <-l.readDone, then the deferred unlock.                                 *)
ReadDone ==
  /\ connLock # Free
  /\ loop = "exited"
  /\ connLock' = Free
  /\ UNCHANGED <<loopVars, sockOpen, done, conns, acceptQueue, connVars, reads, userVars>>
-----------------------------------------------------------------------------
ReadLoop == \/ ReadFails \/ Dispatch \/ Deliver \/ CheckDone \/ Enqueue \/ Store

Next ==
  \/ \E a \in Addrs : ReadFrom(a)
  \/ ReadLoop
  \/ \E c \in Conns : Read(c) \/ CloseConn(c) \/ Release(c)
  \/ Accept \/ Close \/ ReadDone

Spec == Init /\ [][Next]_vars

(* readLoop runs on, but no packet has to come and reading fails for sure  *)
(* only on a closed socket.  A call that was made goes on; nobody has to   *)
(* accept, read or close anything.                                         *)
Fairness ==
  /\ WF_vars(Dispatch \/ Deliver \/ CheckDone \/ Enqueue \/ Store)
  /\ WF_vars(~sockOpen /\ ReadFails)
  /\ WF_vars(ReadDone)
  /\ \A c \in Conns : WF_vars(Release(c))

FairSpec == Spec /\ Fairness
-----------------------------------------------------------------------------
Alive(c) == c \in 1 .. created /\ c \notin released

(* Two connections that are not closed never share an address, so a packet *)
(* has one reader and Conn.release removes its own entry or none.          *)
OneConnPerAddr ==
  \A c, d \in Conns : (Alive(c) /\ Alive(d) /\ addrOf[c] = addrOf[d]) => c = d

(* The socket is closed when there are no accepted connections left        *)
(* (listen.go:201-202), with one exception: a Close that comes while       *)
(* readLoop has queued a connection and not stored it finds an empty table *)
(* and closes the socket under it, be it accepted already or not.  Then    *)
(* readLoop is the one that waits for the lock of whoever closed, at that  *)
(* connection and no other.                                                *)
SocketOutlivesConns ==
  ~sockOpen =>
    \A c \in Conns :
      Alive(c) => loop = "store" /\ found = c /\ connLock # Free

(* An open connection whose store has happened keeps its entry until its   *)
(* own release: packets of its address reach it and nobody else.           *)
StoredUntilReleased ==
  \A c \in Conns :
    (Alive(c) /\ ~(loop = "store" /\ found = c)) => conns[addrOf[c]] = c

(* A packet has one reader, at every moment.                               *)
TableSound == OneConnPerAddr /\ StoredUntilReleased

(* No goroutine is left behind (the tests end with goleak): a Close that   *)
(* waits for readLoop gets to its end.                                     *)
CloseReturns == (connLock # Free) ~> (connLock = Free)
=============================================================================
