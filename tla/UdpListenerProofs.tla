-------------------------- MODULE UdpListenerProofs --------------------------
(***************************************************************************)
(* Theorems of UdpListener, for every set of addresses, every capacity of  *)
(* the queues and any number of connections: the types, that a packet has  *)
(* one reader, and which open connection the socket may not outlive.       *)
(***************************************************************************)
EXTENDS UdpListener, SequenceTheorems, TLAPS

(* An entry of Listener.conns is a connection of that address.             *)
EntryInv ==
  \A a \in Addrs : conns[a] # NoConn => /\ conns[a] \in 1 .. created
                                        /\ addrOf[conns[a]] = a

(* What readLoop has found out stays true until it has stored the new      *)
(* connection, since only readLoop adds entries.                           *)
LoopInv ==
  /\ loop \in {"deliver", "store"} => found \in 1 .. created
  /\ loop \in {"checkDone", "enqueue", "store"} => conns[packet] = NoConn
  /\ loop = "store" => addrOf[found] = packet

(* Only a connection that exists is queued, accepted, closed, released.    *)
LifeInv ==
  /\ \A i \in 1 .. Len(acceptQueue) : acceptQueue[i] \in 1 .. created
  /\ accepted \subseteq 1 .. created
  /\ connDone \subseteq accepted
  /\ released \subseteq connDone

(* Whoever has closed the socket holds connLock until readLoop is gone, so *)
(* nothing is stored afterwards.                                           *)
SocketInv ==
  ~sockOpen => /\ \A a \in Addrs : conns[a] = NoConn
               /\ loop # "exited" => connLock # Free

ListenerInv ==
  TypeOK /\ EntryInv /\ LoopInv /\ LifeInv /\ SocketInv /\ StoredUntilReleased
-----------------------------------------------------------------------------
(* Two open connections of one address are the same: at most one of them   *)
(* could be missing in the table, and readLoop has seen that the other is. *)
LEMMA OnePerAddr == ListenerInv => OneConnPerAddr
<1> SUFFICES ASSUME ListenerInv, NEW c \in Conns, NEW d \in Conns,
                    Alive(c), Alive(d), addrOf[c] = addrOf[d]
             PROVE  c = d
  BY DEF OneConnPerAddr
<1>1. CASE ~(loop = "store" /\ found = c) /\ ~(loop = "store" /\ found = d)
  BY <1>1 DEF ListenerInv, StoredUntilReleased
<1>2. CASE loop = "store" /\ found = c /\ d # c
  BY <1>2 DEF ListenerInv, StoredUntilReleased, LoopInv, Conns, NoConn
<1>3. CASE loop = "store" /\ found = d /\ d # c
  BY <1>3 DEF ListenerInv, StoredUntilReleased, LoopInv, Conns, NoConn
<1> QED
  BY <1>1, <1>2, <1>3

(* The numbers of connections and lock owners.                             *)
LEMMA Numbers ==
  /\ Conns \subseteq Nat \ {0} /\ NoConn \notin Conns
  /\ TheListener \notin Conns /\ TheListener # Free
  /\ \A c \in Conns : c # Free
  BY BoundsAssumption DEF Conns, NoConn, TheListener, Free

(* The listener starts with an empty table.                                *)
LEMMA ListenerInit == Init => ListenerInv
<1> SUFFICES ASSUME Init PROVE ListenerInv
  OBVIOUS
<1>1. TypeOK
  <2>1. acceptQueue \in Seq(Conns) /\ Len(acceptQueue) = 0
    BY DEF Init
  <2>2. /\ reads \in [Conns -> 0 .. ReadBufferSize] /\ created \in 0 .. MaxConns
        /\ Len(acceptQueue) <= ConnBacklog
    BY <2>1, BoundsAssumption DEF Init
  <2> QED
    BY <2>1, <2>2 DEF Init, TypeOK
<1>2. EntryInv /\ LoopInv /\ SocketInv
  BY DEF Init, EntryInv, LoopInv, SocketInv
<1>3. LifeInv
  BY DEF Init, LifeInv
<1>4. StoredUntilReleased
  BY DEF Init, StoredUntilReleased, Alive, Conns
<1> QED
  BY <1>1, <1>2, <1>3, <1>4 DEF ListenerInv

(* Every action keeps the invariant.                                       *)
LEMMA ListenerStep == ListenerInv /\ [Next]_vars => ListenerInv'
<1> SUFFICES ASSUME ListenerInv, [Next]_vars PROVE ListenerInv'
  OBVIOUS
<1>0. /\ TypeOK /\ EntryInv /\ LoopInv /\ LifeInv /\ SocketInv
      /\ StoredUntilReleased /\ OneConnPerAddr
  BY OnePerAddr DEF ListenerInv
<1> USE BoundsAssumption, Numbers DEF ListenerInv, loopVars, connVars, userVars
<1>1. ASSUME NEW a \in Addrs, ReadFrom(a) PROVE ListenerInv'
  BY <1>0, <1>1 DEF ReadFrom, TypeOK, EntryInv, LoopInv, LifeInv, SocketInv,
     StoredUntilReleased, Alive
<1>2. CASE ReadFails
  BY <1>0, <1>2 DEF ReadFails, TypeOK, EntryInv, LoopInv, LifeInv, SocketInv,
     StoredUntilReleased, Alive
<1>3. CASE Dispatch
  BY <1>0, <1>3 DEF Dispatch, LookUp, TypeOK, EntryInv, LoopInv, LifeInv, SocketInv,
     StoredUntilReleased, Alive
<1>4. CASE Deliver
  <2>1. reads' \in [Conns -> 0 .. ReadBufferSize]
    <3>1. found \in Conns /\ reads[found] \in Nat
      BY <1>0, <1>4 DEF Deliver, TypeOK, LoopInv, Conns
    <3> QED
      BY <1>0, <1>4, <3>1 DEF Deliver, TypeOK
  <2> QED
    BY <1>0, <1>4, <2>1 DEF Deliver, TypeOK, EntryInv, LoopInv, LifeInv, SocketInv,
       StoredUntilReleased, Alive
<1>5. CASE CheckDone
  BY <1>0, <1>5 DEF CheckDone, TypeOK, EntryInv, LoopInv, LifeInv, SocketInv,
     StoredUntilReleased, Alive
<1>6. CASE Enqueue
  <2>1. CASE created' = created + 1
    <3>1. /\ loop = "enqueue" /\ created' = created + 1 /\ found' = created + 1
          /\ created + 1 \in Conns /\ Len(acceptQueue) < ConnBacklog
          /\ addrOf' = [addrOf EXCEPT ![created + 1] = packet]
          /\ reads' = [reads EXCEPT ![created + 1] = 1]
          /\ acceptQueue' = Append(acceptQueue, created + 1)
          /\ loop' = "store"
          /\ UNCHANGED <<packet, sockOpen, done, conns, accepted, connDone, released,
                         connLock>>
      BY <1>0, <1>6, <2>1 DEF Enqueue, BacklogRoom, TypeOK, Conns
    <3>2. /\ acceptQueue' \in Seq(Conns) /\ Len(acceptQueue') <= ConnBacklog
          /\ \A i \in 1 .. Len(acceptQueue') : acceptQueue'[i] \in 1 .. created'
      <4>1. acceptQueue \in Seq(Conns) /\ created \in Nat
        BY <1>0 DEF TypeOK
      <4>2. /\ Len(acceptQueue') = Len(acceptQueue) + 1
            /\ \A i \in 1 .. Len(acceptQueue) : acceptQueue'[i] = acceptQueue[i]
            /\ acceptQueue'[Len(acceptQueue) + 1] = created + 1
        BY <3>1, <4>1
      <4>3. \A i \in 1 .. Len(acceptQueue) : acceptQueue[i] \in 1 .. created
        BY <1>0 DEF LifeInv
      <4>4. ASSUME NEW i \in 1 .. Len(acceptQueue')
            PROVE  acceptQueue'[i] \in 1 .. created'
        <5>1. CASE i = Len(acceptQueue) + 1
          BY <3>1, <4>1, <4>2, <5>1
        <5>2. CASE i # Len(acceptQueue) + 1
          <6>1. i \in 1 .. Len(acceptQueue)
            BY <4>1, <4>2, <5>2
          <6> QED
            BY <3>1, <4>1, <4>2, <4>3, <6>1
        <5> QED
          BY <5>1, <5>2
      <4> QED
        BY <3>1, <4>1, <4>2, <4>4
    <3>3. TypeOK'
      BY <1>0, <3>1, <3>2 DEF TypeOK, Conns
    <3>4. EntryInv' /\ LoopInv' /\ SocketInv'
      BY <1>0, <3>1 DEF TypeOK, EntryInv, LoopInv, SocketInv, Conns
    <3>5. LifeInv'
      BY <1>0, <3>1, <3>2 DEF TypeOK, LifeInv
    <3>6. StoredUntilReleased'
      BY <1>0, <3>1 DEF TypeOK, StoredUntilReleased, Alive, Conns
    <3> QED
      BY <3>3, <3>4, <3>5, <3>6
  <2>2. CASE loop' = "read" /\ UNCHANGED <<found, connVars, reads, acceptQueue>>
    BY <1>0, <1>6, <2>2 DEF Enqueue, TypeOK, EntryInv, LoopInv, LifeInv, SocketInv,
       StoredUntilReleased, Alive
  <2> QED
    BY <1>6, <2>1, <2>2 DEF Enqueue
<1>7. CASE Store
  <2>1. /\ loop = "store" /\ connLock = Free /\ loop' = "read"
        /\ found \in 1 .. created /\ addrOf[found] = packet /\ conns[packet] = NoConn
        /\ conns' = [conns EXCEPT ![packet] = found]
        /\ UNCHANGED <<packet, found, sockOpen, done, acceptQueue, created, addrOf,
                       reads, accepted, connDone, released, connLock>>
    BY <1>0, <1>7 DEF Store, LoopInv
  <2>2. TypeOK' /\ LoopInv' /\ LifeInv'
    BY <1>0, <2>1 DEF TypeOK, LoopInv, LifeInv, Conns
  <2>3. EntryInv'
    BY <1>0, <2>1 DEF TypeOK, EntryInv
  <2>4. SocketInv'
    BY <1>0, <2>1 DEF TypeOK, SocketInv
  <2>5. StoredUntilReleased'
    <3> SUFFICES ASSUME NEW c \in Conns, Alive(c)' PROVE conns'[addrOf'[c]] = c
      BY DEF StoredUntilReleased
    <3>1. Alive(c) /\ addrOf'[c] = addrOf[c] /\ addrOf[c] \in Addrs
      BY <1>0, <2>1 DEF Alive, TypeOK
    <3>2. CASE c = found
      BY <1>0, <2>1, <3>1, <3>2 DEF TypeOK
    <3>3. CASE c # found
      <4>1. conns[addrOf[c]] = c
        BY <1>0, <3>1, <3>3 DEF StoredUntilReleased
      <4>2. addrOf[c] # packet
        BY <2>1, <4>1
      <4> QED
        BY <1>0, <2>1, <3>1, <4>1, <4>2 DEF TypeOK
    <3> QED
      BY <3>2, <3>3
  <2> QED
    BY <2>2, <2>3, <2>4, <2>5
<1>8. CASE Accept
  <2>1. acceptQueue \in Seq(Conns) /\ acceptQueue # <<>>
    BY <1>0, <1>8 DEF TypeOK, Accept
  <2>2. /\ Head(acceptQueue) = acceptQueue[1] /\ 1 \in 1 .. Len(acceptQueue)
        /\ acceptQueue' \in Seq(Conns) /\ Len(acceptQueue') = Len(acceptQueue) - 1
        /\ \A i \in 1 .. Len(acceptQueue') :
             acceptQueue'[i] = acceptQueue[i + 1] /\ i + 1 \in 1 .. Len(acceptQueue)
    BY <1>8, <2>1 DEF Accept
  <2>3. Head(acceptQueue) \in 1 .. created /\ Head(acceptQueue) \in Conns
    BY <1>0, <2>1, <2>2 DEF LifeInv
  <2>4. /\ accepted' = accepted \cup {Head(acceptQueue)}
        /\ UNCHANGED <<loop, packet, found, sockOpen, done, conns, created, addrOf,
                       reads, connDone, released, connLock>>
    BY <1>8 DEF Accept
  <2>5. LifeInv'
    <3>1. \A i \in 1 .. Len(acceptQueue) : acceptQueue[i] \in 1 .. created
      BY <1>0 DEF LifeInv
    <3>2. \A i \in 1 .. Len(acceptQueue') : acceptQueue'[i] \in 1 .. created'
      BY <2>2, <2>4, <3>1
    <3> QED
      BY <1>0, <2>3, <2>4, <3>2 DEF LifeInv
  <2>6. TypeOK'
    <3>1. Len(acceptQueue') <= ConnBacklog
      BY <1>0, <2>1, <2>2 DEF TypeOK
    <3> QED
      BY <1>0, <2>2, <2>3, <2>4, <3>1 DEF TypeOK
  <2> QED
    BY <1>0, <2>4, <2>5, <2>6 DEF EntryInv, LoopInv, SocketInv, StoredUntilReleased,
       Alive
<1>9. ASSUME NEW c \in Conns, Read(c) PROVE ListenerInv'
  BY <1>0, <1>9 DEF Read, TypeOK, EntryInv, LoopInv, LifeInv, SocketInv,
     StoredUntilReleased, Alive
<1>10. ASSUME NEW c \in Conns, CloseConn(c) PROVE ListenerInv'
  BY <1>0, <1>10 DEF CloseConn, TypeOK, EntryInv, LoopInv, LifeInv, SocketInv,
     StoredUntilReleased, Alive
<1>11. ASSUME NEW c \in Conns, Release(c) PROVE ListenerInv'
  <2>1. /\ c \in connDone /\ c \notin released /\ connLock = Free
        /\ conns' = [conns EXCEPT ![addrOf[c]] = NoConn]
        /\ released' = released \cup {c}
        /\ UNCHANGED <<loop, packet, found, done, acceptQueue, created, addrOf, reads,
                       accepted, connDone>>
    BY <1>11 DEF Release
  <2>2. \/ sockOpen' = FALSE /\ connLock' = c /\ \A a \in Addrs : conns'[a] = NoConn
        \/ UNCHANGED <<sockOpen, connLock>>
    BY <1>11 DEF Release, TryCloseConn, NoneLeft
  <2>3. Alive(c) /\ addrOf[c] \in Addrs
    BY <1>0, <2>1 DEF Alive, LifeInv, TypeOK
  <2>4. TypeOK'
    <3>1. sockOpen' \in BOOLEAN /\ connLock' \in Conns \cup {Free, TheListener}
      BY <1>0, <2>2 DEF TypeOK
    <3>2. conns' \in [Addrs -> Conns \cup {NoConn}]
      BY <1>0, <2>1, <2>3 DEF TypeOK
    <3> QED
      BY <1>0, <2>1, <3>1, <3>2 DEF TypeOK
  <2>5. EntryInv' /\ LoopInv' /\ LifeInv'
    BY <1>0, <2>1, <2>3 DEF EntryInv, LoopInv, LifeInv, TypeOK
  <2>6. SocketInv'
    BY <1>0, <2>1, <2>2, <2>3 DEF SocketInv, TypeOK
  <2>7. StoredUntilReleased'
    <3> SUFFICES ASSUME NEW d \in Conns, Alive(d)', ~(loop = "store" /\ found = d)
                 PROVE  conns'[addrOf[d]] = d
      BY <2>1 DEF StoredUntilReleased
    <3>1. Alive(d) /\ d # c
      BY <2>1 DEF Alive
    <3>2. addrOf[d] # addrOf[c]
      BY <1>0, <2>3, <3>1 DEF OneConnPerAddr
    <3> QED
      BY <1>0, <2>1, <2>3, <3>1, <3>2 DEF StoredUntilReleased, TypeOK
  <2> QED
    BY <2>4, <2>5, <2>6, <2>7
<1>12. CASE Close
  <2>1. \/ sockOpen' = FALSE /\ connLock' = TheListener /\ \A a \in Addrs : conns[a] = NoConn
        \/ UNCHANGED <<sockOpen, connLock>>
    BY <1>12 DEF Close, TryCloseConn, NoneLeft
  <2> QED
    <3>1. /\ UNCHANGED <<loop, packet, found, conns, acceptQueue, created, addrOf,
                         reads, accepted, connDone, released>>
          /\ done' = TRUE
      BY <1>12 DEF Close
    <3>2. TypeOK'
      BY <1>0, <2>1, <3>1 DEF TypeOK
    <3>3. SocketInv'
      BY <1>0, <2>1, <3>1 DEF SocketInv
    <3> QED
      BY <1>0, <3>1, <3>2, <3>3 DEF EntryInv, LoopInv, LifeInv, StoredUntilReleased, Alive
<1>13. CASE ReadDone
  BY <1>0, <1>13 DEF ReadDone, TypeOK, EntryInv, LoopInv, LifeInv, SocketInv,
     StoredUntilReleased, Alive
<1>14. CASE UNCHANGED vars
  BY <1>0, <1>14 DEF vars, TypeOK, EntryInv, LoopInv, LifeInv, SocketInv,
     StoredUntilReleased, Alive
<1> QED
  BY <1>1, <1>2, <1>3, <1>4, <1>5, <1>6, <1>7, <1>8, <1>9, <1>10, <1>11, <1>12, <1>13,
     <1>14
  DEF Next, ReadLoop

(* The invariant holds in every state of the listener.                     *)
LEMMA AlwaysListenerInv == Spec => []ListenerInv
  BY ListenerInit, ListenerStep, PTL DEF Spec

(* Every variable of the listener keeps its type: no accept queue and no   *)
(* read buffer exceeds its capacity, and readLoop never delivers to a      *)
(* connection that does not exist.                                         *)
THEOREM ListenerTypes == Spec => []TypeOK
<1>1. ListenerInv => TypeOK
  BY DEF ListenerInv
<1> QED
  BY <1>1, AlwaysListenerInv, PTL

(* A packet has one reader at every moment: two connections that are not   *)
(* closed never share an address, and once dispatch has stored one it      *)
(* stays in Listener.conns until its own release, although release deletes *)
(* the entry of the address whoever it holds.                              *)
THEOREM TableIsSound == Spec => []TableSound
<1>1. ListenerInv => TableSound
  BY OnePerAddr DEF ListenerInv, TableSound
<1> QED
  BY <1>1, AlwaysListenerInv, PTL

(* tryCloseConn closes the socket only when every connection there ever    *)
(* was is closed, except for the one that readLoop has queued for Accept   *)
(* and not stored yet: at most one connection, and readLoop and whoever    *)
(* closed the socket are still waiting for each other.                     *)
THEOREM SocketOutlives == Spec => []SocketOutlivesConns
<1>1. ListenerInv => SocketOutlivesConns
  <2> SUFFICES ASSUME ListenerInv, ~sockOpen, NEW c \in Conns, Alive(c)
               PROVE  loop = "store" /\ found = c /\ connLock # Free
    BY DEF SocketOutlivesConns
  <2>1. addrOf[c] \in Addrs /\ conns[addrOf[c]] = NoConn
    BY DEF ListenerInv, TypeOK, SocketInv
  <2>2. loop = "store" /\ found = c
    BY <2>1, Numbers DEF ListenerInv, StoredUntilReleased
  <2> QED
    BY <2>2 DEF ListenerInv, SocketInv
<1> QED
  BY <1>1, AlwaysListenerInv, PTL
=============================================================================
