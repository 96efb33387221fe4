------------------------------ MODULE RateLimit ------------------------------
(***************************************************************************)
(* Rate limiting per IP address: the middleware RateLimit                  *)
(* (internal/platform/httpplatform/middleware.go) with the map of limiters *)
(* that forgets the idle ones (internal/platform/ttlmap.go).  A request    *)
(* takes the limiter of its address out of the map under the map's lock,   *)
(* then uses it without that lock: reserve, look at the delay, cancel.     *)
(*                                                                         *)
(* Time is kept relative to now: a Tick makes every time stamp one tick    *)
(* older and every bucket one tick fuller.  Tokens are counted in ticks,   *)
(* Every of them to the token.  The limiter is rate.Limiter of             *)
(* golang.org/x/time, modelled from its use.                               *)
(***************************************************************************)
EXTENDS Integers, Sequences, FiniteSets, FiniteSetsExt, Functions

CONSTANTS
  IPs,          \* addresses of clients
  Requests,     \* requests that may be handled at the same time
  Every,        \* ticks between two tokens
  Burst,        \* size of the bucket; 0 refuses everything and is left out
  MaxStall,     \* bound: ticks from the look-up to the decision
  MaxDebt       \* bound: ticks a limiter is overdrawn when a request comes

ASSUME RateLimitAssumption ==
  /\ Every \in Nat \ {0} /\ Burst \in Nat \ {0}
  /\ MaxStall \in Nat /\ MaxDebt \in Nat
  /\ IsFiniteSet(IPs) /\ IsFiniteSet(Requests)

VARIABLES
  order,        \* TTLMap.list: keys, the longest unused first
  items,        \* TTLMap.items: key -> limiter and age of the last access
  limiters,     \* the limiters: tokens, and ticks to lastEvent
  requests,     \* handler of each request: step, address, limiter, delay
  budget        \* ghost: what is left of the admissions an address is due

rateVars == <<order, items, limiters, requests, budget>>

(* Mutant: every limiter is forgotten after the time of one token.         *)
ttlShort == Every

ttl == IF Burst > 1 THEN Burst * Every ELSE Every

Full == Burst * Every
NoLimiter == 0
Limiters == 1 .. Cardinality(IPs) + Cardinality(Requests)
Absent == [lim |-> NoLimiter, age |-> 0]
Past == -1                        \* a time stamp before now
NewLimiter == [tokens |-> Full, event |-> Past]

(* What an address may be granted at once: the burst, and what a bucket    *)
(* gains while a request is on its way from the map to the decision.       *)
Allowance == Full + MaxStall

RateInit ==
  /\ order = <<>>
  /\ items = [k \in IPs |-> Absent]
  /\ limiters = [l \in Limiters |-> NewLimiter]
  /\ requests = [r \in Requests |-> [pc |-> "idle"]]
  /\ budget = [k \in IPs |-> Allowance]

Active == {r \in Requests : requests[r].pc # "idle"}

(* Limiters that the map or a request still points to.                     *)
InUse == {items[k].lim : k \in IPs} \cup {requests[r].lim : r \in Active}
-----------------------------------------------------------------------------
(* The loop that drops items from the front until one is fresh.            *)
dropExpired ==
  LET fresh == {i \in DOMAIN order : items[order[i]].age < ttl}
  IN IF fresh = {} THEN <<>> ELSE SubSeq(order, Min(fresh), Len(order))

(* Mutant: an access does not move the item to the back.                   *)
touchInPlace(kept, k) == IF k \in Range(kept) THEN kept ELSE Append(kept, k)

(* get: what is behind the element moves up, the element is the last.      *)
MoveToBack(kept, elem) ==
  [i \in DOMAIN kept |-> CASE i < elem -> kept[i]
                           [] elem <= i /\ i < Len(kept) -> kept[i + 1]
                           [] OTHER -> kept[elem]]

(* MoveToBack in get, PushBack in set.                                     *)
touch(kept, k) ==
  IF k \in Range(kept) THEN MoveToBack(kept, CHOOSE i \in DOMAIN kept : kept[i] = k)
  ELSE Append(kept, k)

(* GetOrSet, under the lock of the map.                                    *)
GetOrSet(r, k) ==
  LET kept == dropExpired
      found == k \in Range(kept)
      l == IF found THEN items[k].lim
           ELSE Min(Limiters \ InUse)
  IN /\ requests[r].pc = "idle"
     /\ found => limiters[l].tokens >= -MaxDebt
     /\ order' = touch(kept, k)
     /\ items' = [x \in IPs |->
                    CASE x = k -> [lim |-> l, age |-> 0]
                      [] x # k /\ x \in Range(kept) -> items[x]
                      [] OTHER -> Absent]
     /\ limiters' = IF found THEN limiters
                    ELSE [limiters EXCEPT ![l] = NewLimiter]
     /\ requests' = [requests EXCEPT ![r] =
                       [pc |-> "got", ip |-> k, lim |-> l, delay |-> Past, stall |-> 0]]
     /\ budget' = [x \in IPs |-> IF x \in Range(order) /\ items'[x].lim # items[x].lim
                                THEN Min({Allowance, budget[x] + MaxStall})
                                ELSE budget[x]]

(* limiter.Reserve, under the lock of the limiter: the token is taken even *)
(* if it is to come.                                                       *)
Reserve(r) ==
  LET q == requests[r]
      left == limiters[q.lim].tokens - Every
      wait == IF left < 0 THEN -left ELSE 0
  IN /\ q.pc = "got"
     /\ limiters' = [limiters EXCEPT ![q.lim] = [tokens |-> left, event |-> wait]]
     /\ requests' = [requests EXCEPT ![r].pc = "reserved", ![r].delay = wait]
     /\ UNCHANGED <<order, items, budget>>

(* reservation.Delay: by now the token may have come.                      *)
Admit(r) ==
  /\ requests[r].pc = "reserved"
  /\ requests[r].delay <= 0
  /\ budget' = [budget EXCEPT ![requests[r].ip] = @ - Every]
  /\ requests' = [requests EXCEPT ![r] = [pc |-> "idle"]]
  /\ UNCHANGED <<order, items, limiters>>

Refuse(r) ==
  /\ requests[r].pc = "reserved"
  /\ requests[r].delay > 0
  /\ requests' = [requests EXCEPT ![r].pc = "refused"]
  /\ UNCHANGED <<order, items, limiters, budget>>

(* reservation.Cancel gives back what no later reservation counts on.      *)
restored(q) ==
  IF q.delay < 0 THEN 0
  ELSE Max({0, Every - (limiters[q.lim].event - q.delay)})

Cancel(r) ==
  LET q == requests[r]
      l == limiters[q.lim]
      back == q.delay - Every
  IN /\ q.pc = "refused"
     /\ limiters' = [limiters EXCEPT ![q.lim] =
          IF restored(q) = 0 THEN l
          ELSE [tokens |-> Min({Full, l.tokens + restored(q)}),
                event |-> IF q.delay = l.event /\ back >= 0 THEN back ELSE l.event]]
     /\ requests' = [requests EXCEPT ![r] = [pc |-> "idle"]]
     /\ UNCHANGED <<order, items, budget>>

Handle(r) ==
  (\E k \in IPs : GetOrSet(r, k)) \/ Reserve(r) \/ Admit(r) \/ Refuse(r) \/ Cancel(r)

Tick ==
  /\ \A r \in Active : requests[r].stall < MaxStall
  /\ items' = [k \in IPs |-> IF items[k] = Absent THEN Absent
                             ELSE [items[k] EXCEPT !.age = Min({ttl, @ + 1})]]
  /\ limiters' = [l \in Limiters |->
                    [tokens |-> Min({Full, limiters[l].tokens + 1}),
                     event |-> Max({Past, limiters[l].event - 1})]]
  /\ requests' = [r \in Requests |->
                    IF r \in Active
                    THEN [requests[r] EXCEPT !.stall = @ + 1, !.delay = Max({Past, @ - 1})]
                    ELSE requests[r]]
  /\ budget' = [k \in IPs |-> Min({Allowance, budget[k] + 1})]
  /\ UNCHANGED order

RateNext == Tick \/ \E r \in Requests : Handle(r)

RateSpec == RateInit /\ [][RateNext]_rateVars
-----------------------------------------------------------------------------
(* The list and the map of TTLMap hold the same keys, each once, and the   *)
(* list is in the order of the last access, so that the loop that stops at *)
(* the first fresh item leaves no expired one behind.                      *)
ListInAccessOrder ==
  /\ Range(order) = {k \in IPs : items[k].lim # NoLimiter}
  /\ Len(order) = Cardinality(Range(order))
  /\ \A i, j \in DOMAIN order : i < j => items[order[i]].age >= items[order[j]].age

(* Forgetting a limiter grants nothing: whatever requests come, how they   *)
(* interleave and when limiters are dropped and made anew, an address is   *)
(* admitted no more often than one bucket of size Burst would allow, give  *)
(* or take the time a request may stall between the map and the decision.  *)
(* That time must be below the lifetime of a limiter: otherwise requests   *)
(* still draw on a limiter that the map has already replaced.              *)
BudgetKept == MaxStall < ttl => \A k \in IPs : budget[k] >= 0
=============================================================================
