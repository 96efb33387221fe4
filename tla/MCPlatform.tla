----------------------------- MODULE MCPlatform -----------------------------
(* The building blocks of internal/platform that share no state: every     *)
(* behaviour is one of the UDP listener, of the queue or of the rate       *)
(* limiter, with the two others in their initial state.                    *)
EXTENDS UdpListener, Queue, RateLimit, TLC

CONSTANTS a1, a2, ip1, ip2, r1, r2
TwoAddrs == {a1, a2}
TwoIPs == {ip1, ip2}
TwoRequests == {r1, r2}

VARIABLE part    \* the block that runs

PlatformInit ==
  /\ part \in {"listener", "queue", "limiter"}
  /\ Init /\ QueueInit /\ RateInit

PlatformNext ==
  /\ \/ part = "listener" /\ Next /\ UNCHANGED <<queueVars, rateVars>>
     \/ part = "queue" /\ QueueNext /\ UNCHANGED <<vars, rateVars>>
     \/ part = "limiter" /\ RateNext /\ UNCHANGED <<vars, queueVars>>
  /\ UNCHANGED part

PlatformSpec == PlatformInit /\ [][PlatformNext]_<<part, vars, queueVars, rateVars>>

(* The type invariants of the blocks: no buffer exceeds its capacity.      *)
PlatformTypeOK == TypeOK /\ QueueTypeOK

PlatformSymmetry ==
  Permutations(TwoAddrs) \cup Permutations(TwoIPs) \cup Permutations(TwoRequests)
=============================================================================
