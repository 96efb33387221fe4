----------------------------- MODULE MCServices -----------------------------
(* Services that share no state: every behaviour is one of the UDP relay,  *)
(* of address discovery, of the log page, of the admin page or of its      *)
(* bandwidth graph, with the others in their initial state, in which none  *)
(* of the steps that fairness is about is enabled.                         *)
EXTENDS UdpRelay, Discovery, SseLog, Admin, Bandwidth, TLC

CONSTANTS a1, a2, w1, w2, c1, pub1, pub2, p1, k1, g1, b1, b2
TwoAddrs == {a1, a2}
TwoWorkers == {w1, w2}
OneClient == {c1}
TwoPublics == {pub1, pub2}
OnePage == {p1}
OneKey == {k1}
OneCaller == {g1}
TwoBrowsers == {b1, b2}
(* The first browser comes over HTTP/3, the second one over TCP.           *)
FirstBrowser == {b1}

VARIABLE service    \* the one that runs

ServicesInit ==
  /\ service \in {"relay", "discovery", "log", "admin", "bandwidth"}
  /\ UdpRelayInit /\ DiscoveryInit /\ LogInit /\ AdminInit /\ BandwidthInit
  /\ service # "discovery" => public = [c \in Clients |-> pub1]

ServicesNext ==
  /\ \/ /\ service = "relay" /\ UdpRelayNext
        /\ UNCHANGED <<discoveryVars, logVars, adminVars, bandwidthVars>>
     \/ /\ service = "discovery" /\ DiscoveryNext
        /\ UNCHANGED <<relayVars, logVars, adminVars, bandwidthVars>>
     \/ /\ service = "log" /\ LogNext
        /\ UNCHANGED <<relayVars, discoveryVars, adminVars, bandwidthVars>>
     \/ /\ service = "admin" /\ AdminNext
        /\ UNCHANGED <<relayVars, discoveryVars, logVars, bandwidthVars>>
     \/ /\ service = "bandwidth" /\ BandwidthNext
        /\ UNCHANGED <<relayVars, discoveryVars, logVars, adminVars>>
  /\ UNCHANGED service

ServicesVars ==
  <<service, relayVars, discoveryVars, logVars, adminVars, bandwidthVars>>

ServicesSpec ==
  /\ ServicesInit /\ [][ServicesNext]_ServicesVars
  /\ UdpRelayFairness /\ DiscoveryFairness /\ LogFairness /\ AdminFairness

(* The type invariants of the services: no channel exceeds its capacity.   *)
ServicesTypeOK == UdpRelayTypeOK /\ LogTypeOK

(* Close of the UDP relay and of the discovery server makes Serve return.  *)
ServersStop == CloseStopsServe /\ CloseStopsServer
=============================================================================
