---------------------------- MODULE MCRelayClient ----------------------------
(* The relay of the registar server, with two setups of which the second   *)
(* one has only a host; and the calls of one client, a hoster or a joiner. *)
(* Every behaviour is one of the two parts, with the other in its initial  *)
(* state, in which none of the steps that fairness is about is enabled.    *)
EXTENDS RelayHub, Client, TLC

CONSTANTS s1, s2
TwoSetups == {s1, s2}
ThreeEnds == {<<s1, "host">>, <<s1, "peer">>, <<s2, "host">>}

VARIABLE side    \* the part that runs

SidesInit ==
  /\ side \in {"relay", "client"}
  /\ Init /\ ClientInit
  /\ side = "relay" => role = "joiner"

SidesNext ==
  /\ \/ side = "relay" /\ Next /\ UNCHANGED clientState
     \/ side = "client" /\ ClientNext /\ UNCHANGED vars
  /\ UNCHANGED side

SidesSpec ==
  /\ SidesInit /\ [][SidesNext]_<<side, vars, clientState>>
  /\ Fairness /\ ClientFairness
=============================================================================
