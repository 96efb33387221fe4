---------------------------- MODULE MCConnector -----------------------------
(* Two peers and up to three connections between them.                     *)
EXTENDS Connector, TLC

CONSTANTS a, b, private, c1, c2, c3

TwoPeers == {a, b}
SmallAndLarge == (a :> 1) @@ (b :> 2)
(* Each peer knows one address of the other and dials it while it listens. *)
OnePath == {<<a, private>>, <<b, private>>}
ThreeSlots == {c1, c2, c3}
=============================================================================
