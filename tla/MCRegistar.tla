----------------------------- MODULE MCRegistar -----------------------------
(* Small instances of Registar.                                            *)
EXTENDS Registar, TLC

CONSTANTS h1, h2, p1, p2, k1

OneKey == {k1}
OneHoster == {h1}
TwoHosters == {h1, h2}
OneJoiner == {p1}
TwoJoiners == {p1, p2}

(* One host and two joiners that compete for it.                           *)
Crowd == (h1 :> k1) @@ (p1 :> k1) @@ (p2 :> k1)
(* Two hosters of one game, one of them coming back after the other, or    *)
(* competing with it, and a joiner.                                        *)
Takeover == (h1 :> k1) @@ (h2 :> k1) @@ (p1 :> k1)

HosterSymmetry == Permutations({h1, h2})
=============================================================================
