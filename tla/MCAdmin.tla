------------------------------ MODULE MCAdmin -------------------------------
(* One page that its browser asked for in compressed form.                 *)
EXTENDS Admin, TLC

CONSTANTS k1, g1, b1
OneKey == {k1}
OneCaller == {g1}
OneBrowser == {b1}
=============================================================================
