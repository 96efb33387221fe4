---------------------------- MODULE MCWebServer -----------------------------
(* Concurrent requests, and two sessions one after the other.              *)
EXTENDS WebServer, TLC

CONSTANTS r1, r2, r3
(* Connections arrive at the first session.                                *)
FirstSession == {1}
TwoRequests == {r1, r2}
ThreeRequests == {r1, r2, r3}
=============================================================================
