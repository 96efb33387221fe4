------------------------------- MODULE Meeting -------------------------------
(***************************************************************************)
(* What the relay of the registar promises to the two ends of a session,   *)
(* without session IDs, maps, locks or channels: an end waits until the    *)
(* other end of its own setup joins it, or leaves; nobody waits at a place *)
(* where there is a partner; a pair, once made, is never parted or shared. *)
(* RelayHub implements it.                                                 *)
(***************************************************************************)
CONSTANTS
  Parties,        \* those who may come
  PlaceOf(_)      \* where a party goes

VARIABLES
  waits,          \* parties that are alone at their place
  pairs           \* the pairs made so far

Paired(e) == \E p \in pairs : e \in p

WaitersAt(e) == {f \in waits : PlaceOf(f) = PlaceOf(e)}

Come(e) ==
  /\ ~Paired(e)
  /\ WaitersAt(e) = {}
  /\ waits' = waits \cup {e}
  /\ pairs' = pairs

Join(e, f) ==
  /\ f \in WaitersAt(e)
  /\ e # f
  /\ ~Paired(e)
  /\ waits' = waits \ {f}
  /\ pairs' = pairs \cup {{e, f}}

Leave(e) ==
  /\ e \in waits
  /\ waits' = waits \ {e}
  /\ pairs' = pairs

MeetingInit == waits = {} /\ pairs = {}

MeetingNext ==
  \E e \in Parties : Come(e) \/ Leave(e) \/ \E f \in Parties : Join(e, f)

MeetingSpec == MeetingInit /\ [][MeetingNext]_<<waits, pairs>>
=============================================================================
