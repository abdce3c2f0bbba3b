------------------------- MODULE MCRealtimeDelivery -------------------------
(* Instances of RealtimeDelivery for TLC: the guest of the session s1, and  *)
(* the panel of an agent who may show any session.                          *)
EXTENDS RealtimeDelivery, TLC

CONSTANTS guest, s1
MCShows == [p \in Pages |-> IF p = guest THEN {s1} ELSE Sessions]
\* Each page is set up twice.
MCMounts == [p \in Pages |-> 2]
=============================================================================
