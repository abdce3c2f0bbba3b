--------------------------- MODULE MCAdminConsole ---------------------------
(* Instances of AdminConsole for TLC: two hotels, the first with both rooms,*)
(* and two consultations of it.                                              *)
EXTENDS AdminConsole

CONSTANTS h1, l1
MCRoomHotel == [r \in Rooms |-> h1]
MCLogRoom == [l \in Logs |-> IF l = l1 THEN 1 ELSE 2]

(* The lists made by Kept and Ascending are those that the operators of the *)
(* libraries make, which the proofs cannot expand.                          *)
ASSUME ListsAreTheUsual ==
    /\ \A n \in 0 .. 4 : \A list \in [1 .. n -> 1 .. 3], S \in SUBSET (1 .. 3) :
          Kept(list, S) = SelectSeq(list, LAMBDA x : x \in S)
    /\ \A S \in SUBSET (1 .. 5) : Ascending(S) = SetToSortSeq(S, <)
=============================================================================
