--------------------------- MODULE MCChatSessions ---------------------------
(* Instances of ChatSessions for TLC. *)
EXTENDS ChatSessions, TLC

RequestSymmetry == Permutations(Requests)

=============================================================================
