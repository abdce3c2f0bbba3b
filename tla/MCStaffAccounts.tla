-------------------------- MODULE MCStaffAccounts --------------------------
(* Instances of StaffAccounts for TLC: an administrator who is there from   *)
(* the start, and an agent that is created, disabled and deleted.           *)
EXTENDS StaffAccounts, TLC

CONSTANTS admin, t1
MCRole == [a \in Accounts |-> IF a = admin THEN "ADMIN" ELSE "AGENT"]
MCLoginId == [a \in Accounts |-> IF a = admin THEN "boss" ELSE "desk"]
\* The administrator signs in at both tabs, the agent at t1, whose page polls.
MCUsers == [t \in Tabs |-> IF t = t1 THEN Accounts ELSE {admin}]
=============================================================================
