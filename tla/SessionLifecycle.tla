-------------------------- MODULE SessionLifecycle --------------------------
(***************************************************************************)
(* What the server promises of a consultation, with each promise kept in   *)
(* one step: one open consultation per room, one owner, a time window that *)
(* starts once, an end that is final.  ChatSessions, where the same        *)
(* decisions take several statements of several handlers, implements it.   *)
(*                                                                         *)
(* The contract is the code's, not an ideal: the end of a session is final *)
(* but the way it ended is not, see Restate.                               *)
(***************************************************************************)
CONSTANTS Rooms, Sessions, Agents, None

VARIABLE session   \* what a reader of the table sees of each session

Open == {"WAITING", "ACTIVE"}
Terminal == {"CLOSED", "EXPIRED"}

View == [room: Rooms \cup {None},
         status: Open \cup Terminal \cup {"UNUSED", "DELETED"},
         agent: Agents \cup {None},
         timed: BOOLEAN]

Nothing(status) == [room |-> None, status |-> status, agent |-> None,
                    timed |-> FALSE]

OpenIn(room) == {s \in Sessions : session[s].status \in Open /\ session[s].room = room}

Init ==
    /\ session \in [Sessions -> View]
    /\ \A s \in Sessions :
          \/ session[s] = Nothing("UNUSED")
          \/ /\ session[s].status = "WAITING"
             /\ session[s].agent = None
             /\ ~session[s].timed
          \/ /\ session[s].status = "ACTIVE"
             /\ ~session[s].timed
    /\ \A s, t \in Sessions :
          session[s].status \in Open /\ t \in OpenIn(session[s].room) => s = t

Create(s, room) ==
    /\ session[s].status = "UNUSED"
    /\ OpenIn(room) = {}
    /\ session' = [session EXCEPT ![s] =
                     [Nothing("WAITING") EXCEPT !.room = room]]

Assign(s, a) ==
    /\ session[s].status = "WAITING"
    /\ session[s].agent = None
    /\ session' = [session EXCEPT ![s].status = "ACTIVE", ![s].agent = a]

\* The owner's first reply starts the window, never a second time.
FirstReply(s) ==
    /\ session[s].status = "ACTIVE"
    /\ session[s].agent # None
    /\ ~session[s].timed
    /\ session' = [session EXCEPT ![s].timed = TRUE]

\* Someone closes the session, or its window has passed.
End(s, status) ==
    /\ session[s].status \in Open
    /\ status \in Terminal
    /\ status = "EXPIRED" => session[s].status = "ACTIVE" /\ session[s].timed
    /\ session' = [session EXCEPT ![s].status = status]

\* The agent's close and the expiry of a late request write by id alone, so
\* the record of an end can be replaced by another end.
Restate(s, status) ==
    /\ session[s].status \in Terminal
    /\ status \in Terminal
    /\ status = "EXPIRED" => session[s].timed
    /\ session' = [session EXCEPT ![s].status = status]

Unassign(a) ==
    session' = [s \in Sessions |->
        IF session[s].agent = a THEN [session[s] EXCEPT !.agent = None]
        ELSE session[s]]

\* A room goes with all its sessions; old history goes session by session.
Remove(gone) ==
    /\ \/ \A s \in gone : session[s].status \in Terminal
       \/ \E room \in Rooms : gone = {s \in Sessions : session[s].room = room}
    /\ session' = [s \in Sessions |-> IF s \in gone THEN Nothing("DELETED")
                                      ELSE session[s]]

Next ==
    \/ \E s \in Sessions, room \in Rooms : Create(s, room)
    \/ \E s \in Sessions, a \in Agents : Assign(s, a)
    \/ \E s \in Sessions : FirstReply(s)
    \/ \E s \in Sessions, status \in Terminal : End(s, status) \/ Restate(s, status)
    \/ \E a \in Agents : Unassign(a)
    \/ \E gone \in SUBSET Sessions : Remove(gone)

Spec == Init /\ [][Next]_session

=============================================================================
