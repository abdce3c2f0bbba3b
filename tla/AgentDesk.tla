----------------------------- MODULE AgentDesk -----------------------------
(***************************************************************************)
(* The agent's working page (LineAgentPage): the list of open sessions,    *)
(* the unread badges and the notices, kept up to date by a poll of the     *)
(* server's list and by the events of one socket, while the agent opens    *)
(* and reads conversations, other agents open others, guests write, and    *)
(* the same account is used on a second machine.  The answer of the list   *)
(* is put together by the server from two reads, and comes back some time  *)
(* after them: events and clicks fall in between.                          *)
(***************************************************************************)
EXTENDS Integers, Sequences, FiniteSets

CONSTANTS
    Sessions,
    Agents,
    me,             \* the account logged in on this page
    MaxMessages,    \* bound: guest messages per session
    MaxReads,       \* bound: read marks under way
    MaxEvents,      \* bound: events under way to the page
    MaxFaults,      \* bound: clicks whose requests fail, and lost connections
    None

ASSUME DeskAssumption ==
    /\ me \in Agents /\ None \notin Agents \cup Sessions
    /\ \A set \in SUBSET Sessions : set # None
    /\ MaxMessages \in Nat \ {0} /\ {MaxReads, MaxEvents, MaxFaults} \subseteq Nat

VARIABLES
    session,    \* the database: status, owner, guest messages, and how many of
                \* them had been stored when this account last read the session
    role,       \* the role of the account
    refresh,    \* the list request under way, and what the server has read for it
    reads,      \* requests of this page to mark a session read
    opening,    \* requests to open a session
    joins,      \* requests of the socket to join the room of a session
    rooms,      \* the sessions whose room the socket is in
    events,     \* events on their way to the page
    list, badge, known, active,     \* sessions, unreadConversations, knownWaitingIds, activeSessionsRef
    selected,
    looking,    \* the document is visible and has the focus
    faults,
    announced   \* how often the arrival of each session was announced

server  == <<session, role>>
network == <<joins, rooms, events>>
screen  == <<list, badge, known, active, selected, looking>>
vars == <<server, refresh, reads, opening, network, screen, faults, announced>>

Statuses == {"absent", "WAITING", "ACTIVE", "ENDED"}
Owners == Agents \cup {None}
Row == [status : Statuses, owner : Owners]
NoRow == [status |-> "absent", owner |-> None]
NoRows == [s \in Sessions |-> NoRow]
NoCounts == [s \in Sessions |-> 0]
Event == [kind : {"session"}, session : Sessions, row : Row]
           \cup [kind : {"message", "read"}, session : Sessions]
Idle == [phase |-> "idle", rows |-> NoRows, counts |-> NoCounts]

TypeOK ==
    /\ session \in [Sessions -> [status : Statuses, owner : Owners,
                                 messages : 0 .. MaxMessages, read : {None} \cup 0 .. MaxMessages]]
    /\ role \in {"AGENT", "ADMIN"}
    /\ refresh \in [phase : {"idle", "listed", "counted"}, rows : [Sessions -> Row],
                    counts : [Sessions -> 0 .. MaxMessages]]
    /\ reads \subseteq [session : Sessions, stamp : {None} \cup 0 .. MaxMessages]
    /\ opening \in [Sessions -> {"no", "asked", "granted", "refused"}]
    /\ joins \subseteq Sessions /\ rooms \subseteq Sessions /\ active \subseteq Sessions
    /\ events \in Seq(Event) /\ Len(events) <= MaxEvents
    /\ list \in [Sessions -> Row]
    /\ badge \in [Sessions -> 0 .. 2 * MaxMessages]
    /\ known = None \/ known \subseteq Sessions
    /\ selected \in Sessions \cup {None}
    /\ looking \in BOOLEAN
    /\ faults \in 0 .. MaxFaults
    /\ announced \in [Sessions -> Nat]

Init ==
    /\ session = [s \in Sessions |-> [status |-> "absent", owner |-> None, messages |-> 0, read |-> None]]
    /\ role \in {"AGENT", "ADMIN"}
    /\ refresh = Idle
    /\ reads = {}
    /\ opening = [s \in Sessions |-> "no"]
    /\ joins = {} /\ rooms = {} /\ events = <<>>
    /\ list = NoRows /\ badge = NoCounts /\ known = None /\ active = {}
    /\ selected = None /\ looking = TRUE
    /\ faults = 0
    /\ announced = NoCounts

-----------------------------------------------------------------------------
(* The server.                                                             *)

Open(s) == session[s].status \in {"WAITING", "ACTIVE"}
RowOf(s) == [status |-> session[s].status, owner |-> session[s].owner]

\* What list() returns for scope OPEN: an agent sees no session of another.
Visible(s) == Open(s) /\ (role = "ADMIN" \/ session[s].status = "WAITING" \/ session[s].owner = me)

\* canStaffReadSession, and authorizeRealtime for a room
MayRead(s) == role = "ADMIN" \/ session[s].owner = me \/ session[s].status = "ENDED"
MayJoin(s) == role = "ADMIN" \/ session[s].owner = me

\* A bug: the session itself counts as well as its messages.
CountsSession(s, status) ==
    session[s].messages - (IF session[s].read = None THEN 0 ELSE session[s].read)
        + (IF status = "WAITING" /\ session[s].read = None THEN 1 ELSE 0)
\* The messages after lastReadAt; a new session without any counts as one.
Unread(s, status) ==
    LET count == session[s].messages - (IF session[s].read = None THEN 0 ELSE session[s].read)
    IN IF status = "WAITING" /\ session[s].read = None /\ count = 0 THEN 1 ELSE count

\* Every staff socket gets the event.
Publish(e) ==
    /\ Len(events) < MaxEvents
    /\ events' = Append(events, e)
SessionEvent(s) == [kind |-> "session", session |-> s, row |-> RowOf(s)]

\* A session changes, and the staff is told.
Change(s, status, owner) ==
    /\ session' = [session EXCEPT ![s].status = status, ![s].owner = owner]
    /\ Publish([SessionEvent(s) EXCEPT !.row = [status |-> status, owner |-> owner]])

\* The inbox events of a new session and of a guest's message only ask for a
\* refresh, which the timer may do at any time.
GuestStarts(s) ==
    /\ session[s].status = "absent"
    /\ session' = [session EXCEPT ![s].status = "WAITING"]
    /\ UNCHANGED <<role, refresh, reads, opening, network, screen, faults, announced>>

GuestWrites(s) ==
    /\ Open(s) /\ session[s].messages < MaxMessages /\ Len(events) < MaxEvents
    /\ session' = [session EXCEPT ![s].messages = @ + 1]
    /\ events' = IF s \in rooms THEN Append(events, [kind |-> "message", session |-> s]) ELSE events
    /\ UNCHANGED <<role, refresh, reads, opening, joins, rooms, screen, faults, announced>>

\* Another agent opens it, or this account on another machine.
OpenedElsewhere(s, agent) ==
    /\ session[s].status = "WAITING"
    /\ Change(s, "ACTIVE", agent)
    /\ UNCHANGED <<role, refresh, reads, opening, joins, rooms, screen, faults, announced>>

\* The guest or its agent closes it, or its time is over.
Ends(s) ==
    /\ Open(s)
    /\ Change(s, "ENDED", session[s].owner)
    /\ UNCHANGED <<role, refresh, reads, opening, joins, rooms, screen, faults, announced>>

\* The other machine's mark, in one step: its delays are those of this one.
ReadElsewhere(s) ==
    /\ Open(s) /\ MayRead(s)
    /\ session' = [session EXCEPT ![s].read = session[s].messages]
    /\ Publish([kind |-> "read", session |-> s])
    /\ UNCHANGED <<role, refresh, reads, opening, joins, rooms, screen, faults, announced>>

\* list(): the rows first ...
Listed == [phase |-> "listed", counts |-> NoCounts,
           rows |-> [s \in Sessions |-> IF Visible(s) THEN RowOf(s) ELSE NoRow]]

\* ... then the messages unread, by another query.
Count ==
    /\ refresh.phase = "listed"
    /\ refresh' = [refresh EXCEPT !.phase = "counted",
                     !.counts = [s \in Sessions |-> IF refresh.rows[s] = NoRow THEN 0
                                                    ELSE Unread(s, refresh.rows[s].status)]]
    /\ UNCHANGED <<server, reads, opening, network, screen, faults, announced>>

\* markRead(): the time is taken, and stored by a later statement.
StampRead(r) ==
    /\ r.stamp = None
    /\ reads' = (reads \ {r}) \cup {[r EXCEPT !.stamp = session[r.session].messages]}
    /\ UNCHANGED <<server, refresh, opening, network, screen, faults, announced>>

StoreRead(r) ==
    /\ r.stamp # None
    /\ reads' = reads \ {r}
    /\ session' = [session EXCEPT ![r.session].read = r.stamp]
    /\ Publish([kind |-> "read", session |-> r.session])
    /\ UNCHANGED <<role, refresh, opening, joins, rooms, screen, faults, announced>>

\* open(): the first agent gets the session.
ServeOpen(s) ==
    /\ opening[s] = "asked"
    /\ \/ /\ session[s].status = "WAITING"
          /\ Change(s, "ACTIVE", me)
          /\ opening' = [opening EXCEPT ![s] = "granted"]
       \/ /\ session[s].status # "WAITING"
          /\ opening' = [opening EXCEPT ![s] =
               IF RowOf(s) = [status |-> "ACTIVE", owner |-> me] THEN "granted" ELSE "refused"]
          /\ UNCHANGED <<session, events>>
    /\ UNCHANGED <<role, refresh, reads, joins, rooms, screen, faults, announced>>

\* chat:join: the gateway asks authorizeRealtime who the session's agent is.
JoinServed(s) ==
    /\ s \in joins
    /\ joins' = joins \ {s}
    /\ rooms' = IF MayJoin(s) THEN rooms \cup {s} ELSE rooms
    /\ UNCHANGED <<server, refresh, reads, opening, events, screen, faults, announced>>

-----------------------------------------------------------------------------
(* The page.                                                               *)

\* refresh(): nothing happens while one is under way.  Nothing depends on the
\* time between the request and the server's first read.
StartRefresh == refresh' = IF refresh.phase = "idle" THEN Listed ELSE refresh

\* The timer of five seconds, an inbox event, or a report of the panel.
Poll ==
    /\ refresh.phase = "idle"
    /\ StartRefresh
    /\ UNCHANGED <<server, reads, opening, network, screen, faults, announced>>

WaitingIn(rows) == {s \in Sessions : rows[s].status = "WAITING"}
MineIn(rows) == {s \in Sessions : rows[s].status = "ACTIVE" /\ (role = "ADMIN" \/ rows[s].owner = me)}

\* A bug: a new session is one the screen does not show as waiting.
NotOnScreen(rows) == IF known = None THEN {} ELSE WaitingIn(rows) \ WaitingIn(list)
\* findNewWaitingSessions: the first list announces nothing.
NewWaiting(rows) == IF known = None THEN {} ELSE WaitingIn(rows) \ known

\* A bug: what the page has counted itself is kept.
KeepsLocal == [s \in Sessions |-> IF badge[s] > refresh.counts[s] THEN badge[s] ELSE refresh.counts[s]]
\* synchronizeUnreadConversations: the server's counts, which all machines share.
Synchronized == refresh.counts

\* The list has come: it replaces the rows and the badges on the page, asks to
\* join the rooms of the sessions in it (of a room it is in, without effect), and
\* announces what is new in it.
ListArrives ==
    /\ refresh.phase = "counted"
    /\ refresh' = Idle
    /\ list' = refresh.rows
    /\ badge' = Synchronized
    /\ known' = WaitingIn(refresh.rows)
    /\ active' = MineIn(refresh.rows)
    /\ joins' = joins \cup (active' \ rooms)
    /\ announced' = [s \in Sessions |-> announced[s] + (IF s \in NewWaiting(refresh.rows) THEN 1 ELSE 0)]
    /\ UNCHANGED <<server, reads, opening, rooms, events, selected, looking, faults>>

\* A bug: a failure leaves refreshInProgress set.
StillInProgress == [Idle EXCEPT !.phase = "failed"]
\* The finally of refresh().
Finished == Idle

\* What the page has stays on the screen.
RefreshFails ==
    /\ refresh.phase # "idle"
    /\ refresh' = Finished
    /\ UNCHANGED <<server, reads, opening, network, screen, faults, announced>>

\* markConversationReadShared: the badge goes at once, the server is asked.
MarkRead(s) ==
    /\ Cardinality(reads) < MaxReads
    /\ badge' = [badge EXCEPT ![s] = 0]
    /\ reads' = reads \cup {[session |-> s, stamp |-> None]}

\* A mark that fails is not tried again: the next list shows what is unread.
ReadFails(r) ==
    /\ faults < MaxFaults /\ faults' = faults + 1
    /\ reads' = reads \ {r}
    /\ StartRefresh
    /\ UNCHANGED <<server, opening, network, screen, announced>>

\* A bug: all that is in the list can be chosen.
AllListed == {s \in Sessions : list[s] # NoRow}
\* currentSessions
Current == WaitingIn(list) \cup MineIn(list)

Select(s) ==
    /\ selected' = s
    /\ MarkRead(s)
    /\ IF role = "AGENT" THEN StartRefresh ELSE UNCHANGED refresh

\* choose() of a session that needs no opening: an administrator's, or an
\* agent's own.
Choose(s) ==
    /\ looking /\ s \in Current /\ (role = "ADMIN" \/ list[s].status # "WAITING")
    /\ Select(s)
    /\ UNCHANGED <<server, opening, network, list, known, active, looking, faults, announced>>

\* choose() of a session that waits: it is opened first.
ChooseWaiting(s) ==
    /\ role = "AGENT" /\ looking /\ s \in Current /\ list[s].status = "WAITING"
    /\ opening[s] = "no"
    /\ opening' = [opening EXCEPT ![s] = "asked"]
    /\ UNCHANGED <<server, refresh, reads, network, screen, faults, announced>>

Opened(s) ==
    /\ opening[s] = "granted"
    /\ opening' = [opening EXCEPT ![s] = "no"]
    /\ Select(s)
    /\ UNCHANGED <<server, network, list, known, active, looking, faults, announced>>

\* Someone else was first, or the request failed.
NotOpened(s) ==
    /\ \/ opening[s] = "refused" /\ UNCHANGED faults
       \/ opening[s] # "no" /\ faults < MaxFaults /\ faults' = faults + 1
    /\ opening' = [opening EXCEPT ![s] = "no"]
    /\ StartRefresh
    /\ UNCHANGED <<server, reads, network, screen, announced>>

\* changeMode, showWaitingList: the log has no badges, and no conversation of
\* the log counts as viewed.
Deselect ==
    /\ looking /\ selected # None /\ selected' = None
    /\ UNCHANGED <<server, refresh, reads, opening, network, list, badge, known, active,
                   looking, faults, announced>>

LookAway ==
    /\ looking /\ looking' = FALSE
    /\ UNCHANGED <<server, refresh, reads, opening, network, list, badge, known, active,
                   selected, faults, announced>>

\* markVisibleConversationRead
LookBack ==
    /\ ~looking /\ looking' = TRUE
    /\ IF selected # None /\ badge[selected] > 0
       THEN MarkRead(selected) ELSE UNCHANGED <<badge, reads>>
    /\ UNCHANGED <<server, refresh, opening, network, list, known, active, selected,
                   faults, announced>>

Viewing(s) == selected = s /\ looking

\* applyRealtimeSession: only a session the list has is changed.
SessionArrives ==
    /\ events # <<>> /\ Head(events).kind = "session"
    /\ LET e == Head(events) IN
       list' = IF list[e.session] = NoRow THEN list ELSE [list EXCEPT ![e.session] = e.row]
    /\ events' = Tail(events)
    /\ UNCHANGED <<server, refresh, reads, opening, joins, rooms, badge, known, active,
                   selected, looking, faults, announced>>

\* chat:session-read, of this machine or the other
ReadArrives ==
    /\ events # <<>> /\ Head(events).kind = "read"
    /\ badge' = [badge EXCEPT ![Head(events).session] = 0]
    /\ events' = Tail(events)
    /\ UNCHANGED <<server, refresh, reads, opening, joins, rooms, list, known, active,
                   selected, looking, faults, announced>>

\* chat:message of a guest
MessageArrives ==
    /\ events # <<>> /\ Head(events).kind = "message"
    /\ events' = Tail(events)
    /\ LET s == Head(events).session IN
       CASE s \notin active -> UNCHANGED <<badge, reads>>
         [] s \in active /\ Viewing(s) -> MarkRead(s)
         [] OTHER -> badge' = [badge EXCEPT ![s] = @ + 1] /\ UNCHANGED reads
    /\ UNCHANGED <<server, refresh, opening, joins, rooms, list, known, active,
                   selected, looking, faults, announced>>

\* The socket loses its connection with what is on the way, and connects again: its
\* handler asks to join the rooms of the last list.  An event of the time between is
\* one that was on the way; and of a list that comes in it, the joins are those that
\* the handler asks for.
Reconnect ==
    /\ faults < MaxFaults /\ faults' = faults + 1
    /\ events' = <<>>
    /\ rooms' = {} /\ joins' = active
    /\ UNCHANGED <<server, refresh, reads, opening, screen, announced>>

-----------------------------------------------------------------------------
Deliver == SessionArrives \/ ReadArrives \/ MessageArrives
Serve(r) == StampRead(r) \/ StoreRead(r)
Opening(s) == ServeOpen(s) \/ Opened(s) \/ NotOpened(s)

Elsewhere(s) ==
    \/ GuestStarts(s) \/ GuestWrites(s) \/ Ends(s) \/ ReadElsewhere(s)
    \/ \E a \in Agents : OpenedElsewhere(s, a)

Agent ==
    \/ \E s \in Sessions : Choose(s) \/ ChooseWaiting(s)
    \/ Deselect \/ LookAway \/ LookBack

Next ==
    \/ \E s \in Sessions : Elsewhere(s) \/ Opening(s) \/ JoinServed(s)
    \/ \E r \in reads : Serve(r) \/ ReadFails(r)
    \/ Poll \/ Count \/ ListArrives \/ RefreshFails
    \/ Agent \/ Deliver \/ Reconnect

(* The timer fires, the server answers, though requests may fail, a refresh *)
(* that is tried again and again gets through some time, and the socket     *)
(* delivers; nothing makes an agent or a guest do anything.                 *)
Spec ==
    /\ Init /\ [][Next]_vars
    /\ WF_vars(Poll) /\ SF_vars(Count) /\ SF_vars(ListArrives) /\ WF_vars(Deliver)
    /\ \A s \in Sessions : WF_vars(Opening(s)) /\ WF_vars(JoinServed(s))
    /\ WF_vars(\E r \in reads : Serve(r))

-----------------------------------------------------------------------------
(* An agent has on the screen a conversation of their own, or one of the    *)
(* log: an old list, and a click on a session that another agent opens in   *)
(* the same moment, show nobody else's.                                     *)
OnlyOwnConversations ==
    role = "AGENT" /\ selected # None =>
        session[selected].owner = me \/ session[selected].status = "ENDED"

(* A session that comes after the page's first list is announced, unless   *)
(* it is taken, or over, before; and none is announced twice.               *)
NewSessionIsAnnouncedOnce ==
    /\ [](\A s \in Sessions : announced[s] <= 1)
    /\ \A s \in Sessions :
        session[s].status = "WAITING" /\ known # None /\ s \notin known
              ~> announced[s] > 0 \/ session[s].status # "WAITING"

(* However requests, events and clicks are mixed, the list on the screen    *)
(* becomes the server's, and the unread badges become the server's counts,  *)
(* though the page counts messages, clears badges and overwrites them with  *)
(* answers that are older, and another machine of the account reads too;    *)
(* and the socket, though it has lost its connection, comes to be in the    *)
(* room of every session whose messages the page counts.                    *)
DeskConverges ==
    <>[](/\ list = [s \in Sessions |-> IF Visible(s) THEN RowOf(s) ELSE NoRow]
         /\ badge = [s \in Sessions |-> IF Visible(s) THEN Unread(s, session[s].status) ELSE 0]
         /\ MineIn(list) \subseteq rooms)
=============================================================================
