---------------------------- MODULE ChatSessions ----------------------------
(***************************************************************************)
(* The server's core: the life of a consultation row (ChatSession) and the *)
(* storing of its messages, as ChatSessionsService and MessagesService     *)
(* perform them on PostgreSQL through Prisma.                              *)
(*                                                                         *)
(* A process is one request handler running on the event loop, or the five *)
(* second expiry timer.  Every `await` of a handler ends a step, so that   *)
(* other handlers run between a read and the write decided from it; the    *)
(* copy of the row the handler read is kept in local[p].seen.  One SQL     *)
(* statement is one step; the interactive transaction of a message is      *)
(* several, and holds a row lock from its first update to its commit.      *)
(* Publishing a session event is a step apart from the statement whose     *)
(* answer it carries: answers come back on different pooled connections.   *)
(***************************************************************************)
EXTENDS Integers, FiniteSets, Functions

CONSTANTS
    Rooms,      \* rooms of the hotels
    Sessions,   \* ids a ChatSession row can get (UUIDs, never reused)
    Prior,      \* sessions that exist when the behaviour starts, WAITING
    Opened,     \* those of them an agent has opened, not yet replied to
    Agents,     \* staff accounts with role AGENT
    Requests,   \* request handlers; each serves one call
    Keys,       \* clientMessageIds chosen by the clients
    Ops,        \* what clients, administrators and the environment may do
    D,          \* SESSION_DURATION_MS, in clock units
    Retention,  \* CHAT_RETENTION_MS, in clock units
    MaxTime,    \* bound of the clock
    MaxCrashes, \* bound of server restarts
    Timer,      \* the expiry timer's process
    Admin,      \* a staff account with role ADMIN
    Guest,      \* the guest who holds the session's token
    None        \* SQL NULL for references

AllOps == {"create", "open", "close", "closeByGuest", "read", "list", "save",
           "deleteRoom", "deleteAgent", "retention", "crash"}

ASSUME ConstantsAssumption ==
    /\ Prior \subseteq Sessions
    /\ Opened \subseteq Prior
    /\ D \in Nat \ {0}
    /\ Retention \in Nat \ {0}
    /\ MaxTime \in Nat
    /\ MaxCrashes \in Nat
    /\ Ops \subseteq AllOps
    /\ Timer \notin Requests
    /\ Admin \notin Agents
    /\ Guest \notin Agents \cup {Admin}
    /\ None \notin Agents \cup Rooms \cup Sessions \cup Keys
                   \cup Requests \cup {Timer, Admin, Guest}

VARIABLES
    now,       \* the server's clock, new Date()
    rows,      \* table ChatSession
    messages,  \* table Message, committed rows
    lock,      \* the transaction holding a session's row lock
    staff,     \* agents whose Agent row still exists
    rooms,     \* rooms whose Room row still exists
    feed,      \* the last session event published to a session's clients
    crashes,   \* restarts so far
    pc,        \* where each process is
    call,      \* what each process was asked to do
    local      \* each handler's local variables

db == <<rows, messages, lock, staff, rooms>>
vars == <<now, rows, messages, lock, staff, rooms, feed, crashes,
          pc, call, local>>

Procs == Requests \cup {Timer}

-----------------------------------------------------------------------------
(* Rows, messages, events and the policies that judge them. *)

NoTime == -1
Welcome == "hotel-welcome"

Open == {"WAITING", "ACTIVE"}
Terminal == {"CLOSED", "EXPIRED"}
Status == Open \cup Terminal \cup {"UNUSED", "DELETED"}
Reason == {"AGENT_CLOSED", "GUEST_CLOSED", "TIME_LIMIT", "NULL"}
Time == Nat \cup {NoTime}

Row == [room: Rooms \cup {None}, status: Status, agent: Agents \cup {None},
        startedAt: Time, expiresAt: Time, closedAt: Time,
        closeReason: Reason, lastActivityAt: Time]

\* No row with this id: not created yet, or deleted.
AbsentRow(status) ==
    [room |-> None, status |-> status, agent |-> None, startedAt |-> NoTime,
     expiresAt |-> NoTime, closedAt |-> NoTime, closeReason |-> "NULL",
     lastActivityAt |-> NoTime]

NewRow(room, t) ==
    [AbsentRow("WAITING") EXCEPT !.room = room, !.lastActivityAt = t]

Present(s) == rows[s].status \in Open \cup Terminal
OpenIn(room) == {s \in Sessions : rows[s].status \in Open /\ rows[s].room = room}

IsSessionExpired(expiresAt, t) == expiresAt # NoTime /\ expiresAt <= t
\* A bug: null <= Date is true in JavaScript.
LapsedWithoutTimer(row, t) == row.status = "ACTIVE" /\ row.expiresAt <= t

Lapsed(row, t) == row.status = "ACTIVE" /\ IsSessionExpired(row.expiresAt, t)

Expire(row, t) ==
    [row EXCEPT !.status = "EXPIRED", !.closedAt = t, !.closeReason = "TIME_LIMIT"]
Assign(row, agent) ==
    [row EXCEPT !.status = "ACTIVE", !.agent = agent,
                !.startedAt = NoTime, !.expiresAt = NoTime]

\* A bug: the reason written to the wrong column.
CloseSwapsColumns(row, t, reason) ==
    [row EXCEPT !.status = reason, !.closedAt = t, !.closeReason = "NULL"]

Close(row, t, reason) ==
    [row EXCEPT !.status = "CLOSED", !.closedAt = t, !.closeReason = reason]

\* What the conditional statements demand of the row they find (each after the
\* same demand forgotten, a bug the properties below tell apart).
AnyRow(row) == TRUE
Unopened(row) == row.status = "WAITING" /\ row.agent = None

StillOpen(row) == row.status \in Open

AssignedTo(row, by) == row.status = "ACTIVE" /\ row.agent = by
TimerUnset(row, by) ==
    row.status = "ACTIVE" /\ row.agent = by /\ row.expiresAt = NoTime

AnyRoom(room) == TRUE
RoomIsFree(room) == OpenIn(room) = {}

\* What a message's transaction writes; a bug would take the commit's time.
TouchedNow(row, t) == [row EXCEPT !.lastActivityAt = now]
Touched(row, t) == [row EXCEPT !.lastActivityAt = t]

StartedNow(row, t) == [row EXCEPT !.startedAt = now, !.expiresAt = now + D]
Started(row, t) == [row EXCEPT !.startedAt = t, !.expiresAt = t + D]

CanOpen(row, by) == \/ row.status = "WAITING" /\ row.agent = None
                    \/ row.status = "ACTIVE" /\ row.agent = by

CanStaffRead(row, by) == \/ by = Admin \/ row.agent = by
                         \/ row.status \in Terminal

IsSender(by, agent) == by = Guest \/ by = agent

IsSessionWritable(status, expiresAt, by, t) ==
    \/ by = Guest /\ status = "WAITING"
    \/ by = Guest /\ status = "ACTIVE" /\ expiresAt = NoTime
    \/ status = "ACTIVE" /\ expiresAt # NoTime /\ t < expiresAt

View(kind, row) == [kind |-> kind, status |-> row.status,
                    expiresAt |-> row.expiresAt]
NoView == [kind |-> "none", status |-> "UNUSED", expiresAt |-> NoTime]

WelcomeMessage(s, t) ==
    [id |-> s, s |-> s, key |-> Welcome, by |-> None, at |-> t]
StoredAs(s, key) == {m \in messages : m.s = s /\ m.key = key}

\* The unique index on (sessionId, clientMessageId), after a bug without it.
AnyKey(s, key) == TRUE
KeyIsFree(s, key) == StoredAs(s, key) = {}

-----------------------------------------------------------------------------
(* Processes. *)

Results == {"ok", "duplicate", "conflict", "refused", "notFound", "error",
            "lost"}

NoCall == [op |-> "none", s |-> None, by |-> None, key |-> None, room |-> None]
Blank == [seen |-> AbsentRow("UNUSED"), again |-> FALSE, at |-> NoTime,
          born |-> NoTime, due |-> {}]

Leave(p, result) ==
    /\ pc' = [pc EXCEPT ![p] = result]
    /\ local' = [local EXCEPT ![p] = Blank]

\* Labels whose step still uses the copy of the row: it is published, or
\* judged after having been expired.  Elsewhere the label is all that is left
\* of what was read.
Carrying == {"expired", "saveExpired", "announceOpened", "announceClosed",
             "announceTimer"}

\* Next label of a handler that has `row` at hand; a result label ends it.
Goto(p, label, row) ==
    IF label \in Results
    THEN Leave(p, label)
    ELSE /\ pc' = [pc EXCEPT ![p] = label]
         /\ local' = [local EXCEPT ![p].seen =
                        IF label \in Carrying THEN row ELSE Blank.seen]

Unlocked(s) == lock[s] = None
HoldsLock(p) == lock[call[p].s] = p
\* A bug: a transaction that is never ended.
ReleaseNothing(p) == UNCHANGED lock

Release(p) == lock' = [s \in Sessions |-> IF lock[s] = p THEN None ELSE lock[s]]

\* A bug: the closed event is not sent.
PublishUpdates(s, kind, row) ==
    feed' = IF kind = "updated" THEN [feed EXCEPT ![s] = View(kind, row)] ELSE feed
Publish(s, kind, row) == feed' = [feed EXCEPT ![s] = View(kind, row)]

-----------------------------------------------------------------------------
(* ChatSessionsService.findOrThrow, and what each caller does with the row. *)

\* The continuation of a handler once findOrThrow returned `row`.
AfterFind(c, again, row) ==
    CASE c.op = "open" /\ ~again ->
            IF ~CanOpen(row, c.by) THEN "conflict"
            ELSE IF row.status = "ACTIVE" THEN "ok" ELSE "openUpdate"
      [] c.op = "open" /\ again ->
            IF CanStaffRead(row, c.by) THEN "announceOpened" ELSE "refused"
      [] c.op = "close" ->
            IF c.by # Admin /\ row.agent # c.by THEN "refused"
            ELSE IF row.status \in Open THEN "closeUpdate" ELSE "conflict"
      [] c.op = "closeByGuest" /\ ~again ->
            IF row.status \in Open THEN "guestCloseUpdate" ELSE "conflict"
      [] c.op = "read" -> "ok"
      [] OTHER -> "announceClosed"

\* The query; an ACTIVE row past its time is first turned EXPIRED.
Find(p) ==
    /\ pc[p] = "find"
    /\ Present(call[p].s)
    /\ LET row == rows[call[p].s]
       IN  Goto(p, IF Lapsed(row, now) THEN "expire"
                   ELSE AfterFind(call[p], local[p].again, row), row)
    /\ UNCHANGED <<now, db, feed, crashes, call>>

FindNothing(p) ==
    /\ pc[p] = "find"
    /\ p # Timer
    /\ ~Present(call[p].s)
    /\ Leave(p, "notFound")
    /\ UNCHANGED <<now, db, feed, crashes, call>>

\* update({ where: { id } }): whatever the row has become since the query.
FindExpires(p) ==
    /\ pc[p] = "expire"
    /\ Unlocked(call[p].s)
    /\ LET s == call[p].s
           row == Expire(rows[s], now)
       IN  IF Present(s)
           THEN /\ rows' = [rows EXCEPT ![s] = row]
                /\ Goto(p, "expired", row)
           ELSE Leave(p, "error") /\ UNCHANGED rows
    /\ UNCHANGED <<now, messages, lock, staff, rooms, feed, crashes, call>>

AnnounceExpired(p) ==
    /\ pc[p] = "expired"
    /\ Publish(call[p].s, "closed", local[p].seen)
    /\ Goto(p, AfterFind(call[p], local[p].again, local[p].seen), local[p].seen)
    /\ UNCHANGED <<now, db, crashes, call>>

-----------------------------------------------------------------------------
(* create: look for an open session of the room, then insert. *)

CreateCheck(p) ==
    /\ pc[p] = "createCheck"
    /\ Goto(p, IF call[p].room \notin rooms THEN "refused"
               ELSE IF OpenIn(call[p].room) # {} THEN "conflict"
               ELSE "createInsert", local[p].seen)
    /\ UNCHANGED <<now, db, feed, crashes, call>>

\* The partial unique index refuses a second open session of the room.
CreateInsert(p) ==
    /\ pc[p] = "createInsert"
    /\ LET room == call[p].room
       IN  IF room \in rooms /\ RoomIsFree(room)
           THEN \E s \in Sessions :
                  /\ rows[s].status = "UNUSED"
                  /\ rows' = [rows EXCEPT ![s] = NewRow(room, now)]
                  /\ messages' = messages \cup {WelcomeMessage(s, now)}
                  /\ call' = [call EXCEPT ![p].s = s]
                  /\ Leave(p, "ok")
           ELSE /\ Leave(p, IF room \in rooms THEN "conflict" ELSE "error")
                /\ UNCHANGED <<rows, messages, call>>
    /\ UNCHANGED <<now, lock, staff, rooms, feed, crashes>>

-----------------------------------------------------------------------------
(* open, close and closeByGuest, after their findOrThrow. *)

OpenUpdate(p) ==
    /\ pc[p] = "openUpdate"
    /\ Unlocked(call[p].s)
    /\ LET s == call[p].s
       IN  IF Unopened(rows[s]) /\ call[p].by \in staff
           THEN /\ rows' = [rows EXCEPT ![s] = Assign(@, call[p].by)]
                /\ pc' = [pc EXCEPT ![p] = "find"]
                /\ local' = [local EXCEPT ![p].again = TRUE]
           ELSE /\ Leave(p, IF Unopened(rows[s]) THEN "error" ELSE "conflict")
                /\ UNCHANGED rows
    /\ UNCHANGED <<now, messages, lock, staff, rooms, feed, crashes, call>>

AnnounceOpened(p) ==
    /\ pc[p] = "announceOpened"
    /\ Publish(call[p].s, "updated", local[p].seen)
    /\ Leave(p, "ok")
    /\ UNCHANGED <<now, db, crashes, call>>

\* update({ where: { id } }): the status was judged on the earlier copy.
CloseUpdate(p) ==
    /\ pc[p] = "closeUpdate"
    /\ Unlocked(call[p].s)
    /\ LET s == call[p].s
           row == Close(rows[s], now, "AGENT_CLOSED")
       IN  IF Present(s)
           THEN /\ rows' = [rows EXCEPT ![s] = row]
                /\ Goto(p, "announceClosed", row)
           ELSE Leave(p, "error") /\ UNCHANGED rows
    /\ UNCHANGED <<now, messages, lock, staff, rooms, feed, crashes, call>>

GuestCloseUpdate(p) ==
    /\ pc[p] = "guestCloseUpdate"
    /\ Unlocked(call[p].s)
    /\ LET s == call[p].s
       IN  IF StillOpen(rows[s])
           THEN /\ rows' = [rows EXCEPT ![s] = Close(@, now, "GUEST_CLOSED")]
                /\ pc' = [pc EXCEPT ![p] = "find"]
                /\ local' = [local EXCEPT ![p].again = TRUE]
           ELSE Leave(p, "conflict") /\ UNCHANGED rows
    /\ UNCHANGED <<now, messages, lock, staff, rooms, feed, crashes, call>>

\* The closed event; a sweep then turns to its next due session.
AnnounceClosed(p) ==
    /\ pc[p] = "announceClosed"
    /\ Publish(call[p].s, "closed", local[p].seen)
    /\ IF call[p].op \in {"sweep", "list"}
       THEN /\ pc' = [pc EXCEPT ![p] = "sweep"]
            /\ local' = [local EXCEPT ![p].seen = Blank.seen, ![p].again = FALSE]
       ELSE Leave(p, "ok")
    /\ UNCHANGED <<now, db, crashes, call>>

-----------------------------------------------------------------------------
(* expireDueSessions: by the timer, and before a list is read. *)

DueAt(t) == {s \in Sessions : Lapsed(rows[s], t)}

\* setInterval fires; a sweep with nothing due does nothing and is left out.
TimerFails(p) == FALSE
TimerFires(p) == p = Timer /\ pc[p] = "idle" /\ DueAt(now) # {}

SweepSelect(p) ==
    /\ pc[p] = "sweepSelect" \/ TimerFires(p)
    /\ pc' = [pc EXCEPT ![p] = "sweep"]
    /\ local' = [local EXCEPT ![p].at = now, ![p].due = DueAt(now)]
    /\ UNCHANGED <<now, db, feed, crashes, call>>

SweepExpires(p) ==
    /\ pc[p] = "sweep"
    /\ \E s \in local[p].due :
         /\ Unlocked(s)
         /\ IF Lapsed(rows[s], local[p].at)
            THEN /\ rows' = [rows EXCEPT ![s] = Expire(@, local[p].at)]
                 /\ call' = [call EXCEPT ![p].s = s]
                 /\ pc' = [pc EXCEPT ![p] = "find"]
                 /\ local' = [local EXCEPT ![p].due = @ \ {s}, ![p].again = TRUE]
            ELSE /\ local' = [local EXCEPT ![p].due = @ \ {s}]
                 /\ UNCHANGED <<rows, call, pc>>
    /\ UNCHANGED <<now, messages, lock, staff, rooms, feed, crashes>>

SweepDone(p) ==
    /\ pc[p] = "sweep"
    /\ local[p].due = {}
    /\ Leave(p, IF p = Timer THEN "idle" ELSE "ok")
    /\ call' = [call EXCEPT ![p].s = None]
    /\ UNCHANGED <<now, db, feed, crashes>>

-----------------------------------------------------------------------------
(* MessagesService.save.  pc "saveRead" to "saveDone" before the transaction, *)
(* "tx..." inside it.  The row lock is held from the timer's update to the    *)
(* commit; a message inserted by a transaction in "txCommit" is uncommitted.  *)

IsAgent(by) == by \in Agents

\* The checks made on the copy of the row; status is the effective status.
SaveJudges(c, status, row) ==
    IF ~IsSender(c.by, row.agent) THEN "refused"
    ELSE IF IsAgent(c.by) /\ status = "ACTIVE" /\ row.expiresAt = NoTime
         THEN "txBegin"
    ELSE IF IsSessionWritable(status, row.expiresAt, c.by, now)
         THEN "txInsert" ELSE "conflict"

SaveRead(p) ==
    /\ pc[p] = "saveRead"
    /\ LET row == rows[call[p].s]
       IN  Goto(p, IF ~Present(call[p].s) THEN "refused"
                   ELSE IF Lapsed(row, now) THEN "saveExpire"
                   ELSE SaveJudges(call[p], row.status, row), row)
    /\ UNCHANGED <<now, db, feed, crashes, call>>

\* The late message's request expires the row, again by id alone.
SaveExpires(p) ==
    /\ pc[p] = "saveExpire"
    /\ Unlocked(call[p].s)
    /\ LET s == call[p].s
           row == Expire(rows[s], now)
       IN  IF Present(s)
           THEN /\ rows' = [rows EXCEPT ![s] = row]
                /\ Goto(p, "saveExpired", row)
           ELSE Leave(p, "error") /\ UNCHANGED rows
    /\ UNCHANGED <<now, messages, lock, staff, rooms, feed, crashes, call>>

SaveAnnouncesExpiry(p) ==
    /\ pc[p] = "saveExpired"
    /\ Publish(call[p].s, "closed", local[p].seen)
    /\ Leave(p, IF IsSender(call[p].by, local[p].seen.agent)
                THEN "conflict" ELSE "refused")
    /\ UNCHANGED <<now, db, crashes, call>>

\* startedAt = new Date(), before the statement that may wait for the lock.
TxBegin(p) ==
    /\ pc[p] = "txBegin"
    /\ pc' = [pc EXCEPT ![p] = "txTimer"]
    /\ local' = [local EXCEPT ![p].at = now]
    /\ UNCHANGED <<now, db, feed, crashes, call>>

TxTimer(p) ==
    /\ pc[p] = "txTimer"
    /\ Unlocked(call[p].s)
    /\ LET s == call[p].s
           c == call[p]
           expiresAt == local[p].at + D
       IN  IF TimerUnset(rows[s], c.by)
           THEN IF IsSessionWritable("ACTIVE", expiresAt, c.by, now)
                THEN /\ lock' = [lock EXCEPT ![s] = p]
                     /\ pc' = [pc EXCEPT ![p] = "txInsert"]
                     /\ UNCHANGED local
                ELSE Leave(p, "conflict") /\ UNCHANGED lock
           ELSE /\ pc' = [pc EXCEPT ![p] = "txLatest"]
                /\ UNCHANGED <<lock, local>>
    /\ UNCHANGED <<now, rows, messages, staff, rooms, feed, crashes, call>>

\* Another first reply started the timer: share its window.
TxLatest(p) ==
    /\ pc[p] = "txLatest"
    /\ LET c == call[p]
           row == rows[c.s]
       IN  Goto(p, IF ~Present(c.s) \/ ~IsSender(c.by, row.agent) THEN "refused"
                   ELSE IF IsSessionWritable(row.status, row.expiresAt, c.by, now)
                   THEN "txInsert" ELSE "conflict", local[p].seen)
    /\ UNCHANGED <<now, db, feed, crashes, call>>

\* message.create: the unique index waits for an uncommitted rival, and an
\* existing message rolls the transaction back.
TxInsert(p) ==
    /\ pc[p] = "txInsert"
    /\ LET c == call[p]
       IN  /\ \A q \in Requests : pc[q] = "txCommit" =>
                  <<call[q].s, call[q].key>> # <<c.s, c.key>>
           /\ IF Present(c.s) /\ KeyIsFree(c.s, c.key)
              THEN /\ pc' = [pc EXCEPT ![p] = "txCommit"]
                   /\ local' = [local EXCEPT ![p].born = now]
                   /\ UNCHANGED lock
              ELSE /\ Goto(p, IF Present(c.s) THEN "saveExisting" ELSE "error",
                           local[p].seen)
                   /\ Release(p)
    /\ UNCHANGED <<now, rows, messages, staff, rooms, feed, crashes, call>>

\* The update of lastActivityAt, and the commit.
TxCommit(p) ==
    /\ pc[p] = "txCommit"
    /\ Unlocked(call[p].s) \/ HoldsLock(p)
    /\ LET c == call[p]
           l == local[p]
           row == Touched(rows[c.s], l.born)
       IN  /\ rows' = [rows EXCEPT ![c.s] =
                         IF HoldsLock(p) THEN Started(row, l.at) ELSE row]
           /\ messages' = messages \cup
                {[id |-> p, s |-> c.s, key |-> c.key, by |-> c.by, at |-> l.born]}
           /\ Goto(p, IF HoldsLock(p) THEN "reread" ELSE "ok", l.seen)
           /\ Release(p)
    /\ UNCHANGED <<now, staff, rooms, feed, crashes, call>>

Reread(p) ==
    /\ pc[p] = "reread"
    /\ Goto(p, IF Present(call[p].s) THEN "announceTimer" ELSE "ok",
            rows[call[p].s])
    /\ UNCHANGED <<now, db, feed, crashes, call>>

AnnounceTimer(p) ==
    /\ pc[p] = "announceTimer"
    /\ Publish(call[p].s, "updated", local[p].seen)
    /\ Leave(p, "ok")
    /\ UNCHANGED <<now, db, crashes, call>>

SaveExisting(p) ==
    /\ pc[p] = "saveExisting"
    /\ Leave(p, IF StoredAs(call[p].s, call[p].key) # {}
                THEN "duplicate" ELSE "error")
    /\ UNCHANGED <<now, db, feed, crashes, call>>

-----------------------------------------------------------------------------
(* Calls, as the controllers and the gateway hand them over: staff of a     *)
(* request are verified against the Agent table first, a socket's identity  *)
(* was verified when it connected.                                          *)

Receive(p, c, label) ==
    /\ pc[p] = "idle"
    /\ c.op \in Ops
    /\ pc' = [pc EXCEPT ![p] = label]
    /\ call' = [call EXCEPT ![p] = c]
    /\ UNCHANGED <<now, db, feed, crashes, local>>

Known(s) == rows[s].status # "UNUSED"

\* Bounded by the ids left for the creations under way.
ReceiveCreate(p, room) ==
    /\ Cardinality({s \in Sessions : ~Known(s)}) >
       Cardinality({q \in Requests : pc[q] \in {"createCheck", "createInsert"}})
    /\ Receive(p, [NoCall EXCEPT !.op = "create", !.room = room], "createCheck")

ReceiveFind(p, op, s, by) ==
    /\ Known(s)
    /\ \/ op \in {"read", "closeByGuest"} /\ by = Guest
       \/ op \in {"open", "read"} /\ by \in staff
       \/ op = "close" /\ by \in staff \cup {Admin}
    /\ Receive(p, [NoCall EXCEPT !.op = op, !.s = s, !.by = by], "find")

ReceiveList(p) == Receive(p, [NoCall EXCEPT !.op = "list"], "sweepSelect")

\* A clientMessageId is a UUID: only its sender's retries repeat it.
ReceiveSave(p, s, by, key) ==
    /\ Known(s)
    /\ by \in Agents \cup {Guest}
    /\ \A q \in Requests :
          call[q].key = key => call[q].s = s /\ call[q].by = by
    /\ Receive(p, [NoCall EXCEPT !.op = "save", !.s = s, !.by = by, !.key = key],
               "saveRead")

-----------------------------------------------------------------------------
(* Deletions, the clock and restarts. *)

\* A delete waits for the row's lock and for inserts that refer to the row (after
\* a bug that does not wait for the inserts).
DeletableUnreferenced(s) == Unlocked(s)
Deletable(s) ==
    /\ Unlocked(s)
    /\ \A p \in Requests : pc[p] = "txCommit" => call[p].s # s

\* Cascades: sessions take their messages with them.
DeleteSessions(gone) ==
    /\ \A s \in gone : Deletable(s)
    /\ rows' = [s \in Sessions |-> IF s \in gone THEN AbsentRow("DELETED")
                                   ELSE rows[s]]
    /\ messages' = {m \in messages : m.s \notin gone}

DeleteRoom(room) ==
    /\ "deleteRoom" \in Ops
    /\ room \in rooms
    /\ DeleteSessions({s \in Sessions : rows[s].room = room})
    /\ rooms' = rooms \ {room}
    /\ UNCHANGED <<now, lock, staff, feed, crashes, pc, call, local>>

\* The sessions' agentId is set to NULL; the sessions stay.
DeleteAgent(a) ==
    /\ "deleteAgent" \in Ops
    /\ a \in staff
    /\ \A s \in Sessions : rows[s].agent = a => Unlocked(s)
    /\ staff' = staff \ {a}
    /\ rows' = [s \in Sessions |->
          IF rows[s].agent = a THEN [rows[s] EXCEPT !.agent = None] ELSE rows[s]]
    /\ UNCHANGED <<now, messages, lock, rooms, feed, crashes, pc, call, local>>

DeleteExpiredHistory ==
    /\ "retention" \in Ops
    /\ LET old == {s \in Sessions : /\ rows[s].status \in Terminal
                                    /\ rows[s].closedAt + Retention <= now}
       IN  old # {} /\ DeleteSessions(old)
    /\ UNCHANGED <<now, lock, staff, rooms, feed, crashes, pc, call, local>>

Tick ==
    /\ now < MaxTime
    /\ now' = now + 1
    /\ UNCHANGED <<db, feed, crashes, pc, call, local>>

\* The process ends: handlers are lost, open transactions roll back.
Stop ==
    /\ pc' = [p \in Procs |-> IF p = Timer THEN "idle"
                              ELSE IF pc[p] \in Results \cup {"idle"} THEN pc[p]
                              ELSE "lost"]
    /\ local' = [p \in Procs |-> Blank]
    /\ call' = [call EXCEPT ![Timer].s = None]
    /\ lock' = [s \in Sessions |-> None]
    /\ UNCHANGED <<now, rows, messages, staff, rooms, feed>>

Crash ==
    /\ "crash" \in Ops
    /\ crashes < MaxCrashes
    /\ crashes' = crashes + 1
    /\ Stop

\* The timer's promise has no catch: a session deleted under it rejects the
\* promise, and an unhandled rejection ends the process.
TimerRejects ==
    /\ pc[Timer] = "find"
    /\ ~Present(call[Timer].s)
    /\ crashes' = crashes + 1
    /\ Stop

-----------------------------------------------------------------------------
(* The specification. *)

Init ==
    /\ now = 0
    /\ \E room \in Injection(Prior, Rooms), agent \in [Opened -> Agents] :
          rows = [s \in Sessions |->
            CASE s \in Opened -> [NewRow(room[s], 0) EXCEPT !.status = "ACTIVE",
                                                           !.agent = agent[s]]
              [] s \in Prior \ Opened -> NewRow(room[s], 0)
              [] OTHER -> AbsentRow("UNUSED")]
    /\ messages = {WelcomeMessage(s, 0) : s \in Prior}
    /\ lock = [s \in Sessions |-> None]
    /\ staff = Agents
    /\ rooms = Rooms
    /\ feed = [s \in Sessions |-> NoView]
    /\ crashes = 0
    /\ pc = [p \in Procs |-> "idle"]
    /\ call = [p \in Procs |-> IF p = Timer THEN [NoCall EXCEPT !.op = "sweep"]
                               ELSE NoCall]
    /\ local = [p \in Procs |-> Blank]

\* A step a handler takes by itself once it has been called.
FindStep(p) == Find(p) \/ FindNothing(p) \/ FindExpires(p) \/ AnnounceExpired(p)

SessionStep(p) ==
    \/ CreateCheck(p) \/ CreateInsert(p)
    \/ OpenUpdate(p) \/ AnnounceOpened(p)
    \/ CloseUpdate(p) \/ GuestCloseUpdate(p) \/ AnnounceClosed(p)

SweepStep(p) == SweepSelect(p) \/ SweepExpires(p) \/ SweepDone(p)

SaveStep(p) ==
    \/ SaveRead(p) \/ SaveExpires(p) \/ SaveAnnouncesExpiry(p)
    \/ TxBegin(p) \/ TxTimer(p) \/ TxLatest(p) \/ TxInsert(p) \/ TxCommit(p)
    \/ Reread(p) \/ AnnounceTimer(p) \/ SaveExisting(p)

Step(p) == FindStep(p) \/ SessionStep(p) \/ SweepStep(p) \/ SaveStep(p)

Receives(p) ==
    \/ \E room \in Rooms : ReceiveCreate(p, room)
    \/ \E op \in {"read", "open", "close", "closeByGuest"}, s \in Sessions,
          by \in Agents \cup {Admin, Guest} : ReceiveFind(p, op, s, by)
    \/ ReceiveList(p)
    \/ \E s \in Sessions, by \in Agents \cup {Guest}, key \in Keys :
          ReceiveSave(p, s, by, key)

Environment ==
    \/ \E room \in Rooms : DeleteRoom(room)
    \/ \E a \in Agents : DeleteAgent(a)
    \/ DeleteExpiredHistory
    \/ Crash

\* Every handler has answered and nothing is due: the server may rest.
Rest ==
    /\ \A p \in Procs : pc[p] \in Results \cup {"idle"}
    /\ UNCHANGED vars

Next ==
    \/ \E p \in Procs : Step(p)
    \/ \E p \in Requests : Receives(p)
    \/ Environment
    \/ Tick
    \/ TimerRejects
    \/ Rest

Spec == Init /\ [][Next]_vars

\* The event loop runs every handler on, the timer fires, time passes.
FairSpec ==
    /\ Spec
    /\ \A p \in Procs : WF_vars(Step(p))
    /\ WF_vars(Tick)
    /\ WF_vars(TimerRejects)

-----------------------------------------------------------------------------
(* Properties. *)

Message == [id: Requests \cup Sessions, s: Sessions, key: Keys \cup {Welcome},
            by: Agents \cup {Guest, None}, at: Nat]

Call == [op: AllOps \cup {"none", "sweep"}, s: Sessions \cup {None},
         by: Agents \cup {Admin, Guest, None}, key: Keys \cup {None},
         room: Rooms \cup {None}]

Local == [seen: Row, again: BOOLEAN, at: Time, born: Time, due: SUBSET Sessions]

EventView == [kind: {"none", "updated", "closed"}, status: Status, expiresAt: Time]

Labels == Results \cup
    {"idle", "find", "expire", "expired", "createCheck", "createInsert",
     "openUpdate", "announceOpened", "closeUpdate", "guestCloseUpdate",
     "announceClosed", "sweepSelect", "sweep", "saveRead", "saveExpire",
     "saveExpired", "txBegin", "txTimer", "txLatest", "txInsert", "txCommit",
     "reread", "announceTimer", "saveExisting"}

\* Every variable holds a value of its type.
TypeOK ==
    /\ now \in Nat
    /\ rows \in [Sessions -> Row]
    /\ messages \subseteq Message
    /\ lock \in [Sessions -> Requests \cup {None}]
    /\ staff \subseteq Agents
    /\ rooms \subseteq Rooms
    /\ feed \in [Sessions -> EventView]
    /\ crashes \in Nat
    /\ pc \in [Procs -> Labels]
    /\ call \in [Procs -> Call]
    /\ local \in [Procs -> Local]

\* A room never has two open consultations, although two guests may both have
\* found none before inserting: the partial unique index behind create.
OneOpenSessionPerRoom ==
    \A s, t \in Sessions :
        /\ rows[s].status \in Open
        /\ rows[t].status \in Open
        /\ rows[s].room = rows[t].room
        => s = t

\* The fifteen minutes exist exactly when a reply of the agent is stored, start
\* no later than that reply, and last D: the timer update and the message are
\* one transaction (save, open).
TimerStartsWithFirstReply ==
    \A s \in Sessions : Present(s) =>
        LET replies == {m \in messages : m.s = s /\ m.by \in Agents}
        IN  /\ rows[s].expiresAt # NoTime <=> replies # {}
            /\ rows[s].startedAt # NoTime <=> replies # {}
            /\ replies # {} => rows[s].expiresAt = rows[s].startedAt + D
            /\ \A m \in replies : rows[s].startedAt <= m.at

\* Only a session whose window has passed ends as EXPIRED, at or after the end
\* of the window; a session without a timer never does (expireDueSessions,
\* findOrThrow, save).
ExpiredOnlyAfterWindow ==
    \A s \in Sessions : rows[s].status = "EXPIRED" =>
        /\ IsSessionExpired(rows[s].expiresAt, rows[s].closedAt)
        /\ rows[s].closeReason = "TIME_LIMIT"

\* An acknowledged message is stored, once, whoever retried it and whatever
\* crashed meanwhile (save's unique key and its P2002 path).
AcknowledgedIsStoredOnce ==
    /\ \A m, n \in messages : m.s = n.s /\ m.key = n.key => m = n
    /\ \A p \in Requests :
         call[p].op = "save" /\ pc[p] \in {"ok", "duplicate"} =>
            \/ rows[call[p].s].status = "DELETED"
            \/ \E m \in StoredAs(call[p].s, call[p].key) : pc[p] = "ok" => m.id = p

\* Two agents never both win a session: every open that succeeded names the one
\* owner the session ever had, and only that owner's replies are stored.
OneOwner ==
    /\ \A p, q \in Requests :
         /\ call[p].op = "open" /\ pc[p] = "ok"
         /\ call[q].op = "open" /\ pc[q] = "ok"
         /\ call[p].s = call[q].s
         => call[p].by = call[q].by
    /\ \A s \in Sessions, m \in messages :
         m.s = s /\ m.by \in Agents => rows[s].agent \in {m.by, None}

\* lastActivityAt is the creation time of a message of the session.
ActivityIsAMessage ==
    \A s \in Sessions : Present(s) =>
        \E m \in messages : m.s = s /\ m.at = rows[s].lastActivityAt

\* Deleting a room or old history never leaves a message without its session,
\* although a transaction may be inserting one (deleteRoom, deleteExpiredHistory).
NoOrphanMessage == \A m \in messages : Present(m.s)

\* A session changes hands only by being opened while it waits, or by the
\* deletion of its agent, and never reopens once it has ended.
LifecycleStep(before, after) ==
    /\ before.agent # after.agent =>
         \/ /\ before.status = "WAITING" /\ before.agent = None
            /\ after.status = "ACTIVE"
         \/ after.agent = None
    /\ before.status \in Terminal => after.status \in Terminal \cup {"DELETED"}
    /\ before.status = "ACTIVE" => after.status # "WAITING"
NeverReopens ==
    [][\A s \in Sessions : LifecycleStep(rows[s], rows'[s])]_vars

\* Once started, the window is never moved while the session exists: a second
\* first reply, racing the first, must share it (save's expiresAt = null guard).
WindowNeverMoves ==
    [][\A s \in Sessions :
         rows[s].expiresAt # NoTime /\ Present(s)' =>
            /\ rows'[s].expiresAt = rows[s].expiresAt
            /\ rows'[s].startedAt = rows[s].startedAt]_vars

\* A guest's close never replaces an end already recorded by the agent or the
\* timer (closeByGuest's conditional update).
GuestCloseKeepsTheRecord ==
    [][\A s \in Sessions :
         rows[s].status \in Terminal /\ rows'[s] # rows[s] =>
            rows'[s].closeReason # "GUEST_CLOSED"
            \/ rows'[s].closeReason = rows[s].closeReason]_vars

\* What the contract of a consultation sees of its row.
Seen ==
    [s \in Sessions |->
        [room |-> rows[s].room, status |-> rows[s].status,
         agent |-> rows[s].agent, timed |-> rows[s].expiresAt # NoTime]]
Lifecycle == INSTANCE SessionLifecycle WITH session <- Seen

\* The statements of all handlers together keep the contract of a consultation.
KeepsLifecycle == Lifecycle!Spec

\* A session whose window has passed stops being ACTIVE, also after restarts.
LapsedSessionsExpire ==
    \A s \in Sessions : Lapsed(rows[s], now) ~> rows[s].status # "ACTIVE"

\* Every call is answered unless the server stops: no handler waits for a row
\* lock or a unique key forever.
EveryCallAnswered ==
    \A p \in Requests : pc[p] # "idle" ~> pc[p] \in Results

\* The end of a session is announced to its clients, whoever ended it, unless
\* the server is restarted before (the emits after each ending statement).
EndIsAnnounced ==
    \A s \in Sessions :
        <>(rows[s].status \in Terminal) =>
            <>(feed[s].kind = "closed" \/ rows[s].status = "DELETED" \/ crashes > 0)

=============================================================================
