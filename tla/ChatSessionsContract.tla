------------------------- MODULE ChatSessionsContract -------------------------
(***************************************************************************)
(* What the server promises, for every value of the constants.  To those   *)
(* who read its tables: the contract of a consultation, SessionLifecycle.  *)
(* To those who call it: an agent whose open succeeded is the owner, and a *)
(* message that was acknowledged is stored, once.                          *)
(***************************************************************************)
EXTENDS ChatSessionsWindow

-----------------------------------------------------------------------------
(* The contract: each statement of each handler is one step of it, or none. *)

\* What the contract sees of a row.
LEMMA SeenOf ==
    ASSUME NEW s \in Sessions
    PROVE  /\ Seen[s].room = rows[s].room
           /\ Seen[s].status = rows[s].status
           /\ Seen[s].agent = rows[s].agent
           /\ Seen[s].timed <=> Timed(s)
BY DEF Seen, Timed

\* A statement that writes one row changes one consultation.
LEMMA SeenWrite ==
    ASSUME TypeInv, NEW s \in Sessions, NEW row, rows' = [rows EXCEPT ![s] = row]
    PROVE  Seen' = [Seen EXCEPT ![s] =
                      [room |-> row.room, status |-> row.status,
                       agent |-> row.agent, timed |-> row.expiresAt # NoTime]]
<1>1. \A x \in Sessions : rows'[x] = IF x = s THEN row ELSE rows[x]
  BY DEF TypeInv, TypeOK
<1> QED
  BY <1>1 DEF Seen

\* A write of neither room, status, owner nor window is none to the contract.
LEMMA SeenSame ==
    ASSUME \A s \in Sessions : /\ rows'[s].room = rows[s].room
                               /\ rows'[s].status = rows[s].status
                               /\ rows'[s].agent = rows[s].agent
                               /\ rows'[s].expiresAt = rows[s].expiresAt
    PROVE  UNCHANGED Seen
BY DEF Seen

\* An end after the window, or a close, ends the consultation or restates how
\* it ended.
LEMMA EndRefines ==
    ASSUME WindowInv, NEW s \in Sessions, Present(s), NEW t, NEW reason,
           \/ /\ rows' = [rows EXCEPT ![s] = Expire(rows[s], t)]
              /\ IsSessionExpired(rows[s].expiresAt, t)
           \/ rows' = [rows EXCEPT ![s] = Close(rows[s], t, reason)]
    PROVE  Lifecycle!Next
<1>1. /\ TypeInv /\ SessionInv(s)
      /\ rows[s] \in Row
  BY DEF WindowInv, TypeInv, TypeOK
<1>2. PICK status \in Terminal :
        /\ Seen' = [Seen EXCEPT ![s].status = status]
        /\ status = "EXPIRED" => Timed(s)
  <2>1. CASE /\ rows' = [rows EXCEPT ![s] = Expire(rows[s], t)]
             /\ IsSessionExpired(rows[s].expiresAt, t)
    <3> DEFINE row == Expire(rows[s], t)
    <3>1. /\ row.room = rows[s].room /\ row.status = "EXPIRED"
          /\ row.agent = rows[s].agent /\ row.expiresAt = rows[s].expiresAt
      BY <1>1 DEF Expire, Row
    <3>2. rows' = [rows EXCEPT ![s] = row]
      BY <2>1
    <3> HIDE DEF row
    <3>3. Seen' = [Seen EXCEPT ![s] =
                     [room |-> rows[s].room, status |-> "EXPIRED",
                      agent |-> rows[s].agent,
                      timed |-> rows[s].expiresAt # NoTime]]
      BY <1>1, <3>1, <3>2, SeenWrite
    <3>4. Seen' = [Seen EXCEPT ![s].status = "EXPIRED"]
      BY <3>3 DEF Seen
    <3> QED
      BY <2>1, <3>4 DEF Terminal, IsSessionExpired, Timed
  <2>2. CASE rows' = [rows EXCEPT ![s] = Close(rows[s], t, reason)]
    <3> DEFINE row == Close(rows[s], t, reason)
    <3>1. /\ row.room = rows[s].room /\ row.status = "CLOSED"
          /\ row.agent = rows[s].agent /\ row.expiresAt = rows[s].expiresAt
      BY <1>1 DEF Close, Row
    <3>2. rows' = [rows EXCEPT ![s] = row]
      BY <2>2
    <3> HIDE DEF row
    <3>3. Seen' = [Seen EXCEPT ![s] =
                     [room |-> rows[s].room, status |-> "CLOSED",
                      agent |-> rows[s].agent,
                      timed |-> rows[s].expiresAt # NoTime]]
      BY <1>1, <3>1, <3>2, SeenWrite
    <3>4. Seen' = [Seen EXCEPT ![s].status = "CLOSED"]
      BY <3>3 DEF Seen
    <3> QED
      BY <3>4 DEF Terminal
  <2> QED
    BY <2>1, <2>2
<1>3. Lifecycle!End(s, status) \/ Lifecycle!Restate(s, status)
  BY <1>1, <1>2, SeenOf
  DEF Lifecycle!End, Lifecycle!Restate, Lifecycle!Open, Lifecycle!Terminal,
      SessionInv, Present, Open, Terminal
<1> QED
  BY <1>2, <1>3 DEF Lifecycle!Next, Lifecycle!Terminal, Terminal

-----------------------------------------------------------------------------

\* A step of the handlers is a step of the contract, or none.
Refines == Lifecycle!Next \/ UNCHANGED Seen

\* What writes no row changes nothing the contract sees.
LEMMA NoWriteRefines ==
    ASSUME UNCHANGED rows
    PROVE  Refines
BY DEF Refines, Seen

\* findOrThrow, expireDueSessions and the closes end consultations.
LEMMA EndingStepsRefine ==
    ASSUME WindowInv, NEW p \in Procs,
           \/ FindStep(p) \/ SweepStep(p) \/ SaveExpires(p)
           \/ CloseUpdate(p) \/ GuestCloseUpdate(p)
    PROVE  Refines
<1> DEFINE s == call[p].s
<1>0. TypeInv /\ HandlerInv(p)
  BY DEF WindowInv
<1>1. CASE UNCHANGED rows
  BY <1>1, NoWriteRefines
<1>2. CASE FindExpires(p) \/ SaveExpires(p)
  <2>1. pc[p] \in {"expire", "saveExpire"} /\ s \in Sessions
    BY <1>0, <1>2, RowOfCall DEF FindExpires, SaveExpires, NamesSession
  <2>2. CASE Present(s)
    <3>1. rows' = [rows EXCEPT ![s] = Expire(rows[s], now)]
      BY <1>2, <2>2 DEF FindExpires, SaveExpires
    <3>2. IsSessionExpired(rows[s].expiresAt, now)
      BY <1>0, <2>1, <2>2 DEF HandlerInv
    <3> QED
      BY <2>1, <2>2, <3>1, <3>2, EndRefines DEF Refines
  <2>3. CASE ~Present(s)
    BY <1>1, <1>2, <2>3 DEF FindExpires, SaveExpires
  <2> QED
    BY <2>2, <2>3
<1>3. CASE CloseUpdate(p)
  <2>1. s \in Sessions
    BY <1>0, <1>3, RowOfCall DEF CloseUpdate, NamesSession
  <2>2. CASE Present(s)
    <3>1. rows' = [rows EXCEPT ![s] = Close(rows[s], now, "AGENT_CLOSED")]
      BY <1>3, <2>2 DEF CloseUpdate
    <3> QED
      BY <2>1, <2>2, <3>1, EndRefines DEF Refines
  <2>3. CASE ~Present(s)
    BY <1>1, <1>3, <2>3 DEF CloseUpdate
  <2> QED
    BY <2>2, <2>3
<1>4. CASE GuestCloseUpdate(p)
  <2>1. s \in Sessions
    BY <1>0, <1>4, RowOfCall DEF GuestCloseUpdate, NamesSession
  <2>2. CASE StillOpen(rows[s])
    <3>1. rows' = [rows EXCEPT ![s] = Close(rows[s], now, "GUEST_CLOSED")]
      BY <1>4, <2>2 DEF GuestCloseUpdate
    <3>2. Present(s)
      BY <2>2 DEF StillOpen, Present
    <3> QED
      BY <2>1, <3>1, <3>2, EndRefines DEF Refines
  <2>3. CASE ~StillOpen(rows[s])
    BY <1>1, <1>4, <2>3 DEF GuestCloseUpdate
  <2> QED
    BY <2>2, <2>3
<1>5. CASE SweepExpires(p)
  <2> DEFINE at == local[p].at
  <2>1. PICK x \in local[p].due :
          IF Lapsed(rows[x], at)
          THEN rows' = [rows EXCEPT ![x] = Expire(rows[x], at)]
          ELSE UNCHANGED rows
    BY <1>5 DEF SweepExpires
  <2>2. x \in Sessions
    BY <1>0, <2>1 DEF TypeInv, TypeOK, Local
  <2>3. CASE Lapsed(rows[x], at)
    <3>1. Present(x) /\ IsSessionExpired(rows[x].expiresAt, at)
      BY <2>3 DEF Lapsed, Present, Open
    <3> HIDE DEF at
    <3> QED
      BY <2>1, <2>2, <2>3, <3>1, EndRefines DEF Refines
  <2>4. CASE ~Lapsed(rows[x], at)
    BY <1>1, <2>1, <2>4
  <2> QED
    BY <2>3, <2>4
<1> QED
  BY <1>1, <1>2, <1>3, <1>4, <1>5
  DEF FindStep, SweepStep, Find, FindNothing, AnnounceExpired, SweepSelect,
      SweepDone, db

\* create's insert is the contract's Create.
LEMMA CreateRefines ==
    ASSUME WindowInv, NEW p \in Procs, CreateInsert(p)
    PROVE  Refines
<1>1. CASE UNCHANGED rows
  BY <1>1, NoWriteRefines
<1>2. CASE ~UNCHANGED rows
  <2>1. PICK room \in rooms, s \in Sessions :
          /\ RoomIsFree(room)
          /\ rows[s].status = "UNUSED"
          /\ rows' = [rows EXCEPT ![s] = NewRow(room, now)]
    BY <1>2 DEF CreateInsert
  <2>2. TypeInv /\ room \in Rooms
    BY DEF WindowInv, TypeInv, TypeOK
  <2> DEFINE row == NewRow(room, now)
  <2>3. row.room = room /\ row.status = "WAITING" /\ row.agent = None
        /\ row.expiresAt = NoTime
    BY DEF NewRow, AbsentRow
  <2>4. rows' = [rows EXCEPT ![s] = row]
    BY <2>1
  <2> HIDE DEF row
  <2>5. Seen' = [Seen EXCEPT ![s] =
                   [room |-> room, status |-> "WAITING", agent |-> None,
                    timed |-> FALSE]]
    BY <2>2, <2>3, <2>4, SeenWrite
  <2>6. Lifecycle!OpenIn(room) = {}
    BY <2>1, SeenOf
    DEF Lifecycle!OpenIn, Lifecycle!Open, RoomIsFree, OpenIn, Open
  <2>7. Lifecycle!Create(s, room)
    BY <2>1, <2>5, <2>6, SeenOf DEF Lifecycle!Create, Lifecycle!Nothing
  <2> QED
    BY <2>2, <2>7 DEF Refines, Lifecycle!Next
<1> QED
  BY <1>1, <1>2

\* open's conditional update is the contract's Assign.
LEMMA OpenRefines ==
    ASSUME WindowInv, NEW p \in Procs, OpenUpdate(p)
    PROVE  Refines
<1> DEFINE s == call[p].s
           by == call[p].by
           row == Assign(rows[s], by)
<1>1. CASE UNCHANGED rows
  BY <1>1, NoWriteRefines
<1>2. CASE ~UNCHANGED rows
  <2>1. /\ TypeInv /\ SessionInv(s) /\ s \in Sessions
        /\ rows[s] \in Row /\ by \in Agents
        /\ Unopened(rows[s])
        /\ rows' = [rows EXCEPT ![s] = row]
    BY <1>2, RowOfCall DEF WindowInv, TypeInv, TypeOK, OpenUpdate, NamesSession
  <2>2. row.room = rows[s].room /\ row.status = "ACTIVE" /\ row.agent = by
        /\ row.expiresAt = NoTime
    BY <2>1 DEF Assign, Row
  <2>3. ~Timed(s)
    BY <2>1 DEF SessionInv, Unopened, Terminal
  <2> HIDE DEF row, by
  <2>4. Seen' = [Seen EXCEPT ![s] =
                   [room |-> rows[s].room, status |-> "ACTIVE", agent |-> by,
                    timed |-> FALSE]]
    BY <2>1, <2>2, SeenWrite
  <2>5. Seen' = [Seen EXCEPT ![s].status = "ACTIVE", ![s].agent = by]
    BY <2>1, <2>3, <2>4 DEF Seen, Timed
  <2>6. Lifecycle!Assign(s, by)
    BY <2>1, <2>5, SeenOf DEF Lifecycle!Assign, Unopened
  <2> QED
    BY <2>1, <2>6 DEF Refines, Lifecycle!Next
<1> QED
  BY <1>1, <1>2

\* The commit of the transaction that holds the row is the contract's
\* FirstReply; any other commit is none of its steps.
LEMMA CommitRefines ==
    ASSUME WindowInv, NEW p \in Procs, TxCommit(p)
    PROVE  Refines
<1> DEFINE s == call[p].s
           at == local[p].at
           row == IF HoldsLock(p) THEN Started(Touched(rows[s], local[p].born), at)
                  ELSE Touched(rows[s], local[p].born)
<1>1. /\ TypeInv /\ HandlerInv(p) /\ s \in Sessions
      /\ rows[s] \in Row
      /\ rows' = [rows EXCEPT ![s] = row]
      /\ call[p].by \in Agents \cup {Guest}
  BY RowOfCall
  DEF WindowInv, TypeInv, CallsMatchLabels, TxCommit, NamesSession, Saving
<1>2. /\ row.room = rows[s].room /\ row.status = rows[s].status
      /\ row.agent = rows[s].agent
      /\ row.expiresAt = IF HoldsLock(p) THEN at + D ELSE rows[s].expiresAt
  BY <1>1 DEF Touched, Started, Row
<1>3. CASE HoldsLock(p)
  <2>1. Holds(p, s)
    BY <1>1, <1>3 DEF HandlerInv, HoldsLock
  <2>2. row.expiresAt # NoTime
    BY <1>2, <1>3, <2>1, ConstantsAssumption DEF Holds, NoTime
  <2>3. /\ rows[s].status = "ACTIVE" /\ ~Timed(s)
        /\ rows[s].agent # None
    BY <1>1, <2>1, ConstantsAssumption DEF Holds
  <2> HIDE DEF row
  <2>4. Seen' = [Seen EXCEPT ![s] =
                   [room |-> rows[s].room, status |-> rows[s].status,
                    agent |-> rows[s].agent, timed |-> TRUE]]
    BY <1>1, <1>2, <2>2, SeenWrite
  <2>5. Seen' = [Seen EXCEPT ![s].timed = TRUE]
    BY <1>1, <2>4 DEF Seen
  <2>6. Lifecycle!FirstReply(s)
    BY <1>1, <2>3, <2>5, SeenOf DEF Lifecycle!FirstReply
  <2> QED
    BY <1>1, <2>6 DEF Refines, Lifecycle!Next
<1>4. CASE ~HoldsLock(p)
  <2> HIDE DEF row
  <2>1. \A x \in Sessions : rows'[x] = IF x = s THEN row ELSE rows[x]
    BY <1>1 DEF TypeInv, TypeOK
  <2> QED
    BY <1>2, <1>4, <2>1, SeenSame DEF Refines
<1> QED
  BY <1>3, <1>4

\* Deletions are the contract's Remove and Unassign.
LEMMA DeletionsRefine ==
    ASSUME WindowInv, Environment
    PROVE  Refines
<1>1. ASSUME NEW gone, DeleteSessions(gone),
             \/ \A s \in gone : s \in Sessions /\ rows[s].status \in Terminal
             \/ \E room \in Rooms : gone = {s \in Sessions : rows[s].room = room}
      PROVE  Refines
  <2>1. Seen' = [s \in Sessions |-> IF s \in gone THEN Lifecycle!Nothing("DELETED")
                                    ELSE Seen[s]]
    <3>1. \A s \in Sessions :
            rows'[s] = IF s \in gone THEN AbsentRow("DELETED") ELSE rows[s]
      BY <1>1 DEF DeleteSessions
    <3>2. /\ AbsentRow("DELETED").room = None
          /\ AbsentRow("DELETED").status = "DELETED"
          /\ AbsentRow("DELETED").agent = None
          /\ AbsentRow("DELETED").expiresAt = NoTime
      BY DEF AbsentRow
    <3> QED
      BY <3>1, <3>2 DEF Seen, Lifecycle!Nothing
  <2>2. gone \in SUBSET Sessions
    BY <1>1
  <2>3. \/ \A s \in gone : Seen[s].status \in Lifecycle!Terminal
        \/ \E room \in Rooms : gone = {s \in Sessions : Seen[s].room = room}
    BY <1>1, SeenOf DEF Lifecycle!Terminal, Terminal
  <2>4. Lifecycle!Remove(gone)
    BY <2>1, <2>3 DEF Lifecycle!Remove
  <2> QED
    BY <2>2, <2>4 DEF Refines, Lifecycle!Next
<1>2. ASSUME NEW room \in Rooms, DeleteRoom(room)
      PROVE  Refines
  BY <1>1, <1>2 DEF DeleteRoom
<1>3. CASE DeleteExpiredHistory
  BY <1>1, <1>3 DEF DeleteExpiredHistory
<1>4. ASSUME NEW a \in Agents, DeleteAgent(a)
      PROVE  Refines
  <2>1. \A s \in Sessions : rows[s] \in Row
    BY DEF WindowInv, TypeInv, TypeOK
  <2>2. \A s \in Sessions :
          /\ rows'[s].room = rows[s].room
          /\ rows'[s].status = rows[s].status
          /\ rows'[s].agent = IF rows[s].agent = a THEN None ELSE rows[s].agent
          /\ rows'[s].expiresAt = rows[s].expiresAt
    BY <1>4, <2>1 DEF DeleteAgent, Row
  <2>3. Lifecycle!Unassign(a)
    BY <2>2 DEF Lifecycle!Unassign, Seen
  <2> QED
    BY <2>3 DEF Refines, Lifecycle!Next
<1>5. CASE Crash
  BY <1>5, NoWriteRefines DEF Crash, Stop
<1> QED
  BY <1>2, <1>3, <1>4, <1>5 DEF Environment

\* Every step of the handlers refines the contract.
LEMMA StepRefines ==
    ASSUME WindowInv, [Next]_vars
    PROVE  Refines
<1>1. CASE UNCHANGED rows
  BY <1>1, NoWriteRefines
<1>2. ASSUME NEW p \in Procs, Step(p), ~UNCHANGED rows
      PROVE  Refines
  BY <1>2, EndingStepsRefine, CreateRefines, OpenRefines, CommitRefines
  DEF Step, SessionStep, CreateCheck, AnnounceOpened, AnnounceClosed,
      SaveStep, SaveRead, SaveAnnouncesExpiry, TxBegin, TxTimer, TxLatest,
      TxInsert, Reread, AnnounceTimer, SaveExisting, db
<1>3. ASSUME NEW p \in Requests, Receives(p)
      PROVE  UNCHANGED rows
  BY <1>3 DEF Receives, ReceiveCreate, ReceiveFind, ReceiveList, ReceiveSave,
     Receive, db
<1>4. CASE Environment
  BY <1>4, DeletionsRefine
<1>5. CASE Tick \/ TimerRejects \/ UNCHANGED vars
  BY <1>5, NoWriteRefines DEF Tick, TimerRejects, Stop, db, vars
<1> QED
  BY <1>1, <1>2, <1>3, <1>4, <1>5 DEF Next, Rest

\* The consultations that exist at the start are the contract's.
LEMMA InitRefines == Init => Lifecycle!Init
<1> SUFFICES ASSUME Init PROVE Lifecycle!Init
  OBVIOUS
<1>1. PICK room \in Injection(Prior, Rooms), agent \in [Opened -> Agents] :
          rows = [x \in Sessions |->
            CASE x \in Opened -> [NewRow(room[x], 0) EXCEPT !.status = "ACTIVE",
                                                           !.agent = agent[x]]
              [] x \in Prior \ Opened -> NewRow(room[x], 0)
              [] OTHER -> AbsentRow("UNUSED")]
  BY DEF Init
<1>2. ASSUME NEW s \in Sessions
      PROVE  /\ rows[s].expiresAt = NoTime
             /\ rows[s].room \in Rooms \cup {None}
             /\ \/ /\ rows[s].status = "UNUSED"
                   /\ rows[s].room = None /\ rows[s].agent = None
                \/ rows[s].status = "WAITING" /\ rows[s].agent = None
                \/ rows[s].status = "ACTIVE" /\ rows[s].agent \in Agents
  <2>0. room \in [Prior -> Rooms]
    BY DEF Injection
  <2>1. CASE s \in Opened
    <3>1. rows[s] = [NewRow(room[s], 0) EXCEPT !.status = "ACTIVE",
                                               !.agent = agent[s]]
      BY <1>1, <2>1
    <3>2. room[s] \in Rooms /\ agent[s] \in Agents
      BY <1>1, <2>0, <2>1, ConstantsAssumption
    <3> QED
      BY <3>1, <3>2 DEF NewRow, AbsentRow
  <2>2. CASE s \in Prior \ Opened
    <3>1. rows[s] = NewRow(room[s], 0)
      BY <1>1, <2>2
    <3> QED
      BY <2>0, <2>2, <3>1 DEF NewRow, AbsentRow
  <2>3. CASE s \notin Opened /\ s \notin Prior \ Opened
    <3>1. rows[s] = AbsentRow("UNUSED")
      BY <1>1, <2>3
    <3> QED
      BY <3>1 DEF AbsentRow
  <2> QED
    BY <2>1, <2>2, <2>3
<1>3. \A s \in Sessions :
        Seen[s] = [room |-> rows[s].room, status |-> rows[s].status,
                   agent |-> rows[s].agent, timed |-> FALSE]
  BY <1>2 DEF Seen
<1>4. Seen \in [Sessions -> Lifecycle!View]
  BY <1>2, <1>3
  DEF Seen, Lifecycle!View, Lifecycle!Open, Lifecycle!Terminal
<1>5. \A s, t \in Sessions :
        Seen[s].status \in Lifecycle!Open /\ t \in Lifecycle!OpenIn(Seen[s].room)
          => s = t
  BY InitOneOpen, SeenOf
  DEF OneOpenSessionPerRoom, Lifecycle!OpenIn, Lifecycle!Open, Open
<1>6. ASSUME NEW s \in Sessions
      PROVE  \/ Seen[s] = Lifecycle!Nothing("UNUSED")
             \/ /\ Seen[s].status = "WAITING"
                /\ Seen[s].agent = None
                /\ ~Seen[s].timed
             \/ /\ Seen[s].status = "ACTIVE"
                /\ ~Seen[s].timed
  <2>1. Seen[s].status = rows[s].status /\ Seen[s].agent = rows[s].agent
        /\ ~Seen[s].timed
    BY <1>2, SeenOf DEF Timed
  <2>2. CASE rows[s].status = "UNUSED" /\ rows[s].room = None /\ rows[s].agent = None
    BY <1>3, <2>2 DEF Lifecycle!Nothing
  <2> QED
    BY <1>2, <2>1, <2>2
<1> QED
  BY <1>4, <1>5, <1>6 DEF Lifecycle!Init

\* Whatever handlers, sweeps, restarts and deletions interleave, a reader of the
\* table sees the contract of a consultation kept.
THEOREM LifecycleKept == Spec => KeepsLifecycle
<1>1. WindowInv /\ [Next]_vars => [Lifecycle!Next]_Seen
  BY StepRefines DEF Refines
<1> QED
  BY <1>1, InitRefines, WindowInvariant, PTL
  DEF Spec, KeepsLifecycle, Lifecycle!Spec

-----------------------------------------------------------------------------
(* What the server promises its callers: an agent whose open succeeded is  *)
(* the owner, and a message that is acknowledged is stored, once.          *)

\* The operation a handler serves, by where it stands.
ServesItsCall(p) ==
    LET op == call[p].op
    IN  /\ pc[p] \in Saving => op = "save"
        /\ pc[p] \in {"createCheck", "createInsert"} => op = "create"
        /\ pc[p] \in {"sweepSelect", "sweep"} => op \in {"list", "sweep"}
        /\ pc[p] \in {"openUpdate", "announceOpened"} => op = "open"
        /\ pc[p] = "closeUpdate" => op = "close"
        /\ pc[p] = "guestCloseUpdate" => op = "closeByGuest"
        /\ pc[p] = "announceClosed" => op \notin {"open", "save"}
        /\ pc[p] \in {"find", "expire", "expired"} => op # "save"
        /\ pc[p] = "idle" => ~local[p].again
        /\ pc[p] = "expired" => local[p].seen.status = "EXPIRED"
        /\ p = Timer => op = "sweep"
        /\ op \in {"open", "save"} => call[p].s \in Sessions
        /\ op = "open" => call[p].by \in Agents

\* The session has been opened, and by nobody else.
Claimed(s, by) ==
    /\ rows[s].status \notin {"UNUSED", "WAITING"}
    /\ rows[s].agent \in {by, None}

\* open() has won the session for its caller.
Granted(p) ==
    /\ call[p].op = "open"
    /\ pc[p] \in {"announceOpened", "ok"} \/ local[p].again

\* A reply on its way into the table.
Replying(p) ==
    /\ pc[p] \in {"txInsert", "txCommit"}
    /\ call[p].by \in Agents

\* A session that waits has no owner; one that an open has won, or that a reply
\* is stored or under way for, is claimed by that agent; two opens never win it
\* for two agents (OneOwner, made inductive).
OwnerInv ==
    /\ \A s \in Sessions :
         rows[s].status \in {"UNUSED", "WAITING"} => rows[s].agent = None
    /\ \A p \in Procs : Granted(p) \/ Replying(p) => Claimed(call[p].s, call[p].by)
    /\ \A p, q \in Procs : Granted(p) /\ Granted(q) /\ call[p].s = call[q].s =>
         call[p].by = call[q].by
    /\ \A m \in messages : m.by \in Agents => Claimed(m.s, m.by)

\* What a handler of save knows of its message.
Acknowledges(p) ==
    /\ call[p].op = "save"
    /\ pc[p] \in {"reread", "announceTimer", "ok", "duplicate"}

Gone(s) == rows[s].status = "DELETED"

\* The message of a call to save is there; an answer other than "it was there
\* already" means that this call has stored it.
Stored(p) ==
    \E m \in StoredAs(call[p].s, call[p].key) : pc[p] # "duplicate" => m.id = p

\* A key is stored once per session, an uncommitted message has its key for
\* itself, and an acknowledged one is stored until its session is deleted
\* (AcknowledgedIsStoredOnce, made inductive).
StoredInv ==
    /\ \A m, n \in messages : m.s = n.s /\ m.key = n.key => m = n
    /\ \A p \in Procs : pc[p] = "txCommit" => KeyIsFree(call[p].s, call[p].key)
    /\ \A p, q \in Procs :
         /\ pc[p] = "txCommit" /\ pc[q] = "txCommit"
         /\ call[p].s = call[q].s /\ call[p].key = call[q].key
         => p = q
    /\ \A p \in Procs : Acknowledges(p) => Gone(call[p].s) \/ Stored(p)

\* The inductive invariant behind the promises.
PromiseInv ==
    /\ WindowInv
    /\ \A p \in Procs : ServesItsCall(p)
    /\ OwnerInv
    /\ StoredInv
    /\ ActivityIsAMessage

-----------------------------------------------------------------------------
(* Handlers stay with the operation they were called for. *)

\* Where Goto and Leave take a handler, and with what.
LEMMA GoesOn ==
    ASSUME TypeInv, NEW p \in Procs, NEW label, NEW row, Goto(p, label, row)
    PROVE  /\ pc'[p] = label
           /\ \A q \in Procs \ {p} : pc'[q] = pc[q] /\ local'[q] = local[q]
           /\ label \in Results => local'[p] = Blank
           /\ label \notin Results => /\ local'[p].again = local[p].again
                                      /\ label \in Carrying => local'[p].seen = row
<1>1. /\ pc \in [Procs -> Labels] /\ local \in [Procs -> Local]
      /\ local[p] \in Local
  BY DEF TypeInv, TypeOK
<1>2. CASE label \in Results
  BY <1>1, <1>2 DEF Goto, Leave
<1>3. CASE label \notin Results
  <2> DEFINE l == [local[p] EXCEPT !.seen = IF label \in Carrying THEN row ELSE Blank.seen]
  <2>1. l.again = local[p].again /\ (label \in Carrying => l.seen = row)
    BY <1>1 DEF Local
  <2>2. pc' = [pc EXCEPT ![p] = label] /\ local' = [local EXCEPT ![p] = l]
    BY <1>3 DEF Goto
  <2> HIDE DEF l
  <2> QED
    BY <1>1, <1>3, <2>1, <2>2
<1> QED
  BY <1>2, <1>3

\* A handler that ends.
LEMMA Ends ==
    ASSUME TypeInv, NEW p \in Procs, NEW result, Leave(p, result)
    PROVE  /\ pc'[p] = result /\ local'[p] = Blank
           /\ \A q \in Procs \ {p} : pc'[q] = pc[q] /\ local'[q] = local[q]
BY DEF Leave, TypeInv, TypeOK

\* findOrThrow returns to the operation that called it.
LEMMA AfterFindServes ==
    ASSUME NEW c, NEW again, NEW row, NEW label, label = AfterFind(c, again, row)
    PROVE  /\ label \in {"openUpdate", "announceOpened"} => c.op = "open"
           /\ label = "closeUpdate" => c.op = "close"
           /\ label = "guestCloseUpdate" => c.op = "closeByGuest"
           /\ label = "announceClosed" => c.op # "open"
           /\ label = "openUpdate" => ~again
           /\ label = "announceOpened" => again
           /\ label \in {"conflict", "ok", "openUpdate", "announceOpened", "refused",
                         "closeUpdate", "guestCloseUpdate", "announceClosed"}
<1>1. /\ c.op = "open" \/ c.op = "close" \/ c.op = "closeByGuest" \/ c.op = "read"
         \/ c.op \notin {"open", "close", "closeByGuest", "read"}
  OBVIOUS
<1> QED
  BY <1>1 DEF AfterFind, CanOpen

\* A step of findOrThrow stays with its call.
LEMMA FindServes ==
    ASSUME TypeInv, NEW p \in Procs, ServesItsCall(p), FindStep(p)
    PROVE  ServesItsCall(p)'
<1>0. UNCHANGED call /\ pc[p] \in {"find", "expire", "expired"} /\ call[p].op # "save"
  BY DEF FindStep, Find, FindNothing, FindExpires, AnnounceExpired, ServesItsCall
<1>1. CASE Find(p) \/ AnnounceExpired(p)
  <2>1. PICK row, label :
          /\ label = "expire" \/ label = AfterFind(call[p], local[p].again, row)
          /\ Goto(p, label, row)
    BY <1>1 DEF Find, AnnounceExpired
  <2>2. pc'[p] = label
    BY <2>1, GoesOn
  <2>3. CASE label = "expire"
    BY <1>0, <2>2, <2>3 DEF ServesItsCall, Saving
  <2>4. CASE label = AfterFind(call[p], local[p].again, row)
    BY <1>0, <2>2, <2>4, AfterFindServes DEF ServesItsCall, Saving
  <2> QED
    BY <2>1, <2>3, <2>4
<1>2. CASE FindNothing(p)
  <2>1. pc'[p] = "notFound"
    BY <1>2, Ends DEF FindNothing
  <2> QED
    BY <1>0, <2>1 DEF ServesItsCall, Saving
<1>3. CASE FindExpires(p)
  <2>1. CASE pc'[p] = "error"
    BY <1>0, <2>1 DEF ServesItsCall, Saving
  <2>2. CASE pc'[p] # "error"
    <3> DEFINE row == Expire(rows[call[p].s], now)
    <3>1. rows[call[p].s] \in Row
      BY <1>0, RowOfCall DEF NamesSession
    <3>2. row.status = "EXPIRED"
      BY <3>1 DEF Expire, Row
    <3>3. Goto(p, "expired", row)
      BY <1>3, <2>2, Ends DEF FindExpires
    <3> HIDE DEF row
    <3>4. pc'[p] = "expired" /\ local'[p].seen = row
      BY <3>3, GoesOn DEF Carrying, Results
    <3> QED
      BY <1>0, <3>2, <3>4 DEF ServesItsCall, Saving
  <2> QED
    BY <2>1, <2>2
<1> QED
  BY <1>1, <1>2, <1>3 DEF FindStep

\* A step of create, open or a close stays with its call.
LEMMA SessionServes ==
    ASSUME TypeInv, NEW p \in Procs, ServesItsCall(p), SessionStep(p)
    PROVE  ServesItsCall(p)'
<1>1. CASE CreateCheck(p)
  <2>1. PICK label \in {"refused", "conflict", "createInsert"} : pc'[p] = label
    BY <1>1, GoesOn DEF CreateCheck
  <2> QED
    BY <1>1, <2>1 DEF CreateCheck, ServesItsCall, Saving
<1>2. CASE CreateInsert(p)
  <2>1. PICK label \in {"ok", "conflict", "error"} : pc'[p] = label
    BY <1>2, Ends DEF CreateInsert
  <2>2. call \in [Procs -> Call] /\ call[p].op = "create"
    BY <1>2 DEF TypeInv, TypeOK, CreateInsert, ServesItsCall
  <2>3. call'[p].op = "create"
    BY <1>2, <2>2 DEF CreateInsert, Call
  <2> QED
    BY <1>2, <2>1, <2>2, <2>3 DEF ServesItsCall, Saving
<1>3. CASE OpenUpdate(p) \/ GuestCloseUpdate(p)
  <2>1. pc'[p] \in {"find", "error", "conflict"}
    BY <1>3, Ends DEF OpenUpdate, GuestCloseUpdate, TypeInv, TypeOK
  <2>2. UNCHANGED call /\ pc[p] \in {"openUpdate", "guestCloseUpdate"}
    BY <1>3 DEF OpenUpdate, GuestCloseUpdate
  <2> QED
    BY <2>1, <2>2 DEF ServesItsCall, Saving
<1>4. CASE CloseUpdate(p)
  <2>1. pc'[p] \in {"announceClosed", "error"}
    BY <1>4, Ends, GoesOn DEF CloseUpdate
  <2> QED
    BY <1>4, <2>1 DEF CloseUpdate, ServesItsCall, Saving
<1>5. CASE AnnounceOpened(p)
  <2>1. pc'[p] = "ok"
    BY <1>5, Ends DEF AnnounceOpened
  <2> QED
    BY <1>5, <2>1 DEF AnnounceOpened, ServesItsCall, Saving
<1>6. CASE AnnounceClosed(p)
  <2>1. CASE call[p].op \in {"sweep", "list"}
    <3>1. pc'[p] = "sweep"
      BY <1>6, <2>1 DEF AnnounceClosed, TypeInv, TypeOK
    <3> QED
      BY <1>6, <2>1, <3>1 DEF AnnounceClosed, ServesItsCall, Saving
  <2>2. CASE call[p].op \notin {"sweep", "list"}
    <3>1. pc'[p] = "ok"
      BY <1>6, <2>2, Ends DEF AnnounceClosed
    <3> QED
      BY <1>6, <3>1 DEF AnnounceClosed, ServesItsCall, Saving
  <2> QED
    BY <2>1, <2>2
<1> QED
  BY <1>1, <1>2, <1>3, <1>4, <1>5, <1>6 DEF SessionStep

\* A sweep goes from one session to the next for the same caller.
LEMMA SweepKeepsOp ==
    ASSUME TypeInv, NEW p \in Procs, ServesItsCall(p), SweepStep(p)
    PROVE  call'[p].op = call[p].op /\ call[p].op \in {"list", "sweep"}
<1>0. /\ call[p].op \in {"list", "sweep"}
      /\ call \in [Procs -> Call] /\ call[p] \in Call
  BY DEF SweepStep, SweepSelect, SweepExpires, SweepDone, TimerFires, ServesItsCall,
         TypeInv, TypeOK
<1>1. UNCHANGED call \/ \E s : call' = [call EXCEPT ![p].s = s]
  BY DEF SweepStep, SweepSelect, SweepExpires, SweepDone
<1>2. \A s : [call[p] EXCEPT !.s = s].op = call[p].op
  BY <1>0 DEF Call
<1> QED
  BY <1>0, <1>1, <1>2

\* A step of a sweep stays with its call.
LEMMA SweepServes ==
    ASSUME TypeInv, NEW p \in Procs, ServesItsCall(p), SweepStep(p)
    PROVE  ServesItsCall(p)'
<1>0. /\ pc[p] \in {"sweepSelect", "sweep"} \/ p = Timer
      /\ call[p].op \in {"list", "sweep"}
      /\ pc \in [Procs -> Labels] /\ call \in [Procs -> Call] /\ local \in [Procs -> Local]
  BY DEF SweepStep, SweepSelect, SweepExpires, SweepDone, TimerFires, ServesItsCall,
         TypeInv, TypeOK
<1>1. pc'[p] \in {"sweep", "find", "ok", "idle"}
  <2>1. CASE SweepSelect(p) \/ SweepExpires(p)
    BY <1>0, <2>1 DEF SweepSelect, SweepExpires
  <2>2. CASE SweepDone(p)
    BY <2>2, Ends DEF SweepDone
  <2> QED
    BY <2>1, <2>2 DEF SweepStep
<1>2. call'[p].op = call[p].op
  BY SweepKeepsOp
<1>3. pc'[p] = "idle" => ~local'[p].again
  <2>1. SweepDone(p) => local'[p] = Blank
    BY Ends DEF SweepDone
  <2>2. ~SweepDone(p) => pc'[p] \in {"sweep", "find"}
    BY <1>0 DEF SweepStep, SweepSelect, SweepExpires
  <2> QED
    BY <2>1, <2>2 DEF Blank
<1> QED
  BY <1>0, <1>1, <1>2, <1>3 DEF ServesItsCall, Saving

\* A step of save stays with its call.
LEMMA SaveServes ==
    ASSUME TypeInv, NEW p \in Procs, ServesItsCall(p), SaveStep(p)
    PROVE  ServesItsCall(p)'
<1>0. /\ UNCHANGED call /\ call[p].op = "save"
      /\ pc \in [Procs -> Labels]
  BY DEF SaveStep, SaveRead, SaveExpires, SaveAnnouncesExpiry, TxBegin, TxTimer, TxLatest,
         TxInsert, TxCommit, Reread, AnnounceTimer, SaveExisting, ServesItsCall, Saving,
         TypeInv, TypeOK
<1>1. pc'[p] \in Saving \cup Results
  <2>1. CASE SaveRead(p) \/ SaveExpires(p) \/ TxLatest(p) \/ TxCommit(p) \/ Reread(p)
    BY <2>1, GoesOn, Ends
    DEF SaveRead, SaveExpires, TxLatest, TxCommit, Reread, SaveJudges, Saving, Results
  <2>2. CASE TxBegin(p) \/ TxTimer(p) \/ TxInsert(p)
    BY <1>0, <2>2, GoesOn, Ends DEF TxBegin, TxTimer, TxInsert, Saving, Results
  <2>3. CASE SaveAnnouncesExpiry(p) \/ AnnounceTimer(p) \/ SaveExisting(p)
    BY <2>3, Ends DEF SaveAnnouncesExpiry, AnnounceTimer, SaveExisting, Results
  <2> QED
    BY <2>1, <2>2, <2>3 DEF SaveStep
<1> QED
  BY <1>0, <1>1 DEF ServesItsCall, Saving, Results

\* A handler's step leaves the others as they are.
LEMMA OneSteps ==
    ASSUME TypeInv, NEW p \in Procs, Step(p), NEW q \in Procs, q # p
    PROVE  pc'[q] = pc[q] /\ call'[q] = call[q] /\ local'[q] = local[q]
<1>0. pc \in [Procs -> Labels] /\ call \in [Procs -> Call] /\ local \in [Procs -> Local]
  BY DEF TypeInv, TypeOK
<1>1. CASE FindStep(p)
  BY <1>1, GoesOn, Ends DEF FindStep, Find, FindNothing, FindExpires, AnnounceExpired
<1>2. CASE SessionStep(p)
  BY <1>0, <1>2, GoesOn, Ends
  DEF SessionStep, CreateCheck, CreateInsert, OpenUpdate, AnnounceOpened, CloseUpdate,
      GuestCloseUpdate, AnnounceClosed
<1>3. CASE SweepStep(p)
  BY <1>0, <1>3, Ends DEF SweepStep, SweepSelect, SweepExpires, SweepDone
<1>4. CASE SaveStep(p)
  <2>1. CASE SaveRead(p) \/ SaveExpires(p) \/ TxLatest(p) \/ TxCommit(p) \/ Reread(p)
    BY <2>1, GoesOn, Ends DEF SaveRead, SaveExpires, TxLatest, TxCommit, Reread
  <2>2. CASE TxBegin(p) \/ TxTimer(p) \/ TxInsert(p)
    BY <1>0, <2>2, GoesOn, Ends DEF TxBegin, TxTimer, TxInsert
  <2>3. CASE SaveAnnouncesExpiry(p) \/ AnnounceTimer(p) \/ SaveExisting(p)
    BY <2>3, Ends DEF SaveAnnouncesExpiry, AnnounceTimer, SaveExisting
  <2> QED
    BY <1>4, <2>1, <2>2, <2>3 DEF SaveStep
<1> QED
  BY <1>1, <1>2, <1>3, <1>4 DEF Step

\* Calls, restarts and the clock keep handlers with their operations.
LEMMA StepServes ==
    ASSUME TypeInv, [Next]_vars, NEW p \in Procs, ServesItsCall(p)
    PROVE  ServesItsCall(p)'
<1>0. /\ pc \in [Procs -> Labels] /\ call \in [Procs -> Call] /\ local \in [Procs -> Local]
      /\ Timer \notin Requests
  BY ConstantsAssumption DEF TypeInv, TypeOK
<1>1. CASE UNCHANGED <<pc, call, local>>
  BY <1>1 DEF ServesItsCall
<1>2. ASSUME NEW q \in Procs, Step(q)
      PROVE  ServesItsCall(p)'
  <2>1. CASE q = p
    BY <1>2, <2>1, FindServes, SessionServes, SweepServes, SaveServes DEF Step
  <2>2. CASE q # p
    BY <1>2, <2>2, OneSteps DEF ServesItsCall
  <2> QED
    BY <2>1, <2>2
<1>3. ASSUME NEW q \in Requests, Receives(q)
      PROVE  ServesItsCall(p)'
  <2>1. PICK label, c :
          /\ Receive(q, c, label)
          /\ \/ label = "createCheck" /\ c.op = "create"
             \/ /\ label = "find" /\ c.op \in {"read", "open", "close", "closeByGuest"}
                /\ c.s \in Sessions /\ (c.op = "open" => c.by \in Agents)
             \/ label = "sweepSelect" /\ c.op = "list"
             \/ label = "saveRead" /\ c.op = "save" /\ c.s \in Sessions
    <3>1. ASSUME NEW room \in Rooms, ReceiveCreate(q, room)
          PROVE  \E c : Receive(q, c, "createCheck") /\ c.op = "create"
      <4>1. [NoCall EXCEPT !.op = "create", !.room = room].op = "create"
        BY DEF NoCall
      <4> QED
        BY <3>1, <4>1 DEF ReceiveCreate
    <3>2. ASSUME NEW op \in {"read", "open", "close", "closeByGuest"}, NEW s \in Sessions,
                 NEW by, ReceiveFind(q, op, s, by)
          PROVE  \E c : /\ Receive(q, c, "find") /\ c.op = op /\ c.s = s
                        /\ op = "open" => c.by \in Agents
      <4>1. /\ [NoCall EXCEPT !.op = op, !.s = s, !.by = by].op = op
            /\ [NoCall EXCEPT !.op = op, !.s = s, !.by = by].s = s
            /\ [NoCall EXCEPT !.op = op, !.s = s, !.by = by].by = by
        BY DEF NoCall
      <4>2. op = "open" => by \in Agents
        BY <3>2 DEF ReceiveFind, TypeInv, TypeOK
      <4> QED
        BY <3>2, <4>1, <4>2 DEF ReceiveFind
    <3>3. ASSUME ReceiveList(q)
          PROVE  \E c : Receive(q, c, "sweepSelect") /\ c.op = "list"
      <4>1. [NoCall EXCEPT !.op = "list"].op = "list"
        BY DEF NoCall
      <4> QED
        BY <3>3, <4>1 DEF ReceiveList
    <3>4. ASSUME NEW s \in Sessions, NEW by, NEW key, ReceiveSave(q, s, by, key)
          PROVE  \E c : Receive(q, c, "saveRead") /\ c.op = "save" /\ c.s = s
      <4>1. /\ [NoCall EXCEPT !.op = "save", !.s = s, !.by = by, !.key = key].op = "save"
            /\ [NoCall EXCEPT !.op = "save", !.s = s, !.by = by, !.key = key].s = s
        BY DEF NoCall
      <4> QED
        BY <3>4, <4>1 DEF ReceiveSave
    <3> QED
      BY <1>3, <3>1, <3>2, <3>3, <3>4 DEF Receives
  <2>2. CASE p = q
    <3>1. pc[p] = "idle" /\ pc'[p] = label /\ call'[p] = c /\ local'[p] = local[p] /\ p # Timer
      BY <1>0, <1>3, <2>1, <2>2 DEF Receive
    <3> QED
      BY <2>1, <3>1 DEF ServesItsCall, Saving
  <2>3. CASE p # q
    BY <1>0, <2>1, <2>3 DEF Receive, ServesItsCall
  <2> QED
    BY <2>2, <2>3
<1>4. CASE Stop
  <2>1. pc'[p] \in {"idle", "lost", pc[p]} /\ ~local'[p].again
        /\ (pc'[p] = pc[p] => pc[p] \in Results \cup {"idle", "lost"})
    BY <1>0, <1>4 DEF Stop, Results, Blank
  <2>2. /\ call'[p].op = call[p].op
        /\ p # Timer => call'[p] = call[p]
    <3>1. call' = [call EXCEPT ![Timer].s = None] /\ call[Timer] \in Call
      BY <1>0, <1>4 DEF Stop, Procs
    <3>2. [call[Timer] EXCEPT !.s = None].op = call[Timer].op
      BY <3>1 DEF Call
    <3> QED
      BY <1>0, <3>1, <3>2
  <2> QED
    BY <2>1, <2>2 DEF ServesItsCall, Saving, Results
<1>5. CASE Environment \/ Tick \/ TimerRejects \/ UNCHANGED vars
  BY <1>1, <1>4, <1>5
  DEF Environment, DeleteRoom, DeleteAgent, DeleteExpiredHistory, Crash, Tick, TimerRejects,
      vars
<1> QED
  BY <1>2, <1>3, <1>5 DEF Next, Rest

-----------------------------------------------------------------------------
(* Owners. *)

\* What a step does to a row that its owner, and readers of messages, rely on.
LEMMA RowSteps ==
    ASSUME WindowInv, [Next]_vars, NEW s \in Sessions
    PROVE  /\ Known(s) => Known(s)' /\ LifecycleStep(rows[s], rows'[s])
                          /\ KeptOpen(rows[s], rows'[s])
           /\ rows[s].status = "UNUSED" /\ rows'[s] # rows[s] =>
                 rows'[s].agent = None \/ Kept(rows[s], rows'[s])
           /\ Gone(s) => Gone(s)'
<1>1. TypeInv /\ TypeInv' /\ Calm(s)
  BY StepWindow, StepTypes DEF WindowInv, WindowStep
<1>2. CASE \A x \in Sessions : Kept(rows[x], rows'[x])
  <2>1. Kept(rows[s], rows'[s])
    BY <1>2
  <2>2. Gone(s) => Gone(s)'
    <3>1. rows[s] \in Row /\ rows'[s] \in Row
      BY <1>1 DEF TypeInv, TypeOK
    <3> QED
      BY <1>1, <3>1 DEF Gone, Calm, Known, Present, Row, Status, Open, Terminal
  <2> QED
    BY <1>1, <2>1, <2>2 DEF Kept, Calm
<1>3. CASE \E p \in Procs : CreateInsert(p) /\ ~UNCHANGED rows
  <2>1. PICK x \in Sessions :
          /\ rows[x].status = "UNUSED"
          /\ rows'[x].agent = None
          /\ \A t \in Sessions \ {x} : rows'[t] = rows[t]
    BY <1>1, <1>3, CreateOpensOne
  <2>2. CASE s = x
    BY <1>1, <2>1, <2>2 DEF Known, Gone
  <2>3. CASE s # x
    <3>1. rows'[s] = rows[s]
      BY <2>1, <2>3
    <3> QED
      BY <3>1, SameIsKept DEF Kept, Known, Gone
  <2> QED
    BY <2>2, <2>3
<1> QED
  BY <1>1, <1>2, <1>3, StepKeeps

\* A session that has been opened by one is never opened by another.
LEMMA ClaimsStay ==
    ASSUME WindowInv, [Next]_vars, NEW s \in Sessions, NEW by, Claimed(s, by)
    PROVE  Claimed(s, by)'
<1>1. rows[s] \in Row
  BY DEF WindowInv, TypeInv, TypeOK
<1>2. /\ Known(s)' /\ LifecycleStep(rows[s], rows'[s]) /\ KeptOpen(rows[s], rows'[s])
  BY RowSteps DEF Claimed, Known
<1> QED
  BY <1>1, <1>2
  DEF Claimed, Known, LifecycleStep, KeptOpen, Row, Status, Open, Terminal

\* A session that waits has no owner.
LEMMA UnownedStays ==
    ASSUME WindowInv, [Next]_vars, NEW s \in Sessions,
           rows[s].status \in {"UNUSED", "WAITING"} => rows[s].agent = None,
           rows'[s].status \in {"UNUSED", "WAITING"}
    PROVE  rows'[s].agent = None
<1>1. rows[s] \in Row
  BY DEF WindowInv, TypeInv, TypeOK
<1>2. CASE Known(s)
  <2>1. rows'[s].status = "WAITING" /\ rows[s].status = "WAITING"
    BY <1>1, <1>2, RowSteps
    DEF Known, LifecycleStep, KeptOpen, Row, Status, Open, Terminal
  <2> QED
    BY <1>2, <2>1, RowSteps DEF LifecycleStep
<1>3. CASE ~Known(s)
  BY <1>3, RowSteps DEF Known, Kept, LifecycleStep
<1> QED
  BY <1>2, <1>3

\* A call to open is granted when its conditional update finds the session
\* unopened, or when the session is found to be the caller's already.
Wins(p) ==
    /\ Step(p) /\ call[p].op = "open"
    /\ \/ Unopened(rows[call[p].s]) /\ Claimed(call[p].s, call[p].by)'
       \/ /\ UNCHANGED rows
          /\ rows[call[p].s].status = "ACTIVE" /\ rows[call[p].s].agent = call[p].by

\* A handler's own step grants an open only by winning it.
LEMMA GrantedByStep ==
    ASSUME WindowInv, NEW p \in Procs, ServesItsCall(p), Step(p), Granted(p)'
    PROVE  call'[p] = call[p] /\ (Granted(p) \/ Wins(p))
<1>0. /\ TypeInv
      /\ pc \in [Procs -> Labels] /\ call \in [Procs -> Call] /\ local \in [Procs -> Local]
  BY DEF WindowInv, TypeInv, TypeOK
<1>1. CASE FindStep(p)
  <2>0. UNCHANGED call /\ call[p].op = "open"
    BY <1>1 DEF FindStep, Find, FindNothing, FindExpires, AnnounceExpired, Granted
  <2>1. CASE Find(p) \/ AnnounceExpired(p)
    <3>1. PICK row, label :
            /\ \/ label = "expire"
               \/ label = AfterFind(call[p], local[p].again, row)
            /\ Goto(p, label, row)
            /\ UNCHANGED rows
            /\ row = rows[call[p].s] \/ row.status = "EXPIRED"
      BY <2>1 DEF Find, AnnounceExpired, ServesItsCall, db
    <3>2. /\ pc'[p] = label
          /\ label \in Results => local'[p] = Blank
          /\ label \notin Results => local'[p].again = local[p].again
      BY <1>0, <3>1, GoesOn
    <3>3. CASE label = "expire"
      BY <2>0, <3>2, <3>3 DEF Granted, Results
    <3>4. CASE label = AfterFind(call[p], local[p].again, row)
      <4>1. CASE label = "ok"
        <5>1. row.status = "ACTIVE" /\ row.agent = call[p].by
          BY <2>0, <3>4, <4>1 DEF AfterFind, CanOpen
        <5> QED
          BY <2>0, <3>1, <5>1 DEF Wins
      <4>2. CASE label # "ok"
        <5>1. label = "announceOpened" => local[p].again
          BY <3>4, AfterFindServes
        <5>2. local[p].again
          BY <2>0, <3>2, <4>2, <5>1 DEF Granted, Blank
        <5> QED
          BY <2>0, <5>2 DEF Granted
      <4> QED
        BY <4>1, <4>2
    <3> QED
      BY <3>1, <3>3, <3>4
  <2>2. CASE FindNothing(p)
    BY <1>0, <2>2, Ends DEF FindNothing, Granted, Blank
  <2>3. CASE FindExpires(p)
    <3>1. \/ pc'[p] = "expired" /\ local'[p].again = local[p].again
          \/ pc'[p] = "error" /\ local'[p] = Blank
      BY <1>0, <2>3, GoesOn, Ends DEF FindExpires, Results
    <3> QED
      BY <2>0, <3>1 DEF Granted, Blank
  <2> QED
    BY <1>1, <2>1, <2>2, <2>3 DEF FindStep
<1>2. CASE OpenUpdate(p)
  <2> DEFINE s == call[p].s
             by == call[p].by
  <2>0. /\ UNCHANGED call /\ call[p].op = "open" /\ s \in Sessions /\ by \in Agents
        /\ rows[s] \in Row /\ rows \in [Sessions -> Row]
    BY <1>0, <1>2 DEF OpenUpdate, ServesItsCall, TypeInv, TypeOK
  <2>1. CASE Unopened(rows[s]) /\ by \in staff
    <3> DEFINE row == Assign(rows[s], by)
    <3>1. row.status = "ACTIVE" /\ row.agent = by
      BY <2>0 DEF Assign, Row
    <3>2. rows' = [rows EXCEPT ![s] = row]
      BY <1>2, <2>1 DEF OpenUpdate
    <3> HIDE DEF row
    <3>3. Claimed(s, by)'
      BY <2>0, <3>1, <3>2 DEF Claimed
    <3> QED
      BY <2>0, <2>1, <3>3 DEF Wins
  <2>2. CASE ~(Unopened(rows[s]) /\ by \in staff)
    <3>1. pc'[p] \in {"error", "conflict"} /\ local'[p] = Blank
      BY <1>0, <1>2, <2>2, Ends DEF OpenUpdate
    <3> QED
      BY <3>1 DEF Granted, Blank
  <2> QED
    BY <2>1, <2>2
<1>3. CASE AnnounceOpened(p)
  BY <1>3 DEF AnnounceOpened, Granted, ServesItsCall
<1>4. CASE CreateCheck(p) \/ CreateInsert(p)
  <2>1. call'[p].op = "create"
    BY <1>0, <1>4 DEF CreateCheck, CreateInsert, ServesItsCall, Call
  <2> QED
    BY <2>1 DEF Granted
<1>5. CASE CloseUpdate(p) \/ GuestCloseUpdate(p) \/ AnnounceClosed(p)
  BY <1>5 DEF CloseUpdate, GuestCloseUpdate, AnnounceClosed, Granted, ServesItsCall
<1>6. CASE SweepStep(p) \/ SaveStep(p)
  <2>1. ServesItsCall(p)'
    BY <1>0, <1>6, SweepServes, SaveServes
  <2>2. call'[p].op = call[p].op /\ call[p].op # "open"
    <3>1. CASE SaveStep(p)
      BY <3>1 DEF SaveStep, SaveRead, SaveExpires, SaveAnnouncesExpiry, TxBegin, TxTimer,
         TxLatest, TxInsert, TxCommit, Reread, AnnounceTimer, SaveExisting, ServesItsCall,
         Saving
    <3>2. CASE SweepStep(p)
      BY <1>0, <3>2, SweepKeepsOp DEF Call
    <3> QED
      BY <1>6, <3>1, <3>2
  <2> QED
    BY <2>2 DEF Granted
<1> QED
  BY <1>1, <1>2, <1>3, <1>4, <1>5, <1>6 DEF Step, SessionStep

-----------------------------------------------------------------------------
(* What a step writes. *)

\* The statements that write one row and no message.
WritesRow(s) ==
    \/ Present(s) /\ \E t : rows' = [rows EXCEPT ![s] = Expire(rows[s], t)]
    \/ Present(s) /\ \E t : rows' = [rows EXCEPT ![s] = Close(rows[s], t, "AGENT_CLOSED")]
    \/ /\ StillOpen(rows[s])
       /\ \E t : rows' = [rows EXCEPT ![s] = Close(rows[s], t, "GUEST_CLOSED")]
    \/ Unopened(rows[s]) /\ \E by : rows' = [rows EXCEPT ![s] = Assign(rows[s], by)]

\* Every write of the tables, by the statement that makes it.
Writes ==
    \/ UNCHANGED <<rows, messages>>
    \/ UNCHANGED messages /\ \E s \in Sessions : WritesRow(s)
    \/ \E p \in Procs : CreateInsert(p) \/ TxCommit(p)
    \/ \E gone : DeleteSessions(gone)
    \/ \E a \in Agents : DeleteAgent(a)

\* Handlers write one row and no message, but for create and the commit.
LEMMA HandlerWrites ==
    ASSUME TypeInv, NEW p \in Procs, Step(p)
    PROVE  Writes
<1> DEFINE s == call[p].s
<1>1. CASE UNCHANGED <<rows, messages>>
  BY <1>1 DEF Writes
<1>2. CASE CreateInsert(p) \/ TxCommit(p)
  BY <1>2 DEF Writes
<1>3. ASSUME \/ FindExpires(p) \/ SaveExpires(p) \/ OpenUpdate(p)
             \/ CloseUpdate(p) \/ GuestCloseUpdate(p)
      PROVE  Writes
  <2>1. s \in Sessions /\ UNCHANGED messages
    BY <1>3, RowOfCall
    DEF FindExpires, SaveExpires, OpenUpdate, CloseUpdate, GuestCloseUpdate, NamesSession
  <2>2. CASE UNCHANGED rows
    BY <2>1, <2>2 DEF Writes
  <2>3. CASE ~UNCHANGED rows
    <3>1. FindExpires(p) \/ SaveExpires(p) => WritesRow(s)
      BY <2>3 DEF FindExpires, SaveExpires, WritesRow
    <3>2. CloseUpdate(p) => WritesRow(s)
      BY <2>3 DEF CloseUpdate, WritesRow
    <3>3. GuestCloseUpdate(p) => WritesRow(s)
      BY <2>3 DEF GuestCloseUpdate, WritesRow
    <3>4. OpenUpdate(p) => WritesRow(s)
      BY <2>3 DEF OpenUpdate, WritesRow
    <3> QED
      BY <1>3, <2>1, <3>1, <3>2, <3>3, <3>4 DEF Writes
  <2> QED
    BY <2>2, <2>3
<1>4. CASE SweepExpires(p)
  <2>1. PICK x \in local[p].due :
          IF Lapsed(rows[x], local[p].at)
          THEN rows' = [rows EXCEPT ![x] = Expire(rows[x], local[p].at)]
          ELSE UNCHANGED rows
    BY <1>4 DEF SweepExpires
  <2>2. x \in Sessions /\ UNCHANGED messages
    BY <1>4, <2>1 DEF SweepExpires, TypeInv, TypeOK, Local
  <2>3. CASE Lapsed(rows[x], local[p].at)
    BY <2>1, <2>2, <2>3 DEF Writes, WritesRow, Lapsed, Present, Open
  <2>4. CASE ~Lapsed(rows[x], local[p].at)
    BY <2>1, <2>2, <2>4 DEF Writes
  <2> QED
    BY <2>3, <2>4
<1> QED
  BY <1>1, <1>2, <1>3, <1>4
  DEF Step, FindStep, Find, FindNothing, AnnounceExpired,
      SessionStep, CreateCheck, AnnounceOpened, AnnounceClosed,
      SweepStep, SweepSelect, SweepDone,
      SaveStep, SaveRead, SaveAnnouncesExpiry, TxBegin, TxTimer, TxLatest,
      TxInsert, Reread, AnnounceTimer, SaveExisting, db

\* Calls, the clock and restarts write nothing.
LEMMA StepWrites ==
    ASSUME TypeInv, [Next]_vars
    PROVE  Writes
<1>1. ASSUME NEW p \in Requests, Receives(p)
      PROVE  UNCHANGED <<rows, messages>>
  BY <1>1 DEF Receives, ReceiveCreate, ReceiveFind, ReceiveList, ReceiveSave, Receive, db
<1>2. CASE Environment
  BY <1>2 DEF Environment, DeleteRoom, DeleteExpiredHistory, Crash, Stop, Writes
<1>3. CASE Tick \/ TimerRejects \/ UNCHANGED vars
  BY <1>3 DEF Tick, TimerRejects, Stop, db, vars, Writes
<1> QED
  BY <1>1, <1>2, <1>3, HandlerWrites DEF Next, Rest, Writes

\* A guest's close is written on an open session only, and what else rewrites
\* an ended session gives it another reason or keeps the one it has.
THEOREM GuestCloseKeeps == Spec => GuestCloseKeepsTheRecord
<1> DEFINE Keeps(s) == rows[s].status \in Terminal /\ rows'[s] # rows[s] =>
                         \/ rows'[s].closeReason # "GUEST_CLOSED"
                         \/ rows'[s].closeReason = rows[s].closeReason
<1>1. ASSUME TypeInv, [Next]_vars, NEW s \in Sessions
      PROVE  Keeps(s)
  <2>0. rows \in [Sessions -> Row] /\ rows[s] \in Row
    BY <1>1 DEF TypeInv, TypeOK
  <2>1. ASSUME NEW x \in Sessions, WritesRow(x)
        PROVE  Keeps(s)
    <3>1. CASE s # x
      BY <2>0, <2>1, <3>1 DEF WritesRow
    <3>2. CASE s = x
      BY <2>0, <2>1, <3>2
      DEF WritesRow, Expire, Close, StillOpen, Unopened, Row, Open, Terminal
    <3> QED
      BY <3>1, <3>2
  <2>2. ASSUME NEW p \in Procs, CreateInsert(p)
        PROVE  Keeps(s)
    BY <2>0, <2>2 DEF CreateInsert, Terminal
  <2>3. ASSUME NEW p \in Procs, TxCommit(p)
        PROVE  Keeps(s)
    <3> DEFINE row == IF HoldsLock(p)
                      THEN Started(Touched(rows[s], local[p].born), local[p].at)
                      ELSE Touched(rows[s], local[p].born)
    <3>1. row.closeReason = rows[s].closeReason
      BY <2>0 DEF Started, Touched, Row
    <3>2. rows'[s] = rows[s] \/ rows'[s] = row
      BY <2>0, <2>3 DEF TxCommit
    <3> QED
      BY <3>1, <3>2
  <2>4. ASSUME NEW gone, DeleteSessions(gone)
        PROVE  Keeps(s)
    BY <2>4 DEF DeleteSessions, AbsentRow
  <2>5. ASSUME NEW a \in Agents, DeleteAgent(a)
        PROVE  Keeps(s)
    BY <2>0, <2>5 DEF DeleteAgent, Row
  <2> QED
    BY <1>1, StepWrites, <2>1, <2>2, <2>3, <2>4, <2>5 DEF Writes
<1>2. TypeInv /\ [Next]_vars =>
        [\A s \in Sessions :
           rows[s].status \in Terminal /\ rows'[s] # rows[s] =>
              rows'[s].closeReason # "GUEST_CLOSED"
              \/ rows'[s].closeReason = rows[s].closeReason]_vars
  BY <1>1
<1> QED
  BY <1>2, TypeCorrect, PTL DEF Spec, GuestCloseKeepsTheRecord

\* A commit writes its message, and touches the row with the message's time.
LEMMA CommitWrites ==
    ASSUME TypeInv, NEW p \in Procs, TxCommit(p)
    PROVE  LET s == call[p].s
               m == [id |-> p, s |-> s, key |-> call[p].key, by |-> call[p].by,
                     at |-> local[p].born]
           IN  /\ s \in Sessions /\ UNCHANGED call /\ pc[p] = "txCommit"
               /\ messages' = messages \cup {m}
               /\ rows'[s].lastActivityAt = m.at
               /\ rows'[s].status = rows[s].status
               /\ \A t \in Sessions \ {s} : rows'[t] = rows[t]
<1> DEFINE s == call[p].s
           row == IF HoldsLock(p)
                  THEN Started(Touched(rows[s], local[p].born), local[p].at)
                  ELSE Touched(rows[s], local[p].born)
<1>1. /\ s \in Sessions /\ rows[s] \in Row /\ rows \in [Sessions -> Row]
      /\ rows' = [rows EXCEPT ![s] = row]
  BY RowOfCall DEF TxCommit, NamesSession, TypeInv, TypeOK
<1>2. row.lastActivityAt = local[p].born /\ row.status = rows[s].status
  BY <1>1 DEF Started, Touched, Row
<1> HIDE DEF row
<1> QED
  BY <1>1, <1>2 DEF TxCommit

\* create stores one message, of a session nobody has heard of.
LEMMA CreateWrites ==
    ASSUME TypeInv, NEW p \in Procs, CreateInsert(p)
    PROVE  \/ UNCHANGED <<rows, messages>>
           \/ \E s \in Sessions :
                /\ rows[s].status = "UNUSED"
                /\ messages' = messages \cup {WelcomeMessage(s, now)}
                /\ rows'[s].lastActivityAt = now
                /\ \A t \in Sessions \ {s} : rows'[t] = rows[t]
<1>1. CASE UNCHANGED <<rows, messages>>
  BY <1>1
<1>2. CASE ~UNCHANGED <<rows, messages>>
  <2>1. PICK s \in Sessions :
          /\ rows[s].status = "UNUSED"
          /\ rows' = [rows EXCEPT ![s] = NewRow(call[p].room, now)]
          /\ messages' = messages \cup {WelcomeMessage(s, now)}
    BY <1>2 DEF CreateInsert
  <2> DEFINE row == NewRow(call[p].room, now)
  <2>2. row.lastActivityAt = now
    BY DEF NewRow, AbsentRow
  <2>3. rows \in [Sessions -> Row] /\ rows' = [rows EXCEPT ![s] = row]
    BY <2>1 DEF TypeInv, TypeOK
  <2> HIDE DEF row
  <2> QED
    BY <2>1, <2>2, <2>3
<1> QED
  BY <1>1, <1>2

\* Nothing but a deletion takes a message away, and its session with it.
LEMMA MessagesStay ==
    ASSUME TypeInv, [Next]_vars, NEW m \in messages, m \notin messages'
    PROVE  Gone(m.s)'
<1>0. m.s \in Sessions
  BY DEF TypeInv, TypeOK, Message
<1>1. PICK gone : DeleteSessions(gone)
  BY StepWrites, CommitWrites, CreateWrites DEF Writes, DeleteAgent
<1> QED
  BY <1>0, <1>1 DEF DeleteSessions, AbsentRow, Gone

\* A message appears by a commit, or with its session.
LEMMA MessagesCome ==
    ASSUME WindowInv, [Next]_vars, NEW m \in messages', m \notin messages
    PROVE  \/ /\ m.by = None
              /\ \A n \in messages : n.s # m.s
              /\ \A n \in messages' : n \in messages \/ n = m
              /\ \A p \in Procs : pc[p] = "txCommit" => call[p].s # m.s
           \/ \E p \in Procs :
                /\ TxCommit(p)
                /\ m = [id |-> p, s |-> call[p].s, key |-> call[p].key,
                        by |-> call[p].by, at |-> local[p].born]
                /\ \A n \in messages' : n \in messages \/ n = m
<1>0. TypeInv
  BY DEF WindowInv
<1>1. PICK p \in Procs : CreateInsert(p) \/ TxCommit(p)
  BY <1>0, StepWrites DEF Writes, DeleteAgent, DeleteSessions
<1>2. CASE TxCommit(p)
  BY <1>0, <1>2, CommitWrites
<1>3. CASE CreateInsert(p)
  <2>1. PICK s \in Sessions :
          /\ rows[s].status = "UNUSED"
          /\ messages' = messages \cup {WelcomeMessage(s, now)}
    BY <1>0, <1>3, CreateWrites
  <2>2. m = WelcomeMessage(s, now) /\ m.s = s /\ m.by = None
    BY <2>1 DEF WelcomeMessage
  <2>3. ~Present(s)
    BY <2>1 DEF Present, Open, Terminal
  <2>4. \A n \in messages : n.s # s
    BY <2>3 DEF WindowInv, NoOrphanMessage
  <2>5. \A q \in Procs : pc[q] = "txCommit" => call[q].s # s
    BY <2>3 DEF WindowInv, HandlerInv
  <2> QED
    BY <2>1, <2>2, <2>4, <2>5
<1> QED
  BY <1>1, <1>2, <1>3

-----------------------------------------------------------------------------
(* The time of the last activity. *)

\* Whatever moves lastActivityAt stores a message of that time with it, and
\* what takes the message away takes the session.
LEMMA StepActivity ==
    ASSUME TypeInv, ActivityIsAMessage, [Next]_vars
    PROVE  ActivityIsAMessage'
<1> SUFFICES ASSUME NEW s \in Sessions, Present(s)'
             PROVE  \E m \in messages' : m.s = s /\ m.at = rows'[s].lastActivityAt
  BY DEF ActivityIsAMessage
<1>0. rows \in [Sessions -> Row] /\ rows[s] \in Row /\ rows' \in [Sessions -> Row]
  BY StepTypes DEF TypeInv, TypeOK
<1>1. ASSUME rows'[s].lastActivityAt = rows[s].lastActivityAt, Present(s)
      PROVE  \E m \in messages' : m.s = s /\ m.at = rows'[s].lastActivityAt
  <2>1. PICK m \in messages : m.s = s /\ m.at = rows[s].lastActivityAt
    BY <1>1 DEF ActivityIsAMessage
  <2>2. ~Gone(s)'
    BY <1>0 DEF Gone, Present, Open, Terminal
  <2>3. m \in messages'
    BY <2>1, <2>2, MessagesStay
  <2> QED
    BY <1>1, <2>1, <2>3
<1>2. CASE rows'[s] = rows[s]
  BY <1>1, <1>2 DEF Present
<1>3. ASSUME NEW x \in Sessions, WritesRow(x)
      PROVE  /\ rows'[s].lastActivityAt = rows[s].lastActivityAt
             /\ rows'[s] = rows[s] \/ Present(s)
  <2>1. CASE s # x
    BY <1>0, <1>3, <2>1 DEF WritesRow
  <2>2. CASE s = x
    <3>1. PICK row :
            /\ rows' = [rows EXCEPT ![s] = row]
            /\ \E t, by : \/ row = Expire(rows[s], t)
                         \/ row = Close(rows[s], t, "AGENT_CLOSED")
                         \/ row = Close(rows[s], t, "GUEST_CLOSED")
                         \/ row = Assign(rows[s], by)
      BY <1>3, <2>2 DEF WritesRow
    <3>2. row.lastActivityAt = rows[s].lastActivityAt
      BY <1>0, <3>1 DEF Expire, Close, Assign, Row
    <3>3. Present(s)
      BY <1>3, <2>2 DEF WritesRow, StillOpen, Unopened, Open, Present
    <3> QED
      BY <1>0, <3>1, <3>2, <3>3
  <2> QED
    BY <2>1, <2>2
<1>4. ASSUME NEW p \in Procs, CreateInsert(p) \/ TxCommit(p)
      PROVE  \/ rows'[s] = rows[s]
             \/ \E m \in messages' : m.s = s /\ m.at = rows'[s].lastActivityAt
  <2>1. CASE TxCommit(p)
    BY <2>1, CommitWrites
  <2>2. CASE CreateInsert(p)
    <3>1. WelcomeMessage(s, now).s = s /\ WelcomeMessage(s, now).at = now
      BY DEF WelcomeMessage
    <3> QED
      BY <2>2, <3>1, CreateWrites
  <2> QED
    BY <1>4, <2>1, <2>2
<1>5. ASSUME NEW gone, DeleteSessions(gone)
      PROVE  rows'[s] = rows[s]
  <2>1. s \notin gone
    <3>1. AbsentRow("DELETED").status \notin Open \cup Terminal
      BY DEF AbsentRow, Open, Terminal
    <3> QED
      BY <1>5, <3>1 DEF DeleteSessions, Present
  <2> QED
    BY <1>5, <2>1 DEF DeleteSessions
<1>6. ASSUME NEW a \in Agents, DeleteAgent(a)
      PROVE  /\ rows'[s].lastActivityAt = rows[s].lastActivityAt
             /\ Present(s)
  BY <1>0, <1>6 DEF DeleteAgent, Row, Present
<1> QED
  BY <1>1, <1>2, <1>3, <1>4, <1>5, <1>6, StepWrites DEF Writes

-----------------------------------------------------------------------------
(* Owners, continued: the owner's invariant is inductive. *)

\* Where a call starts.
LEMMA ReceivesLabel ==
    ASSUME NEW p \in Requests, Receives(p)
    PROVE  \E c, label : /\ Receive(p, c, label)
                         /\ label \in {"createCheck", "find", "sweepSelect", "saveRead"}
<1>1. (\E room \in Rooms : ReceiveCreate(p, room)) => \E c : Receive(p, c, "createCheck")
  BY DEF ReceiveCreate
<1>2. ASSUME NEW op, NEW s, NEW by, ReceiveFind(p, op, s, by)
      PROVE  \E c : Receive(p, c, "find")
  BY <1>2 DEF ReceiveFind
<1>3. ReceiveList(p) => \E c : Receive(p, c, "sweepSelect")
  BY DEF ReceiveList
<1>4. ASSUME NEW s, NEW by, NEW key, ReceiveSave(p, s, by, key)
      PROVE  \E c : Receive(p, c, "saveRead")
  BY <1>4 DEF ReceiveSave
<1> QED
  BY <1>1, <1>2, <1>3, <1>4 DEF Receives

\* A call to open is granted by a step of its handler only.
LEMMA GrantedBefore ==
    ASSUME WindowInv, \A q \in Procs : ServesItsCall(q), [Next]_vars,
           NEW p \in Procs, Granted(p)'
    PROVE  /\ call'[p].s = call[p].s /\ call'[p].by = call[p].by
           /\ Granted(p) \/ Wins(p)
<1>0. /\ TypeInv /\ Timer \notin Requests
      /\ pc \in [Procs -> Labels] /\ call \in [Procs -> Call] /\ local \in [Procs -> Local]
  BY ConstantsAssumption DEF WindowInv, TypeInv, TypeOK
<1>1. CASE UNCHANGED <<pc, call, local>>
  BY <1>1 DEF Granted
<1>2. ASSUME NEW q \in Procs, Step(q)
      PROVE  /\ call'[p].s = call[p].s /\ call'[p].by = call[p].by
             /\ Granted(p) \/ Wins(p)
  <2>1. CASE q = p
    BY <1>2, <2>1, GrantedByStep
  <2>2. CASE q # p
    BY <1>0, <1>2, <2>2, OneSteps DEF Granted
  <2> QED
    BY <2>1, <2>2
<1>3. ASSUME NEW q \in Requests, Receives(q)
      PROVE  call'[p] = call[p] /\ Granted(p)
  <2>1. PICK c, label : /\ Receive(q, c, label)
                        /\ label \in {"createCheck", "find", "sweepSelect", "saveRead"}
    BY <1>3, ReceivesLabel
  <2>2. CASE p = q
    BY <1>0, <2>1, <2>2 DEF Receive, Granted, ServesItsCall
  <2>3. CASE p # q
    BY <1>0, <2>1, <2>3 DEF Receive, Granted
  <2> QED
    BY <2>2, <2>3
<1>4. CASE Stop
  <2>1. ~local'[p].again /\ p # Timer
    BY <1>0, <1>4, StepServes DEF Stop, Blank, Granted, ServesItsCall
  <2>2. pc'[p] = "ok" /\ pc[p] = "ok"
    <3>1. pc'[p] \in {"announceOpened", "ok"}
      BY <2>1 DEF Granted
    <3>2. pc'[p] = pc[p] \/ pc'[p] = "lost"
      BY <1>0, <1>4, <2>1 DEF Stop
    <3>3. pc'[p] = pc[p] => pc[p] \in Results \cup {"idle", "lost"}
      BY <1>0, <1>4, <2>1 DEF Stop
    <3> QED
      BY <3>1, <3>2, <3>3 DEF Results
  <2>3. call'[p] = call[p]
    BY <1>0, <1>4, <2>1 DEF Stop
  <2> QED
    BY <2>2, <2>3 DEF Granted
<1>5. CASE Environment \/ Tick \/ TimerRejects \/ UNCHANGED vars
  BY <1>1, <1>4, <1>5
  DEF Environment, DeleteRoom, DeleteAgent, DeleteExpiredHistory, Crash, Tick, TimerRejects,
      vars
<1> QED
  BY <1>2, <1>3, <1>5 DEF Next, Rest

\* The owner alone gets as far as inserting a reply.
LEMMA ReplyingBefore ==
    ASSUME WindowInv, [Next]_vars, NEW p \in Procs, Replying(p)'
    PROVE  /\ call'[p] = call[p]
           /\ \/ Replying(p)
              \/ rows'[call[p].s] = rows[call[p].s] /\ rows[call[p].s].agent = call[p].by
<1>0. /\ TypeInv
      /\ pc \in [Procs -> Labels] /\ call \in [Procs -> Call] /\ local \in [Procs -> Local]
      /\ pc'[p] \in {"txInsert", "txCommit"} /\ call'[p].by \in Agents
  BY DEF WindowInv, TypeInv, TypeOK, Replying
<1>1. CASE UNCHANGED <<pc, call>>
  BY <1>1 DEF Replying
<1>2. ASSUME NEW q \in Procs, Step(q), q # p
      PROVE  call'[p] = call[p] /\ Replying(p)
  BY <1>0, <1>2, OneSteps DEF Replying
<1>3. CASE FindStep(p) \/ SessionStep(p) \/ SweepStep(p)
  <2>1. CASE Find(p) \/ AnnounceExpired(p)
    <3>1. PICK row, label :
            /\ label = "expire" \/ label = AfterFind(call[p], local[p].again, row)
            /\ Goto(p, label, row)
      BY <2>1 DEF Find, AnnounceExpired
    <3> QED
      BY <1>0, <3>1, GoesOn, AfterFindServes
  <2>2. CASE FindNothing(p) \/ FindExpires(p)
    BY <1>0, <2>2, GoesOn, Ends DEF FindNothing, FindExpires
  <2>3. CASE CreateCheck(p) \/ CreateInsert(p) \/ CloseUpdate(p) \/ AnnounceOpened(p)
    BY <1>0, <2>3, GoesOn, Ends DEF CreateCheck, CreateInsert, CloseUpdate, AnnounceOpened
  <2>4. CASE OpenUpdate(p) \/ GuestCloseUpdate(p) \/ AnnounceClosed(p) \/ SweepStep(p)
    <3>1. pc'[p] \in {"find", "error", "conflict", "sweep", "ok", "idle"} \/ pc'[p] = pc[p]
      BY <1>0, <2>4, Ends
      DEF OpenUpdate, GuestCloseUpdate, AnnounceClosed, SweepStep, SweepSelect, SweepExpires,
          SweepDone
    <3>2. pc[p] \notin {"txInsert", "txCommit"}
      BY <1>0, <2>4, ConstantsAssumption
      DEF OpenUpdate, GuestCloseUpdate, AnnounceClosed, SweepStep, SweepSelect, SweepExpires,
          SweepDone, TimerFires
    <3> QED
      BY <1>0, <3>1, <3>2
  <2> QED
    BY <1>3, <2>1, <2>2, <2>3, <2>4 DEF FindStep, SessionStep
<1>4. CASE SaveStep(p)
  <2>0. UNCHANGED call /\ Guest \notin Agents
    BY <1>4, ConstantsAssumption
    DEF SaveStep, SaveRead, SaveExpires, SaveAnnouncesExpiry, TxBegin, TxTimer, TxLatest,
        TxInsert, TxCommit, Reread, AnnounceTimer, SaveExisting
  <2>1. CASE SaveRead(p) \/ TxLatest(p)
    <3>1. PICK label, seen :
            /\ Goto(p, label, seen)
            /\ label = "txInsert" => IsSender(call[p].by, rows[call[p].s].agent)
            /\ label # "txCommit" /\ UNCHANGED rows
      BY <2>1 DEF SaveRead, TxLatest, SaveJudges, db
    <3> QED
      BY <1>0, <2>0, <3>1, GoesOn DEF IsSender
  <2>2. CASE TxTimer(p)
    BY <1>0, <2>0, <2>2, Ends DEF TxTimer, TimerUnset
  <2>3. CASE TxInsert(p)
    BY <1>0, <2>0, <2>3 DEF TxInsert, Replying
  <2>4. CASE SaveExpires(p) \/ TxCommit(p) \/ Reread(p)
    BY <1>0, <2>4, GoesOn, Ends DEF SaveExpires, TxCommit, Reread
  <2>5. CASE SaveAnnouncesExpiry(p) \/ AnnounceTimer(p) \/ SaveExisting(p) \/ TxBegin(p)
    BY <1>0, <2>5, Ends DEF SaveAnnouncesExpiry, AnnounceTimer, SaveExisting, TxBegin
  <2> QED
    BY <1>4, <2>1, <2>2, <2>3, <2>4, <2>5 DEF SaveStep
<1>5. ASSUME NEW q \in Requests, Receives(q)
      PROVE  call'[p] = call[p] /\ Replying(p)
  <2>1. PICK c, label : /\ Receive(q, c, label)
                        /\ label \in {"createCheck", "find", "sweepSelect", "saveRead"}
    BY <1>5, ReceivesLabel
  <2> QED
    BY <1>0, <2>1 DEF Receive, Replying
<1>6. CASE Stop
  BY <1>0, <1>6 DEF Stop, Results
<1>7. CASE Environment \/ Tick \/ TimerRejects \/ UNCHANGED vars
  BY <1>1, <1>6, <1>7
  DEF Environment, DeleteRoom, DeleteAgent, DeleteExpiredHistory, Crash, Tick, TimerRejects,
      vars
<1> QED
  BY <1>2, <1>3, <1>4, <1>5, <1>7 DEF Next, Rest, Step

\* A session named as its own by one agent is claimed by that agent alone.
LEMMA OwnedIsClaimed ==
    ASSUME TypeInv, OwnerInv, NEW s \in Sessions, NEW by \in Agents, rows[s].agent = by
    PROVE  Claimed(s, by)
BY ConstantsAssumption DEF OwnerInv, Claimed

\* The conditional update of open, and the look at the owner in save, keep the
\* owner's invariant whoever races.
LEMMA StepOwner ==
    ASSUME WindowInv, \A q \in Procs : ServesItsCall(q), OwnerInv, [Next]_vars
    PROVE  OwnerInv'
<1>0. TypeInv /\ TypeInv'
  BY StepTypes DEF WindowInv
<1>1. \A s \in Sessions :
        rows'[s].status \in {"UNUSED", "WAITING"} => rows'[s].agent = None
  BY UnownedStays DEF OwnerInv
<1>2. ASSUME NEW p \in Procs, Granted(p)'
      PROVE  Claimed(call[p].s, call[p].by)'
  <2>1. /\ call'[p].s = call[p].s /\ call'[p].by = call[p].by
        /\ Granted(p) \/ Wins(p)
    BY <1>2, GrantedBefore
  <2>2. PICK s \in Sessions, by \in Agents : call[p].s = s /\ call[p].by = by
    BY <2>1 DEF Granted, Wins, ServesItsCall
  <2>3. Claimed(s, by) => Claimed(s, by)'
    BY ClaimsStay
  <2>4. Granted(p) => Claimed(s, by)
    BY <2>2 DEF OwnerInv
  <2>5. Wins(p) => Claimed(s, by) \/ Claimed(s, by)'
    <3>1. rows[s].agent = by => Claimed(s, by)
      BY <1>0, OwnedIsClaimed
    <3>2. Claimed(call[p].s, call[p].by)' => Claimed(s, by)'
      BY <2>1, <2>2 DEF Claimed
    <3> QED
      BY <2>2, <3>1, <3>2 DEF Wins
  <2>6. Claimed(s, by)'
    BY <2>1, <2>3, <2>4, <2>5
  <2> QED
    BY <2>1, <2>2, <2>6 DEF Claimed
<1>3. ASSUME NEW p \in Procs, Replying(p)'
      PROVE  Claimed(call[p].s, call[p].by)'
  <2>1. /\ call'[p] = call[p]
        /\ Replying(p) \/ rows[call[p].s].agent = call[p].by
    BY <1>3, ReplyingBefore
  <2>2. PICK s \in Sessions, by \in Agents : call[p].s = s /\ call[p].by = by
    BY <1>0, <1>3, <2>1 DEF Replying, TypeInv, CallsMatchLabels, NamesSession
  <2>3. Claimed(s, by)
    BY <1>0, <2>1, <2>2, OwnedIsClaimed DEF OwnerInv
  <2>4. Claimed(s, by)'
    BY <2>3, ClaimsStay
  <2> QED
    BY <2>1, <2>2, <2>4 DEF Claimed
<1>4. ASSUME NEW p \in Procs, NEW q \in Procs, Granted(p)', Granted(q)',
             call'[p].s = call'[q].s
      PROVE  call'[p].by = call'[q].by
  <2>1. \A x \in {p, q} : /\ call'[x].s = call[x].s /\ call'[x].by = call[x].by
                          /\ Granted(x) \/ Wins(x)
                          /\ call[x].by \in Agents
    <3>1. \A x \in {p, q} : /\ call'[x].s = call[x].s /\ call'[x].by = call[x].by
                            /\ Granted(x) \/ Wins(x)
      BY <1>4, GrantedBefore
    <3> QED
      BY <3>1 DEF Granted, Wins, ServesItsCall
  <2>2. ASSUME NEW x \in {p, q}, NEW y \in {p, q}, Granted(x), Wins(y)
        PROVE  call[x].by = call[y].by
    <3>1. Claimed(call[x].s, call[x].by) /\ call[x].s = call[y].s
      BY <1>4, <2>1, <2>2 DEF OwnerInv
    <3> QED
      BY <2>1, <2>2, <3>1, ConstantsAssumption DEF Wins, Claimed, Unopened
  <2>3. CASE Granted(p) /\ Granted(q)
    BY <1>4, <2>1, <2>3 DEF OwnerInv
  <2>4. CASE Wins(p) /\ Wins(q) /\ p # q
    BY <1>0, <1>4, <2>2, <2>4, OneSteps DEF Wins, Granted
  <2> QED
    BY <2>1, <2>2, <2>3, <2>4
<1>5. ASSUME NEW m \in messages', m.by \in Agents
      PROVE  Claimed(m.s, m.by)'
  <2>1. m.s \in Sessions
    BY <1>0 DEF TypeInv, TypeOK, Message
  <2>2. Claimed(m.s, m.by)
    <3>1. CASE m \in messages
      BY <1>5, <3>1 DEF OwnerInv
    <3>2. CASE m \notin messages
      <4>1. PICK p \in Procs :
              /\ TxCommit(p)
              /\ m.s = call[p].s /\ m.by = call[p].by
        BY <1>5, <3>2, MessagesCome, ConstantsAssumption
      <4> QED
        BY <1>5, <4>1 DEF OwnerInv, Replying, TxCommit
    <3> QED
      BY <3>1, <3>2
  <2> QED
    BY <2>1, <2>2, ClaimsStay
<1> QED
  BY <1>1, <1>2, <1>3, <1>4, <1>5 DEF OwnerInv

-----------------------------------------------------------------------------
(* Messages that are acknowledged. *)

\* Another process's step, a call, a restart or the environment brings nobody
\* to the end of a transaction or to an answer.
LEMMA OthersAnswer ==
    ASSUME TypeInv, [Next]_vars, NEW p \in Procs, ~Step(p),
           pc'[p] \in {"txCommit", "reread", "announceTimer", "ok", "duplicate"}
    PROVE  pc'[p] = pc[p] /\ call'[p] = call[p]
<1>0. /\ pc \in [Procs -> Labels] /\ call \in [Procs -> Call] /\ Timer \notin Requests
  BY ConstantsAssumption DEF TypeInv, TypeOK
<1>1. CASE UNCHANGED <<pc, call>>
  BY <1>1
<1>2. ASSUME NEW q \in Procs, Step(q)
      PROVE  pc'[p] = pc[p] /\ call'[p] = call[p]
  BY <1>2, OneSteps
<1>3. ASSUME NEW q \in Requests, Receives(q)
      PROVE  pc'[p] = pc[p] /\ call'[p] = call[p]
  <2>1. PICK c, label : /\ Receive(q, c, label)
                        /\ label \in {"createCheck", "find", "sweepSelect", "saveRead"}
    BY <1>3, ReceivesLabel
  <2> QED
    BY <1>0, <2>1 DEF Receive
<1>4. CASE Stop
  BY <1>0, <1>4 DEF Stop, Results
<1>5. CASE Environment \/ Tick \/ TimerRejects \/ UNCHANGED vars
  BY <1>1, <1>4, <1>5
  DEF Environment, DeleteRoom, DeleteAgent, DeleteExpiredHistory, Crash, Tick, TimerRejects,
      vars
<1> QED
  BY <1>2, <1>3, <1>5 DEF Next, Rest

\* How save goes on: to the commit when the key is free, to an answer after it
\* or when the message was there before.
LEMMA SaveAnswers ==
    ASSUME TypeInv, NEW p \in Procs, ServesItsCall(p), Step(p)
    PROVE  /\ pc'[p] = "txCommit" => TxInsert(p)
           /\ Acknowledges(p)' =>
                 /\ UNCHANGED call
                 /\ \/ Acknowledges(p) /\ pc'[p] # "duplicate"
                    \/ TxCommit(p)
                    \/ /\ SaveExisting(p) /\ pc'[p] = "duplicate"
                       /\ StoredAs(call[p].s, call[p].key) # {}
<1>0. pc \in [Procs -> Labels] /\ call \in [Procs -> Call]
  BY DEF TypeInv, TypeOK
<1>1. CASE SaveStep(p)
  <2>0. UNCHANGED call /\ call[p].op = "save"
    BY <1>1
    DEF SaveStep, SaveRead, SaveExpires, SaveAnnouncesExpiry, TxBegin, TxTimer, TxLatest,
        TxInsert, TxCommit, Reread, AnnounceTimer, SaveExisting, ServesItsCall, Saving
  <2>1. CASE SaveRead(p) \/ SaveExpires(p) \/ TxLatest(p)
    <3>1. pc'[p] \in {"refused", "saveExpire", "txBegin", "txInsert", "conflict",
                      "saveExpired", "error"}
      BY <2>1, GoesOn, Ends DEF SaveRead, SaveExpires, TxLatest, SaveJudges
    <3> QED
      BY <3>1 DEF Acknowledges
  <2>2. CASE TxBegin(p) \/ TxTimer(p) \/ SaveAnnouncesExpiry(p)
    <3>1. pc'[p] \in {"txTimer", "txInsert", "txLatest", "conflict", "refused"}
      BY <1>0, <2>2, Ends DEF TxBegin, TxTimer, SaveAnnouncesExpiry
    <3> QED
      BY <3>1 DEF Acknowledges
  <2>3. CASE TxInsert(p)
    <3>1. pc'[p] \in {"txCommit", "saveExisting", "error"}
      BY <1>0, <2>3, GoesOn DEF TxInsert
    <3> QED
      BY <2>3, <3>1 DEF Acknowledges
  <2>4. CASE TxCommit(p)
    <3>1. pc'[p] \in {"reread", "ok"}
      BY <2>4, GoesOn DEF TxCommit
    <3> QED
      BY <2>0, <2>4, <3>1
  <2>5. CASE Reread(p) \/ AnnounceTimer(p)
    <3>1. pc'[p] \in {"announceTimer", "ok"} /\ pc[p] \in {"reread", "announceTimer"}
      BY <2>5, GoesOn, Ends DEF Reread, AnnounceTimer
    <3> QED
      BY <2>0, <3>1 DEF Acknowledges
  <2>6. CASE SaveExisting(p)
    <3>1. pc'[p] = IF StoredAs(call[p].s, call[p].key) # {} THEN "duplicate" ELSE "error"
      BY <2>6, Ends DEF SaveExisting
    <3> QED
      BY <2>0, <2>6, <3>1 DEF Acknowledges
  <2> QED
    BY <1>1, <2>1, <2>2, <2>3, <2>4, <2>5, <2>6 DEF SaveStep
<1>2. CASE ~SaveStep(p)
  <2>1. call'[p].op # "save" /\ pc'[p] # "txCommit"
    <3>1. ServesItsCall(p)'
      BY <1>2, FindServes, SessionServes, SweepServes DEF Step
    <3>2. call'[p].op # "save"
      <4>1. CASE FindStep(p)
        BY <4>1
        DEF FindStep, Find, FindNothing, FindExpires, AnnounceExpired, ServesItsCall
      <4>2. CASE SweepStep(p)
        BY <4>2, SweepKeepsOp
      <4>3. CASE SessionStep(p) /\ ~CreateInsert(p)
        BY <4>3
        DEF SessionStep, CreateCheck, OpenUpdate, AnnounceOpened, CloseUpdate,
            GuestCloseUpdate, AnnounceClosed, ServesItsCall
      <4>4. CASE CreateInsert(p)
        BY <1>0, <4>4 DEF CreateInsert, ServesItsCall, Call
      <4> QED
        BY <1>2, <4>1, <4>2, <4>3, <4>4 DEF Step
    <3> QED
      BY <3>1, <3>2 DEF ServesItsCall, Saving
  <2> QED
    BY <2>1 DEF Acknowledges
<1> QED
  BY <1>1, <1>2

\* No two messages of a session have the same key.
LEMMA StepUnique ==
    ASSUME WindowInv, StoredInv, [Next]_vars,
           NEW m \in messages', NEW n \in messages', m.s = n.s, m.key = n.key
    PROVE  m = n
<1>1. ASSUME NEW x \in messages', NEW y \in messages, x \notin messages,
             x.s = y.s, x.key = y.key
      PROVE  FALSE
  <2>1. PICK p \in Procs :
          /\ TxCommit(p)
          /\ x.s = call[p].s /\ x.key = call[p].key
    BY <1>1, MessagesCome
  <2>2. KeyIsFree(call[p].s, call[p].key)
    BY <2>1 DEF StoredInv, TxCommit
  <2> QED
    BY <1>1, <2>1, <2>2 DEF KeyIsFree, StoredAs
<1>2. CASE m \in messages /\ n \in messages
  BY <1>2 DEF StoredInv
<1>3. CASE m \notin messages /\ n \notin messages
  BY <1>3, MessagesCome
<1> QED
  BY <1>1, <1>2, <1>3

\* A transaction that has inserted its message is the only one with its key.
LEMMA StepKeys ==
    ASSUME WindowInv, \A q \in Procs : ServesItsCall(q), StoredInv, [Next]_vars,
           NEW p \in Procs, pc'[p] = "txCommit"
    PROVE  /\ call'[p] = call[p]
           /\ \/ pc[p] = "txCommit"
              \/ TxInsert(p) /\ pc[p] = "txInsert"
           /\ KeyIsFree(call[p].s, call[p].key)
           /\ KeyIsFree(call[p].s, call[p].key)'
<1>0. /\ TypeInv /\ pc \in [Procs -> Labels]
  BY DEF WindowInv, TypeInv, TypeOK
<1>1. CASE Step(p)
  <2>1. /\ TxInsert(p) /\ pc[p] = "txInsert"
        /\ UNCHANGED <<messages, call>>
    BY <1>0, <1>1, SaveAnswers DEF TxInsert
  <2>2. KeyIsFree(call[p].s, call[p].key)
    <3>1. CASE ~(Present(call[p].s) /\ KeyIsFree(call[p].s, call[p].key))
      BY <1>0, <2>1, <3>1, GoesOn DEF TxInsert
    <3> QED
      BY <3>1
  <2> QED
    BY <2>1, <2>2 DEF KeyIsFree, StoredAs
<1>2. CASE ~Step(p)
  <2>1. pc[p] = "txCommit" /\ call'[p] = call[p]
    BY <1>0, <1>2, OthersAnswer
  <2>2. KeyIsFree(call[p].s, call[p].key)
    BY <2>1 DEF StoredInv
  <2>3. ASSUME NEW m \in messages', m.s = call[p].s, m.key = call[p].key
        PROVE  FALSE
    <3>1. m \notin messages
      BY <2>2, <2>3 DEF KeyIsFree, StoredAs
    <3>2. PICK q \in Procs :
            /\ TxCommit(q)
            /\ m.s = call[q].s /\ m.key = call[q].key
      BY <2>1, <2>3, <3>1, MessagesCome
    <3>3. q = p
      BY <2>1, <2>3, <3>2 DEF StoredInv, TxCommit
    <3> QED
      BY <1>2, <3>2, <3>3 DEF Step, SaveStep
  <2> QED
    BY <2>1, <2>2, <2>3 DEF KeyIsFree, StoredAs
<1> QED
  BY <1>1, <1>2

\* The transaction of save and its unique key keep what was acknowledged.
LEMMA StepStored ==
    ASSUME WindowInv, \A q \in Procs : ServesItsCall(q), StoredInv, [Next]_vars
    PROVE  StoredInv'
<1>0. TypeInv /\ pc \in [Procs -> Labels]
  BY DEF WindowInv, TypeInv, TypeOK
<1>1. ASSUME NEW p \in Procs, NEW q \in Procs,
             pc'[p] = "txCommit", pc'[q] = "txCommit",
             call'[p].s = call'[q].s, call'[p].key = call'[q].key
      PROVE  p = q
  <2>1. \A x \in {p, q} : /\ call'[x] = call[x]
                          /\ pc[x] = "txCommit" \/ TxInsert(x)
    BY <1>1, StepKeys
  <2>2. ASSUME NEW x \in {p, q}, NEW y \in {p, q}, x # y, TxInsert(x)
        PROVE  FALSE
    <3>1. pc[y] = pc'[y]
      BY <1>0, <2>2, OneSteps DEF Step, SaveStep
    <3>2. pc[y] = "txCommit"
      BY <1>1, <3>1
    <3>3. y \in Requests
      BY <1>0, <3>2 DEF TypeInv, CallsMatchLabels, Saving
    <3>4. <<call[y].s, call[y].key>> # <<call[x].s, call[x].key>>
      BY <2>2, <3>2, <3>3 DEF TxInsert
    <3> QED
      BY <1>1, <2>1, <3>4
  <2>3. CASE pc[p] = "txCommit" /\ pc[q] = "txCommit"
    BY <1>1, <2>1, <2>3 DEF StoredInv
  <2> QED
    BY <2>1, <2>2, <2>3
<1>2. ASSUME NEW p \in Procs, Acknowledges(p)'
      PROVE  Gone(call[p].s)' \/ Stored(p)'
  <2>0. call'[p].op = "save" /\ pc'[p] \in {"reread", "announceTimer", "ok", "duplicate"}
    BY <1>2 DEF Acknowledges
  <2>1. /\ call'[p] = call[p] /\ call[p].s \in Sessions
        /\ \/ Acknowledges(p) /\ (pc'[p] = "duplicate" \/ pc[p] # "duplicate")
           \/ TxCommit(p)
           \/ pc'[p] = "duplicate" /\ StoredAs(call[p].s, call[p].key) # {}
    <3>1. CASE Step(p)
      <4>1. /\ UNCHANGED call
            /\ \/ Acknowledges(p) /\ pc'[p] # "duplicate"
               \/ TxCommit(p)
               \/ pc'[p] = "duplicate" /\ StoredAs(call[p].s, call[p].key) # {}
        BY <1>0, <1>2, <3>1, SaveAnswers
      <4>2. pc[p] # "duplicate"
        BY <3>1, ConstantsAssumption
        DEF Step, FindStep, Find, FindNothing, FindExpires, AnnounceExpired,
            SessionStep, CreateCheck, CreateInsert, OpenUpdate, AnnounceOpened,
            CloseUpdate, GuestCloseUpdate, AnnounceClosed,
            SweepStep, SweepSelect, SweepExpires, SweepDone, TimerFires,
            SaveStep, SaveRead, SaveExpires, SaveAnnouncesExpiry, TxBegin, TxTimer,
            TxLatest, TxInsert, TxCommit, Reread, AnnounceTimer, SaveExisting
      <4> QED
        BY <2>0, <4>1, <4>2 DEF ServesItsCall
    <3>2. CASE ~Step(p)
      BY <1>0, <2>0, <3>2, OthersAnswer DEF Acknowledges, ServesItsCall
    <3> QED
      BY <3>1, <3>2
  <2>2. CASE TxCommit(p)
    <3> DEFINE new == [id |-> p, s |-> call[p].s, key |-> call[p].key,
                       by |-> call[p].by, at |-> local[p].born]
    <3>1. messages' = messages \cup {new}
      BY <1>0, <2>2, CommitWrites
    <3>2. new.s = call[p].s /\ new.key = call[p].key /\ new.id = p
      OBVIOUS
    <3> HIDE DEF new
    <3>3. PICK m \in messages' : m.s = call[p].s /\ m.key = call[p].key /\ m.id = p
      BY <3>1, <3>2
    <3> QED
      BY <2>1, <3>3 DEF Stored, StoredAs
  <2>3. ASSUME NEW m \in messages, m.s = call[p].s, m.key = call[p].key,
               pc'[p] = "duplicate" \/ m.id = p
        PROVE  Gone(call[p].s)' \/ Stored(p)'
    <3>1. CASE m \in messages'
      BY <2>1, <2>3, <3>1 DEF Stored, StoredAs
    <3>2. CASE m \notin messages'
      BY <1>0, <2>1, <2>3, <3>2, MessagesStay DEF Gone
    <3> QED
      BY <3>1, <3>2
  <2>4. CASE Acknowledges(p) /\ (pc'[p] = "duplicate" \/ pc[p] # "duplicate")
    <3>1. Gone(call[p].s) \/ Stored(p)
      BY <2>4 DEF StoredInv
    <3>2. Gone(call[p].s) => Gone(call[p].s)'
      BY <2>1, RowSteps DEF Gone
    <3> QED
      BY <2>3, <2>4, <3>1, <3>2 DEF Stored, StoredAs
  <2>5. CASE pc'[p] = "duplicate" /\ StoredAs(call[p].s, call[p].key) # {}
    BY <2>3, <2>5 DEF StoredAs
  <2> QED
    BY <2>1, <2>2, <2>4, <2>5
<1>3. \A p \in Procs : pc'[p] = "txCommit" => KeyIsFree(call[p].s, call[p].key)'
  BY StepKeys
<1> QED
  BY <1>1, <1>2, <1>3, StepUnique DEF StoredInv

-----------------------------------------------------------------------------

\* Nothing has been promised at the start.
LEMMA InitPromises == Init => PromiseInv
<1> SUFFICES ASSUME Init PROVE PromiseInv
  OBVIOUS
<1>1. /\ messages = {WelcomeMessage(s, 0) : s \in Prior}
      /\ \A p \in Procs : /\ pc[p] = "idle" /\ local[p] = Blank
                          /\ call[p].op \notin {"open", "save"}
                          /\ p = Timer => call[p].op = "sweep"
  BY DEF Init, NoCall
<1>2. \A p \in Procs : ServesItsCall(p) /\ ~Granted(p) /\ ~Replying(p)
  BY <1>1 DEF ServesItsCall, Granted, Replying, Blank, Saving
<1>3. \A m \in messages : \E s \in Prior : /\ m = WelcomeMessage(s, 0) /\ m.s = s
                                           /\ m.by = None /\ m.at = 0
  BY <1>1 DEF WelcomeMessage
<1>4. PICK room \in Injection(Prior, Rooms), agent \in [Opened -> Agents] :
          rows = [x \in Sessions |->
            CASE x \in Opened -> [NewRow(room[x], 0) EXCEPT !.status = "ACTIVE",
                                                           !.agent = agent[x]]
              [] x \in Prior \ Opened -> NewRow(room[x], 0)
              [] OTHER -> AbsentRow("UNUSED")]
  BY DEF Init
<1>5. ASSUME NEW s \in Sessions
      PROVE  /\ rows[s].status \in {"UNUSED", "WAITING"} => rows[s].agent = None
             /\ Present(s) => s \in Prior /\ rows[s].lastActivityAt = 0
  <2>1. CASE s \in Opened
    <3>1. rows[s] = [NewRow(room[s], 0) EXCEPT !.status = "ACTIVE", !.agent = agent[s]]
      BY <1>4, <2>1
    <3> QED
      BY <2>1, <3>1, ConstantsAssumption DEF NewRow, AbsentRow
  <2>2. CASE s \in Prior \ Opened
    <3>1. rows[s] = NewRow(room[s], 0)
      BY <1>4, <2>2
    <3> QED
      BY <2>2, <3>1 DEF NewRow, AbsentRow
  <2>3. CASE s \notin Opened /\ s \notin Prior \ Opened
    <3>1. rows[s] = AbsentRow("UNUSED")
      BY <1>4, <2>3
    <3> QED
      BY <3>1 DEF AbsentRow, Present, Open, Terminal
  <2> QED
    BY <2>1, <2>2, <2>3
<1>6. OwnerInv
  BY <1>2, <1>3, <1>5, ConstantsAssumption DEF OwnerInv
<1>7. StoredInv
  BY <1>1, <1>3 DEF StoredInv, Acknowledges
<1>8. ActivityIsAMessage
  <2>1. \A s \in Prior : WelcomeMessage(s, 0).s = s /\ WelcomeMessage(s, 0).at = 0
    BY DEF WelcomeMessage
  <2> QED
    BY <1>1, <1>5, <2>1 DEF ActivityIsAMessage
<1> QED
  BY <1>2, <1>6, <1>7, <1>8, InitWindow DEF PromiseInv

\* The promises are kept together, by every step.
THEOREM PromisesKept == Spec => []PromiseInv
<1>1. PromiseInv /\ [Next]_vars => PromiseInv'
  <2> SUFFICES ASSUME PromiseInv, [Next]_vars PROVE PromiseInv'
    OBVIOUS
  <2>1. WindowInv /\ WindowInv' /\ TypeInv
    BY StepWindow DEF PromiseInv, WindowStep, WindowInv
  <2>2. \A p \in Procs : ServesItsCall(p)'
    BY <2>1, StepServes DEF PromiseInv
  <2>3. OwnerInv' /\ StoredInv' /\ ActivityIsAMessage'
    BY <2>1, StepOwner, StepStored, StepActivity DEF PromiseInv
  <2> QED
    BY <2>1, <2>2, <2>3 DEF PromiseInv
<1> QED
  BY <1>1, InitPromises, PTL DEF Spec

\* Two agents never both win a session, and only the owner's replies are
\* stored: open is one conditional update, and save looks at the owner.
THEOREM OneOwnerHolds == Spec => []OneOwner
<1>1. PromiseInv => OneOwner
  <2> SUFFICES ASSUME PromiseInv PROVE OneOwner
    OBVIOUS
  <2>1. \A m \in messages : m.s \in Sessions
    BY DEF PromiseInv, WindowInv, TypeInv, TypeOK, Message
  <2> QED
    BY <2>1 DEF PromiseInv, OwnerInv, Granted, Claimed, OneOwner, Procs
<1> QED
  BY <1>1, PromisesKept, PTL

\* An acknowledged message is stored, once, however retries run beside the
\* attempt they repeat and wherever the server is restarted.
THEOREM AcknowledgedHolds == Spec => []AcknowledgedIsStoredOnce
<1>1. PromiseInv => AcknowledgedIsStoredOnce
  BY DEF PromiseInv, StoredInv, Acknowledges, Stored, Gone, AcknowledgedIsStoredOnce, Procs
<1> QED
  BY <1>1, PromisesKept, PTL

\* lastActivityAt is always the time of a stored message of the session.
THEOREM ActivityHolds == Spec => []ActivityIsAMessage
<1>1. PromiseInv => ActivityIsAMessage
  BY DEF PromiseInv
<1> QED
  BY <1>1, PromisesKept, PTL

-----------------------------------------------------------------------------
(* Waiting.  A handler waits for the lock of a row, or for a transaction   *)
(* with its key to end.  Whoever holds a lock waits for nobody, so that    *)
(* no chain of waits has more than two links, and none closes.             *)

\* The rows whose lock the next statement of a handler asks for.
Asks(p) ==
    CASE pc[p] = "sweep" -> local[p].due
      [] pc[p] \in {"expire", "openUpdate", "closeUpdate", "guestCloseUpdate",
                    "saveExpire", "txTimer", "txCommit"} -> {call[p].s}
      [] OTHER -> {}

AwaitsRow(p, q) == p # q /\ \E s \in Asks(p) : lock[s] = q
AwaitsKey(p, q) ==
    /\ pc[p] = "txInsert" /\ pc[q] = "txCommit"
    /\ call[p].s = call[q].s /\ call[p].key = call[q].key
Awaits(p, q) == AwaitsRow(p, q) \/ AwaitsKey(p, q)

CanGoOn(p) == \A q \in Requests : ~Awaits(p, q)

\* Whoever waits, waits for one that can go on, or for one that waits for one
\* that can.
WaitsEnd ==
    \A p \in Procs : ~CanGoOn(p) =>
        \E q \in Requests :
            /\ Awaits(p, q)
            /\ CanGoOn(q) \/ \E r \in Requests : Awaits(q, r) /\ CanGoOn(r)

\* A clientMessageId is its sender's.
KeysApart ==
    \A p, q \in Procs :
        /\ call[p].op = "save" /\ call[q].op = "save"
        /\ call[p].key = call[q].key
        => call[p].s = call[q].s /\ call[p].by = call[q].by

\* A call to save is received as it is served.
LEMMA SaveCallStays ==
    ASSUME TypeInv, \A q \in Procs : ServesItsCall(q), [Next]_vars,
           NEW p \in Procs, call'[p].op = "save"
    PROVE  \/ call'[p] = call[p]
           \/ \E s, by, key : p \in Requests /\ ReceiveSave(p, s, by, key)
<1>0. /\ call \in [Procs -> Call] /\ Timer \notin Requests
      /\ pc \in [Procs -> Labels]
  BY ConstantsAssumption DEF TypeInv, TypeOK
<1>1. ASSUME NEW q \in Procs, Step(q)
      PROVE  call'[p] = call[p]
  <2>1. CASE q # p
    BY <1>1, <2>1, OneSteps
  <2>2. CASE q = p
    <3>1. CASE SaveStep(p)
      BY <3>1
      DEF SaveStep, SaveRead, SaveExpires, SaveAnnouncesExpiry, TxBegin, TxTimer, TxLatest,
          TxInsert, TxCommit, Reread, AnnounceTimer, SaveExisting
    <3>2. CASE FindStep(p)
      BY <3>2 DEF FindStep, Find, FindNothing, FindExpires, AnnounceExpired
    <3>3. CASE SweepStep(p)
      BY <3>3, SweepKeepsOp
    <3>4. CASE SessionStep(p) /\ ~CreateInsert(p)
      BY <3>4
      DEF SessionStep, CreateCheck, OpenUpdate, AnnounceOpened, CloseUpdate,
          GuestCloseUpdate, AnnounceClosed
    <3>5. CASE CreateInsert(p)
      BY <1>0, <3>5 DEF CreateInsert, ServesItsCall, Call
    <3> QED
      BY <1>1, <2>2, <3>1, <3>2, <3>3, <3>4, <3>5 DEF Step
  <2> QED
    BY <2>1, <2>2
<1>2. ASSUME NEW q \in Requests, Receives(q)
      PROVE  call'[p] = call[p] \/ \E s, by, key : p \in Requests /\ ReceiveSave(p, s, by, key)
  <2>1. CASE q # p
    <3>1. PICK c, label : Receive(q, c, label)
      BY <1>2, ReceivesLabel
    <3> QED
      BY <1>0, <2>1, <3>1 DEF Receive
  <2>2. CASE q = p
    <3>1. ASSUME NEW c, NEW label, Receive(q, c, label)
          PROVE  c.op = "save"
      BY <1>0, <2>2, <3>1 DEF Receive, Procs
    <3>2. ASSUME NEW room, ReceiveCreate(q, room)
          PROVE  FALSE
      <4>1. [NoCall EXCEPT !.op = "create", !.room = room].op = "create"
        BY DEF NoCall
      <4> QED
        BY <3>1, <3>2, <4>1 DEF ReceiveCreate
    <3>3. ASSUME NEW op \in {"read", "open", "close", "closeByGuest"}, NEW s, NEW by,
                 ReceiveFind(q, op, s, by)
          PROVE  FALSE
      <4>1. [NoCall EXCEPT !.op = op, !.s = s, !.by = by].op = op
        BY DEF NoCall
      <4> QED
        BY <3>1, <3>3, <4>1 DEF ReceiveFind
    <3>4. ~ReceiveList(q)
      <4>1. [NoCall EXCEPT !.op = "list"].op = "list"
        BY DEF NoCall
      <4> QED
        BY <3>1, <4>1 DEF ReceiveList
    <3> QED
      BY <1>2, <2>2, <3>2, <3>3, <3>4 DEF Receives
  <2> QED
    BY <2>1, <2>2
<1>3. CASE Stop
  <2>1. call' = [call EXCEPT ![Timer].s = None] /\ call[Timer] \in Call
    BY <1>0, <1>3 DEF Stop, Procs
  <2>2. p # Timer
    <3>1. call[Timer].op = "sweep"
      BY DEF ServesItsCall, Procs
    <3>2. [call[Timer] EXCEPT !.s = None].op = "sweep"
      BY <2>1, <3>1 DEF Call
    <3> QED
      BY <1>0, <2>1, <3>2
  <2> QED
    BY <1>0, <2>1, <2>2
<1>4. CASE Environment \/ Tick \/ TimerRejects \/ UNCHANGED vars
  BY <1>3, <1>4
  DEF Environment, DeleteRoom, DeleteAgent, DeleteExpiredHistory, Crash, Tick, TimerRejects,
      vars
<1> QED
  BY <1>1, <1>2, <1>4 DEF Next, Rest

\* A new call takes a key nobody has, or one of its own sender's.
LEMMA StepKeysApart ==
    ASSUME TypeInv, \A q \in Procs : ServesItsCall(q), KeysApart, [Next]_vars
    PROVE  KeysApart'
<1>0. Timer \notin Requests /\ call \in [Procs -> Call]
  BY ConstantsAssumption DEF TypeInv, TypeOK
<1> SUFFICES ASSUME NEW p \in Procs, NEW q \in Procs,
                    call'[p].op = "save", call'[q].op = "save",
                    call'[p].key = call'[q].key
             PROVE  call'[p].s = call'[q].s /\ call'[p].by = call'[q].by
  BY DEF KeysApart
<1>1. CASE call'[p] = call[p] /\ call'[q] = call[q]
  BY <1>1 DEF KeysApart
<1>2. ASSUME NEW x \in {p, q}, NEW y \in {p, q}, NEW s, NEW by, NEW key,
             x \in Requests, ReceiveSave(x, s, by, key)
      PROVE  call'[x].s = call'[y].s /\ call'[x].by = call'[y].by
  <2>1. /\ call' = [call EXCEPT ![x] = [NoCall EXCEPT !.op = "save", !.s = s, !.by = by, !.key = key]]
        /\ \A r \in Requests : call[r].key = key => call[r].s = s /\ call[r].by = by
    BY <1>2 DEF ReceiveSave, Receive
  <2>2. call'[x].s = s /\ call'[x].by = by /\ call'[x].key = key
    BY <1>0, <2>1 DEF NoCall
  <2>3. CASE y # x
    <3>1. call'[y] = call[y]
      BY <1>0, <2>1, <2>3
    <3>2. y \in Requests
      <4>1. y # Timer
        BY <3>1 DEF ServesItsCall
      <4> QED
        BY <4>1 DEF Procs
    <3> QED
      BY <2>1, <2>2, <3>1, <3>2
  <2> QED
    BY <2>3
<1> QED
  BY <1>1, <1>2, SaveCallStays

\* Whoever holds the lock of a row waits for nobody: a rival with its key would
\* be of the same agent, and have found the window started.
LEMMA HolderGoesOn ==
    ASSUME PromiseInv, KeysApart, NEW s \in Sessions, NEW r \in Procs, lock[s] = r
    PROVE  CanGoOn(r)
<1>0. /\ TypeInv /\ Holds(r, s) /\ lock \in [Sessions -> Requests \cup {None}]
  BY DEF PromiseInv, WindowInv, HandlerInv, TypeInv, TypeOK
<1>1. /\ pc[r] \in {"txInsert", "txCommit"} /\ call[r].s = s /\ call[r].op = "save"
      /\ rows[s].status = "ACTIVE" /\ rows[s].agent = call[r].by /\ ~Timed(s)
  BY <1>0 DEF Holds, PromiseInv, ServesItsCall, Saving
<1>2. call[r].by \in Agents
  BY <1>0, <1>1, ConstantsAssumption
  DEF TypeInv, TypeOK, CallsMatchLabels, Saving, Row
<1>3. ASSUME NEW q \in Requests, AwaitsRow(r, q)
      PROVE  FALSE
  BY <1>1, <1>3 DEF AwaitsRow, Asks
<1>4. ASSUME NEW q \in Requests, AwaitsKey(r, q)
      PROVE  FALSE
  <2>1. q \in Procs /\ q # r /\ pc[q] = "txCommit" /\ call[q].s = s /\ call[q].op = "save"
    BY <1>1, <1>4 DEF AwaitsKey, Procs, PromiseInv, ServesItsCall, Saving
  <2>2. call[q].by \in Agents
    BY <1>1, <1>2, <1>4, <2>1 DEF AwaitsKey, KeysApart
  <2>3. FoundTimed(q)
    BY <1>1, <2>1, <2>2 DEF PromiseInv, WindowInv, HandlerInv, Present, Open
  <2> QED
    BY <1>1, <2>1, <2>3 DEF FoundTimed
<1> QED
  BY <1>3, <1>4 DEF CanGoOn, Awaits

\* A wait for a row is a wait for one that can go on.
LEMMA WaitsHoldNobody ==
    ASSUME PromiseInv, KeysApart, NEW p \in Procs, NEW q \in Requests, AwaitsRow(p, q)
    PROVE  CanGoOn(q)
<1>1. TypeInv /\ q \in Procs
  BY DEF PromiseInv, WindowInv, Procs
<1>2. Asks(p) \subseteq Sessions
  <2>1. local[p] \in Local
    BY <1>1 DEF TypeInv, TypeOK
  <2>2. CASE pc[p] = "sweep"
    BY <2>1, <2>2 DEF Asks, Local
  <2>3. CASE pc[p] \in {"expire", "openUpdate", "closeUpdate", "guestCloseUpdate",
                        "saveExpire", "txTimer", "txCommit"}
    <3>1. Asks(p) = {call[p].s} /\ pc[p] \in NamesSession
      BY <2>3 DEF Asks, NamesSession
    <3> QED
      BY <1>1, <3>1 DEF TypeInv, CallsMatchLabels
  <2> QED
    BY <2>2, <2>3 DEF Asks
<1> QED
  BY <1>1, <1>2, HolderGoesOn DEF AwaitsRow

\* No two transactions, and no other handlers, wait for each other: over two
\* waits at most, whoever waits waits for one that can go on.
THEOREM WaitsAlwaysEnd == Spec => []WaitsEnd
<1>1. Init => KeysApart
  <2> SUFFICES ASSUME Init PROVE KeysApart
    OBVIOUS
  <2>1. call = [p \in Procs |-> IF p = Timer THEN [NoCall EXCEPT !.op = "sweep"] ELSE NoCall]
    BY Zenon DEF Init
  <2>2. NoCall.op # "save" /\ [NoCall EXCEPT !.op = "sweep"].op # "save"
    BY DEF NoCall
  <2>3. \A p \in Procs : call[p].op # "save"
    BY ONLY <2>1, <2>2
  <2> QED
    BY <2>3 DEF KeysApart
<1>2. PromiseInv /\ KeysApart /\ [Next]_vars => KeysApart'
  BY StepKeysApart DEF PromiseInv, WindowInv
<1>3. PromiseInv /\ KeysApart => WaitsEnd
  <2> SUFFICES ASSUME PromiseInv, KeysApart, NEW p \in Procs, ~CanGoOn(p)
               PROVE  \E q \in Requests :
                         /\ Awaits(p, q)
                         /\ CanGoOn(q) \/ \E r \in Requests : Awaits(q, r) /\ CanGoOn(r)
    BY DEF WaitsEnd
  <2>1. PICK q \in Requests : Awaits(p, q)
    BY DEF CanGoOn
  <2>2. CASE AwaitsRow(p, q)
    BY <2>1, <2>2, WaitsHoldNobody
  <2>3. CASE AwaitsKey(p, q) /\ ~CanGoOn(q)
    <3>1. PICK r \in Requests : Awaits(q, r)
      BY <2>3 DEF CanGoOn
    <3>2. AwaitsRow(q, r)
      BY <2>3, <3>1 DEF Awaits, AwaitsKey
    <3>3. CanGoOn(r)
      BY <3>2, WaitsHoldNobody DEF Procs
    <3> QED
      BY <2>1, <3>1, <3>3
  <2> QED
    BY <2>1, <2>2, <2>3 DEF Awaits
<1> QED
  BY <1>1, <1>2, <1>3, PromisesKept, PTL DEF Spec

-----------------------------------------------------------------------------
(* Announcements.  Who ends a session owes its clients the event, until it *)
(* is published, the session is deleted or the server stops.               *)

\* Between the statement that has ended s and the event.
Announces(p, s) ==
    /\ call[p].s = s
    /\ \/ pc[p] \in {"expired", "saveExpired", "announceClosed"}
       \/ /\ pc[p] = "find" /\ local[p].again
          /\ call[p].op \in {"closeByGuest", "list", "sweep"}

Owed(s) == \E p \in Procs : Announces(p, s)

Ended(s) == rows[s].status \in Terminal \cup {"DELETED"}

\* findOrThrow is at work for a call that has a use for the row; a sweep has
\* expired it before.
FindsFor(p) ==
    pc[p] \in {"find", "expire", "expired"} =>
        \/ call[p].op \in {"read", "open", "close", "closeByGuest"}
        \/ call[p].op \in {"list", "sweep"} /\ local[p].again

\* What is about to be announced is so.
AnnounceInv ==
    \A p \in Procs : /\ FindsFor(p)
                     /\ \A s \in Sessions : Announces(p, s) => Ended(s)

\* Every end is owed to the session's clients, and what is owed is published,
\* unless the session is deleted or the server stops before.
EndsAreOwed ==
    [][\A s \in Sessions :
         /\ rows[s].status \in Open /\ rows'[s].status \in Terminal => Owed(s)'
         /\ Owed(s) => \/ Owed(s)' \/ feed'[s].kind = "closed"
                       \/ Gone(s)' \/ crashes' # crashes]_vars

\* Where findOrThrow returns to an announcement.
LEMMA AfterFindAnnounces ==
    ASSUME NEW c, NEW again, NEW row,
           \/ c.op \in {"read", "open", "close", "closeByGuest"}
           \/ c.op \in {"list", "sweep"} /\ again
    PROVE  AfterFind(c, again, row) = "announceClosed" <=>
              again /\ c.op \in {"closeByGuest", "list", "sweep"}
BY DEF AfterFind, CanOpen

\* A handler's own step leaves findOrThrow at work for a call that has a use.
LEMMA OwnStepFinds ==
    ASSUME TypeInv, NEW p \in Procs, ServesItsCall(p), FindsFor(p), Step(p)
    PROVE  FindsFor(p)'
<1>0. /\ pc \in [Procs -> Labels] /\ call \in [Procs -> Call] /\ local \in [Procs -> Local]
      /\ local[p] \in Local
  BY DEF TypeInv, TypeOK
<1>1. CASE FindStep(p)
  <2>0. UNCHANGED call /\ pc[p] \in {"find", "expire", "expired"}
    BY <1>1 DEF FindStep, Find, FindNothing, FindExpires, AnnounceExpired
  <2>1. \/ \E label, row : Goto(p, label, row)
        \/ \E result \in Results : Leave(p, result)
    BY <1>1 DEF FindStep, Find, FindNothing, FindExpires, AnnounceExpired, Results
  <2>2. pc'[p] \in {"find", "expire", "expired"} => local'[p].again = local[p].again
    <3>1. ASSUME NEW label, NEW row, Goto(p, label, row)
          PROVE  pc'[p] \in Results \/ local'[p].again = local[p].again
      BY <3>1, GoesOn
    <3>2. ASSUME NEW result \in Results, Leave(p, result)
          PROVE  pc'[p] \in Results
      BY <3>2, Ends
    <3> QED
      BY <2>1, <3>1, <3>2 DEF Results
  <2> QED
    BY <2>0, <2>2 DEF FindsFor
<1>2. CASE SessionStep(p)
  <2>1. CASE OpenUpdate(p) \/ GuestCloseUpdate(p)
    BY <2>1 DEF OpenUpdate, GuestCloseUpdate, ServesItsCall, FindsFor
  <2>2. CASE CreateCheck(p) \/ CreateInsert(p) \/ CloseUpdate(p) \/ AnnounceOpened(p)
    <3>1. pc'[p] \notin {"find", "expire", "expired"}
      BY <2>2, GoesOn, Ends DEF CreateCheck, CreateInsert, CloseUpdate, AnnounceOpened
    <3> QED
      BY <3>1 DEF FindsFor
  <2>3. CASE AnnounceClosed(p)
    <3>1. pc'[p] \in {"sweep", "ok"}
      BY <1>0, <2>3, Ends DEF AnnounceClosed
    <3> QED
      BY <3>1 DEF FindsFor
  <2> QED
    BY <1>2, <2>1, <2>2, <2>3 DEF SessionStep
<1>3. CASE SweepStep(p)
  <2>1. call'[p].op \in {"list", "sweep"}
    BY <1>3, SweepKeepsOp
  <2>2. CASE SweepExpires(p)
    <3>1. pc'[p] = "find" => local'[p].again
      <4>1. PICK x :
              \/ local' = [local EXCEPT ![p].due = @ \ {x}, ![p].again = TRUE]
              \/ pc' = pc /\ pc[p] = "sweep"
        BY <2>2 DEF SweepExpires
      <4>2. [local[p] EXCEPT !.due = @ \ {x}, !.again = TRUE].again
        BY <1>0 DEF Local
      <4> QED
        BY <1>0, <4>1, <4>2
    <3>2. pc'[p] \in {"find", "sweep"}
      BY <1>0, <2>2 DEF SweepExpires
    <3> QED
      BY <2>1, <3>1, <3>2 DEF FindsFor
  <2>3. CASE SweepSelect(p) \/ SweepDone(p)
    <3>1. pc'[p] \in {"sweep", "idle", "ok"}
      BY <1>0, <2>3, Ends DEF SweepSelect, SweepDone
    <3> QED
      BY <3>1 DEF FindsFor
  <2> QED
    BY <1>3, <2>2, <2>3 DEF SweepStep
<1>4. CASE SaveStep(p)
  <2>1. UNCHANGED call /\ call[p].op = "save"
    BY <1>4
    DEF SaveStep, SaveRead, SaveExpires, SaveAnnouncesExpiry, TxBegin, TxTimer, TxLatest,
        TxInsert, TxCommit, Reread, AnnounceTimer, SaveExisting, ServesItsCall, Saving
  <2>2. ServesItsCall(p)'
    BY <1>4, SaveServes
  <2> QED
    BY <2>1, <2>2 DEF ServesItsCall, FindsFor
<1> QED
  BY <1>1, <1>2, <1>3, <1>4 DEF Step

\* What is no handler's step brings nobody to findOrThrow but with a new call,
\* and nobody to an announcement.
LEMMA OthersFind ==
    ASSUME TypeInv, [Next]_vars, NEW p \in Procs, ServesItsCall(p), FindsFor(p), ~Step(p)
    PROVE  /\ FindsFor(p)'
           /\ \A s \in Sessions : Announces(p, s)' => Announces(p, s)
<1>0. /\ pc \in [Procs -> Labels] /\ call \in [Procs -> Call] /\ local \in [Procs -> Local]
      /\ Timer \notin Requests
  BY ConstantsAssumption DEF TypeInv, TypeOK
<1> DEFINE Finds == /\ FindsFor(p)'
                    /\ \A s \in Sessions : Announces(p, s)' => Announces(p, s)
<1>1. pc'[p] = pc[p] /\ call'[p] = call[p] /\ local'[p] = local[p] => Finds
  BY DEF FindsFor, Announces
<1>2. ASSUME NEW q \in Procs, Step(q)
      PROVE  Finds
  BY <1>1, <1>2, OneSteps
<1>3. ASSUME NEW q \in Requests, Receives(q)
      PROVE  Finds
  <2>1. PICK c, label : /\ Receive(q, c, label)
                        /\ label \in {"createCheck", "find", "sweepSelect", "saveRead"}
    BY <1>3, ReceivesLabel
  <2>2. CASE p # q
    BY <1>0, <1>1, <2>1, <2>2 DEF Receive
  <2>3. CASE p = q
    <3>1. pc'[p] = label /\ local'[p] = local[p] /\ ~local[p].again
      BY <1>0, <2>1, <2>3 DEF Receive, ServesItsCall
    <3>2. \A s \in Sessions : ~Announces(p, s)'
      BY <2>1, <3>1 DEF Announces
    <3>3. pc'[p] = "find" => call'[p].op \in {"read", "open", "close", "closeByGuest"}
      <4>1. ASSUME NEW d, NEW l, Receive(q, d, l)
            PROVE  pc'[p] = l /\ call'[p] = d
        BY <1>0, <2>3, <4>1 DEF Receive, Procs
      <4>2. ASSUME NEW op \in {"read", "open", "close", "closeByGuest"}, NEW s, NEW by,
                   ReceiveFind(q, op, s, by)
            PROVE  call'[p].op = op
        <5>1. [NoCall EXCEPT !.op = op, !.s = s, !.by = by].op = op
          BY DEF NoCall
        <5> QED
          BY <4>1, <4>2, <5>1 DEF ReceiveFind
      <4>3. (\E room \in Rooms : ReceiveCreate(q, room)) => pc'[p] = "createCheck"
        BY <4>1 DEF ReceiveCreate
      <4>4. ReceiveList(q) => pc'[p] = "sweepSelect"
        BY <4>1 DEF ReceiveList
      <4>5. (\E s, by, key : ReceiveSave(q, s, by, key)) => pc'[p] = "saveRead"
        BY <4>1 DEF ReceiveSave
      <4> QED
        BY <1>3, <4>2, <4>3, <4>4, <4>5 DEF Receives
    <3> QED
      BY <2>1, <3>1, <3>2, <3>3 DEF FindsFor
  <2> QED
    BY <2>2, <2>3
<1>4. CASE Stop
  <2>1. pc'[p] \in Results \cup {"idle"}
    BY <1>0, <1>4 DEF Stop, Results
  <2> QED
    BY <2>1 DEF Results, FindsFor, Announces
<1>5. CASE Environment \/ Tick \/ TimerRejects \/ UNCHANGED vars
  BY <1>1, <1>4, <1>5
  DEF Environment, DeleteRoom, DeleteAgent, DeleteExpiredHistory, Crash, Tick, TimerRejects,
      vars
<1> QED
  BY <1>2, <1>3, <1>5 DEF Next, Rest

\* A handler comes to an announcement by ending the session, or on the way back
\* from having ended it.
LEMMA OwnStepAnnounces ==
    ASSUME TypeInv, NEW p \in Procs, ServesItsCall(p), FindsFor(p), Step(p),
           NEW s \in Sessions, Announces(p, s)'
    PROVE  Announces(p, s) \/ rows'[s].status \in Terminal
<1>0. /\ pc \in [Procs -> Labels] /\ call \in [Procs -> Call] /\ local \in [Procs -> Local]
      /\ rows \in [Sessions -> Row]
  BY DEF TypeInv, TypeOK
<1>1. CASE Find(p)
  <2>1. PICK label, row :
          /\ Goto(p, label, row)
          /\ label = "expire" \/ label = AfterFind(call[p], local[p].again, row)
    BY <1>1 DEF Find
  <2>2. pc'[p] = label /\ UNCHANGED call /\ pc[p] = "find"
    BY <1>1, <2>1, GoesOn DEF Find
  <2>3. label = AfterFind(call[p], local[p].again, row) =>
           label \notin {"find", "expired", "saveExpired"}
    BY AfterFindServes
  <2>4. label = "announceClosed" /\ label = AfterFind(call[p], local[p].again, row)
    BY <2>1, <2>2, <2>3 DEF Announces
  <2>5. local[p].again /\ call[p].op \in {"closeByGuest", "list", "sweep"}
    BY <2>2, <2>4, AfterFindAnnounces DEF FindsFor
  <2> QED
    BY <2>2, <2>5 DEF Announces
<1>2. CASE AnnounceExpired(p)
  BY <1>2 DEF AnnounceExpired, Announces
<1>3. ASSUME NEW x \in Sessions, NEW row, rows' = [rows EXCEPT ![x] = row],
             row.status \in Terminal, call'[p].s = x
      PROVE  rows'[s].status \in Terminal
  BY <1>0, <1>3 DEF Announces
<1>4. CASE FindExpires(p) \/ SaveExpires(p)
  <2> DEFINE row == Expire(rows[call[p].s], now)
  <2>1. call[p].s \in Sessions /\ UNCHANGED call
    BY <1>4, RowOfCall DEF FindExpires, SaveExpires, NamesSession
  <2>2. row.status = "EXPIRED"
    BY <1>0, <2>1 DEF Expire, Row
  <2>3. rows' = [rows EXCEPT ![call[p].s] = row] \/ Leave(p, "error")
    BY <1>4 DEF FindExpires, SaveExpires
  <2>4. ~Leave(p, "error")
    BY Ends DEF Announces
  <2> HIDE DEF row
  <2> QED
    BY <1>3, <2>1, <2>2, <2>3, <2>4 DEF Terminal
<1>5. CASE CloseUpdate(p)
  <2> DEFINE row == Close(rows[call[p].s], now, "AGENT_CLOSED")
  <2>1. call[p].s \in Sessions /\ UNCHANGED call
    BY <1>5, RowOfCall DEF CloseUpdate, NamesSession
  <2>2. row.status = "CLOSED"
    BY <1>0, <2>1 DEF Close, Row
  <2>3. rows' = [rows EXCEPT ![call[p].s] = row] \/ Leave(p, "error")
    BY <1>5 DEF CloseUpdate
  <2>4. ~Leave(p, "error")
    BY Ends DEF Announces
  <2> HIDE DEF row
  <2> QED
    BY <1>3, <2>1, <2>2, <2>3, <2>4 DEF Terminal
<1>6. CASE GuestCloseUpdate(p)
  <2> DEFINE row == Close(rows[call[p].s], now, "GUEST_CLOSED")
  <2>1. call[p].s \in Sessions /\ UNCHANGED call
    BY <1>6, RowOfCall DEF GuestCloseUpdate, NamesSession
  <2>2. row.status = "CLOSED"
    BY <1>0, <2>1 DEF Close, Row
  <2>3. rows' = [rows EXCEPT ![call[p].s] = row] \/ Leave(p, "conflict")
    BY <1>6 DEF GuestCloseUpdate
  <2>4. ~Leave(p, "conflict")
    BY Ends DEF Announces
  <2> HIDE DEF row
  <2> QED
    BY <1>3, <2>1, <2>2, <2>3, <2>4 DEF Terminal
<1>7. CASE SweepExpires(p)
  <2>1. PICK x \in local[p].due :
          IF Lapsed(rows[x], local[p].at)
          THEN /\ rows' = [rows EXCEPT ![x] = Expire(rows[x], local[p].at)]
               /\ call' = [call EXCEPT ![p].s = x]
          ELSE pc' = pc
    BY <1>7 DEF SweepExpires
  <2>2. x \in Sessions /\ pc[p] = "sweep"
    BY <1>0, <1>7, <2>1 DEF SweepExpires, Local
  <2>3. Lapsed(rows[x], local[p].at)
    BY <2>1, <2>2 DEF Announces
  <2>4. Expire(rows[x], local[p].at).status = "EXPIRED"
    BY <1>0, <2>2 DEF Expire, Row
  <2>5. call'[p].s = x
    BY <1>0, <2>1, <2>3 DEF Call
  <2> QED
    BY <1>3, <2>1, <2>2, <2>3, <2>4, <2>5 DEF Terminal
<1>8. CASE OpenUpdate(p)
  <2>1. pc'[p] \in {"find", "error", "conflict"} /\ call[p].op = "open" /\ UNCHANGED call
    BY <1>0, <1>8, Ends DEF OpenUpdate, ServesItsCall
  <2> QED
    BY <2>1 DEF Announces
<1>9. CASE \/ FindNothing(p) \/ CreateCheck(p) \/ CreateInsert(p) \/ AnnounceOpened(p)
           \/ AnnounceClosed(p) \/ SweepSelect(p) \/ SweepDone(p)
  <2>1. pc'[p] \notin {"expired", "saveExpired", "announceClosed", "find"}
    BY <1>0, <1>9, GoesOn, Ends
    DEF FindNothing, CreateCheck, CreateInsert, AnnounceOpened, AnnounceClosed,
        SweepSelect, SweepDone
  <2> QED
    BY <2>1 DEF Announces
<1>10. CASE SaveStep(p) /\ ~SaveExpires(p)
  <2>1. CASE SaveRead(p) \/ TxLatest(p) \/ TxCommit(p) \/ Reread(p)
    <3>1. pc'[p] \notin {"expired", "saveExpired", "announceClosed", "find"}
      BY <2>1, GoesOn DEF SaveRead, TxLatest, TxCommit, Reread, SaveJudges
    <3> QED
      BY <3>1 DEF Announces
  <2>2. CASE TxBegin(p) \/ TxTimer(p) \/ TxInsert(p)
    <3>1. pc'[p] \notin {"expired", "saveExpired", "announceClosed", "find"}
      BY <1>0, <2>2, GoesOn, Ends DEF TxBegin, TxTimer, TxInsert
    <3> QED
      BY <3>1 DEF Announces
  <2>3. CASE SaveAnnouncesExpiry(p) \/ AnnounceTimer(p) \/ SaveExisting(p)
    <3>1. pc'[p] \notin {"expired", "saveExpired", "announceClosed", "find"}
      BY <2>3, Ends DEF SaveAnnouncesExpiry, AnnounceTimer, SaveExisting
    <3> QED
      BY <3>1 DEF Announces
  <2> QED
    BY <1>10, <2>1, <2>2, <2>3 DEF SaveStep
<1> QED
  BY <1>1, <1>2, <1>4, <1>5, <1>6, <1>7, <1>8, <1>9, <1>10
  DEF Step, FindStep, SessionStep, SweepStep, SaveStep

\* The handler that owes an announcement publishes it, or goes on towards it.
LEMMA OwnStepPublishes ==
    ASSUME PromiseInv, AnnounceInv, NEW p \in Procs, Step(p),
           NEW s \in Sessions, Announces(p, s)
    PROVE  Announces(p, s)' \/ feed'[s].kind = "closed" \/ Gone(s)'
<1>0. /\ TypeInv /\ feed \in [Sessions -> EventView] /\ rows[s] \in Row
      /\ pc \in [Procs -> Labels]
      /\ call[p].s = s /\ Ended(s) /\ FindsFor(p)
  BY DEF PromiseInv, WindowInv, TypeInv, TypeOK, AnnounceInv, Announces
<1>1. ASSUME NEW row, Publish(s, "closed", row)
      PROVE  feed'[s].kind = "closed"
  <2>1. View("closed", row).kind = "closed"
    BY DEF View
  <2> QED
    BY <1>0, <1>1, <2>1 DEF Publish
<1>2. CASE pc[p] # "find"
  <2>1. AnnounceExpired(p) \/ SaveAnnouncesExpiry(p) \/ AnnounceClosed(p)
    BY <1>2
    DEF Announces, Step, FindStep, Find, FindNothing, FindExpires,
        SessionStep, CreateCheck, CreateInsert, OpenUpdate, AnnounceOpened, CloseUpdate,
        GuestCloseUpdate, SweepStep, SweepSelect, SweepExpires, SweepDone, TimerFires,
        SaveStep, SaveRead, SaveExpires, TxBegin, TxTimer, TxLatest, TxInsert, TxCommit,
        Reread, AnnounceTimer, SaveExisting
  <2> QED
    BY <1>0, <1>1, <2>1 DEF AnnounceExpired, SaveAnnouncesExpiry, AnnounceClosed
<1>3. CASE pc[p] = "find"
  <2>0. local[p].again /\ call[p].op \in {"closeByGuest", "list", "sweep"}
    BY <1>3 DEF Announces
  <2>1. Find(p) \/ FindNothing(p)
    BY <1>3
    DEF Step, FindStep, FindExpires, AnnounceExpired, AnnounceClosed,
        SessionStep, CreateCheck, CreateInsert, OpenUpdate, AnnounceOpened, CloseUpdate,
        GuestCloseUpdate, SweepStep, SweepSelect, SweepExpires, SweepDone, TimerFires,
        SaveStep, SaveRead, SaveExpires, SaveAnnouncesExpiry, TxBegin, TxTimer, TxLatest,
        TxInsert, TxCommit, Reread, AnnounceTimer, SaveExisting
  <2>2. CASE Find(p)
    <3> DEFINE label == AfterFind(call[p], local[p].again, rows[s])
    <3>1. ~Lapsed(rows[s], now)
      BY <1>0, <2>2 DEF Find, Ended, Lapsed, Terminal
    <3>2. label = "announceClosed"
      BY <1>0, <1>3, <2>0, AfterFindAnnounces DEF FindsFor
    <3>3. Goto(p, label, rows[s]) /\ UNCHANGED call
      BY <1>0, <2>2, <3>1 DEF Find
    <3> HIDE DEF label
    <3>4. pc'[p] = "announceClosed"
      BY <1>0, <3>2, <3>3, GoesOn
    <3> QED
      BY <1>0, <3>3, <3>4 DEF Announces
  <2>3. CASE FindNothing(p)
    <3>1. ~Present(s) /\ UNCHANGED rows
      BY <1>0, <2>3 DEF FindNothing, db
    <3> QED
      BY <1>0, <3>1 DEF Ended, Present, Gone
  <2> QED
    BY <2>1, <2>2, <2>3
<1> QED
  BY <1>2, <1>3

\* What is owed stays so until it is published, there is nobody left to tell it
\* to, or nobody left to tell it.
LEMMA OwedUntilPublished ==
    ASSUME PromiseInv, AnnounceInv, [Next]_vars, NEW s \in Sessions,
           NEW p \in Procs, Announces(p, s)
    PROVE  Announces(p, s)' \/ feed'[s].kind = "closed" \/ Gone(s)' \/ crashes' # crashes
<1>0. /\ TypeInv /\ crashes \in Nat /\ call \in [Procs -> Call] /\ pc \in [Procs -> Labels]
  BY DEF PromiseInv, WindowInv, TypeInv, TypeOK
<1>1. pc'[p] = pc[p] /\ call'[p] = call[p] /\ local'[p] = local[p] => Announces(p, s)'
  BY DEF Announces
<1>2. ASSUME NEW q \in Procs, Step(q)
      PROVE  Announces(p, s)' \/ feed'[s].kind = "closed" \/ Gone(s)'
  BY <1>0, <1>1, <1>2, OneSteps, OwnStepPublishes
<1>3. ASSUME NEW q \in Requests, Receives(q)
      PROVE  Announces(p, s)'
  <2>1. PICK c, label : Receive(q, c, label)
    BY <1>3, ReceivesLabel
  <2>2. p # q
    BY <2>1 DEF Receive, Announces
  <2> QED
    BY <1>0, <1>1, <2>1, <2>2 DEF Receive
<1>4. CASE Crash \/ TimerRejects
  BY <1>0, <1>4 DEF Crash, TimerRejects
<1>5. CASE Environment \/ Tick \/ UNCHANGED vars
  BY <1>1, <1>4, <1>5
  DEF Environment, DeleteRoom, DeleteAgent, DeleteExpiredHistory, Tick, vars
<1> QED
  BY <1>2, <1>3, <1>4, <1>5 DEF Next, Rest

\* A statement that ends a session is followed by its announcement.
LEMMA EndIsOwed ==
    ASSUME PromiseInv, [Next]_vars, NEW s \in Sessions,
           rows[s].status \in Open, rows'[s].status \in Terminal
    PROVE  Owed(s)'
<1>0. /\ TypeInv /\ rows \in [Sessions -> Row] /\ rows[s] \in Row
      /\ call \in [Procs -> Call] /\ pc \in [Procs -> Labels] /\ local \in [Procs -> Local]
      /\ rows'[s].status # rows[s].status /\ rows' # rows
  BY DEF PromiseInv, WindowInv, TypeInv, TypeOK, Open, Terminal
<1>1. ASSUME NEW p \in Procs, FindExpires(p) \/ SaveExpires(p) \/ CloseUpdate(p)
      PROVE  Owed(s)'
  <2>1. call[p].s \in Sessions /\ UNCHANGED call /\ ~UNCHANGED rows
    BY <1>0, <1>1, RowOfCall DEF FindExpires, SaveExpires, CloseUpdate, NamesSession
  <2>2. \E row : rows' = [rows EXCEPT ![call[p].s] = row]
    BY <1>1, <2>1 DEF FindExpires, SaveExpires, CloseUpdate
  <2>3. call[p].s = s
    BY <1>0, <2>2
  <2>4. \E row : \/ Goto(p, "expired", row) \/ Goto(p, "saveExpired", row)
                 \/ Goto(p, "announceClosed", row)
    BY <1>1, <2>1 DEF FindExpires, SaveExpires, CloseUpdate
  <2>5. pc'[p] \in {"expired", "saveExpired", "announceClosed"}
    BY <1>0, <2>4, GoesOn
  <2> QED
    BY <2>1, <2>3, <2>5 DEF Owed, Announces
<1>2. ASSUME NEW p \in Procs, GuestCloseUpdate(p)
      PROVE  Owed(s)'
  <2>1. /\ call[p].s \in Sessions /\ UNCHANGED call /\ ~UNCHANGED rows
        /\ call[p].op = "closeByGuest"
    BY <1>0, <1>2, RowOfCall DEF GuestCloseUpdate, NamesSession, PromiseInv, ServesItsCall
  <2>2. /\ \E row : rows' = [rows EXCEPT ![call[p].s] = row]
        /\ pc' = [pc EXCEPT ![p] = "find"]
        /\ local' = [local EXCEPT ![p].again = TRUE]
    BY <1>2, <2>1 DEF GuestCloseUpdate
  <2>3. call[p].s = s
    BY <1>0, <2>2
  <2>4. pc'[p] = "find" /\ local'[p].again
    <3>1. local[p] \in Local
      BY <1>0
    <3>2. [local[p] EXCEPT !.again = TRUE].again
      BY <3>1 DEF Local
    <3> QED
      BY <1>0, <2>2, <3>2
  <2> QED
    BY <2>1, <2>3, <2>4 DEF Owed, Announces
<1>3. ASSUME NEW p \in Procs, SweepExpires(p)
      PROVE  Owed(s)'
  <2>1. PICK x \in local[p].due :
          /\ rows' = [rows EXCEPT ![x] = Expire(rows[x], local[p].at)]
          /\ call' = [call EXCEPT ![p].s = x]
          /\ pc' = [pc EXCEPT ![p] = "find"]
          /\ local' = [local EXCEPT ![p].due = @ \ {x}, ![p].again = TRUE]
    BY <1>0, <1>3 DEF SweepExpires
  <2>2. x = s
    BY <1>0, <2>1
  <2>3. call'[p].s = s /\ call'[p].op = call[p].op
    BY <1>0, <2>1, <2>2 DEF Call
  <2>4. call[p].op \in {"list", "sweep"}
    BY <1>3 DEF SweepExpires, PromiseInv, ServesItsCall
  <2>5. pc'[p] = "find" /\ local'[p].again
    <3>1. local[p] \in Local
      BY <1>0
    <3>2. [local[p] EXCEPT !.due = @ \ {x}, !.again = TRUE].again
      BY <3>1 DEF Local
    <3> QED
      BY <1>0, <2>1, <3>2
  <2> QED
    BY <2>3, <2>4, <2>5 DEF Owed, Announces
<1>4. ASSUME NEW p \in Procs, Step(p), OpenUpdate(p) \/ CreateInsert(p) \/ TxCommit(p)
      PROVE  FALSE
  <2>1. CASE OpenUpdate(p)
    <3> DEFINE row == Assign(rows[s], call[p].by)
    <3>1. row.status = "ACTIVE"
      BY <1>0 DEF Assign, Row
    <3>2. rows'[s] = rows[s] \/ rows'[s] = row
      BY <1>0, <2>1 DEF OpenUpdate
    <3> HIDE DEF row
    <3> QED
      BY <1>0, <3>1, <3>2 DEF Terminal
  <2>2. CASE CreateInsert(p)
    BY <1>0, <2>2 DEF CreateInsert, NewRow, AbsentRow, Open, Terminal
  <2>3. CASE TxCommit(p)
    <3> DEFINE row == IF HoldsLock(p)
                      THEN Started(Touched(rows[s], local[p].born), local[p].at)
                      ELSE Touched(rows[s], local[p].born)
    <3>1. row.status = rows[s].status
      BY <1>0 DEF Started, Touched, Row
    <3>2. rows'[s] = rows[s] \/ rows'[s] = row
      BY <1>0, <2>3 DEF TxCommit
    <3> QED
      BY <1>0, <3>1, <3>2
  <2> QED
    BY <1>4, <2>1, <2>2, <2>3
<1>5. ASSUME NEW p \in Procs, Step(p)
      PROVE  Owed(s)'
  BY <1>0, <1>1, <1>2, <1>3, <1>4, <1>5
  DEF Step, FindStep, Find, FindNothing, AnnounceExpired,
      SessionStep, CreateCheck, AnnounceOpened, AnnounceClosed,
      SweepStep, SweepSelect, SweepDone,
      SaveStep, SaveRead, SaveAnnouncesExpiry, TxBegin, TxTimer, TxLatest,
      TxInsert, Reread, AnnounceTimer, SaveExisting, db
<1>6. ASSUME NEW gone, DeleteSessions(gone)
      PROVE  FALSE
  BY <1>0, <1>6 DEF DeleteSessions, AbsentRow, Terminal
<1>7. ASSUME NEW a \in Agents, DeleteAgent(a)
      PROVE  FALSE
  BY <1>0, <1>7 DEF DeleteAgent, Row
<1>8. ASSUME NEW p \in Requests, Receives(p)
      PROVE  FALSE
  <2>1. PICK c, label : Receive(p, c, label)
    BY <1>8, ReceivesLabel
  <2> QED
    BY <1>0, <2>1 DEF Receive, db
<1>9. CASE Environment
  BY <1>0, <1>6, <1>7, <1>9 DEF Environment, DeleteRoom, DeleteExpiredHistory, Crash, Stop
<1>10. CASE Tick \/ TimerRejects \/ UNCHANGED vars
  BY <1>0, <1>10 DEF Tick, TimerRejects, Stop, db, vars
<1> QED
  BY <1>5, <1>8, <1>9, <1>10 DEF Next, Rest

\* What is about to be announced stays so.
LEMMA StepAnnounces ==
    ASSUME PromiseInv, AnnounceInv, [Next]_vars
    PROVE  AnnounceInv'
<1>0. TypeInv /\ WindowInv /\ rows \in [Sessions -> Row] /\ \A p \in Procs : ServesItsCall(p)
  BY DEF PromiseInv, WindowInv, TypeInv, TypeOK
<1>1. ASSUME NEW s \in Sessions, Ended(s)
      PROVE  Ended(s)'
  BY <1>0, <1>1, RowSteps DEF Ended, Known, LifecycleStep, Gone, Terminal
<1>2. ASSUME NEW p \in Procs
      PROVE  /\ FindsFor(p)'
             /\ \A s \in Sessions : Announces(p, s)' => Ended(s)'
  <2>1. CASE Step(p)
    <3>1. FindsFor(p)'
      BY <1>0, <2>1, OwnStepFinds DEF AnnounceInv
    <3>2. ASSUME NEW s \in Sessions, Announces(p, s)'
          PROVE  Announces(p, s) \/ rows'[s].status \in Terminal
      BY <1>0, <2>1, <3>2, OwnStepAnnounces DEF AnnounceInv
    <3> QED
      BY <1>1, <3>1, <3>2 DEF AnnounceInv, Ended
  <2>2. CASE ~Step(p)
    <3>1. /\ FindsFor(p)'
          /\ \A s \in Sessions : Announces(p, s)' => Announces(p, s)
      BY <1>0, <2>2, OthersFind DEF AnnounceInv
    <3> QED
      BY <1>1, <3>1 DEF AnnounceInv
  <2> QED
    BY <2>1, <2>2
<1> QED
  BY <1>2 DEF AnnounceInv

\* Whoever ends a session, its clients are told: the safety half of EndIsAnnounced.
THEOREM EndsStayOwed == Spec => EndsAreOwed
<1> DEFINE Owing ==
      \A s \in Sessions :
         /\ rows[s].status \in Open /\ rows'[s].status \in Terminal => Owed(s)'
         /\ Owed(s) => \/ Owed(s)' \/ feed'[s].kind = "closed"
                       \/ Gone(s)' \/ crashes' # crashes
<1>1. Init => AnnounceInv
  <2>1. Init => pc = [p \in Procs |-> "idle"]
    BY Zenon DEF Init
  <2> QED
    BY <2>1 DEF AnnounceInv, FindsFor, Announces
<1>2. PromiseInv /\ AnnounceInv /\ [Next]_vars => AnnounceInv'
  BY StepAnnounces
<1>3. PromiseInv /\ AnnounceInv /\ [Next]_vars => [Owing]_vars
  BY EndIsOwed, OwedUntilPublished DEF Owed
<1>4. Spec => [][Owing]_vars
  BY <1>1, <1>2, <1>3, PromisesKept, PTL DEF Spec
<1> QED
  BY <1>4 DEF EndsAreOwed

=============================================================================
