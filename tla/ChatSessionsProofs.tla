-------------------------- MODULE ChatSessionsProofs --------------------------
(***************************************************************************)
(* Proofs about ChatSessions, for every number of rooms, sessions, agents  *)
(* and requests, every duration and every bound of the clock: its types,   *)
(* and what the statements of all handlers together do to a row.           *)
(***************************************************************************)
EXTENDS ChatSessions, TLAPS

\* Where a handler stands decides what its call must name.
NamesSession ==
    {"find", "expire", "expired", "openUpdate", "announceOpened", "closeUpdate",
     "guestCloseUpdate", "announceClosed", "saveRead", "saveExpire",
     "saveExpired", "txBegin", "txTimer", "txLatest", "txInsert", "txCommit",
     "reread", "announceTimer", "saveExisting"}
Saving ==
    {"saveRead", "saveExpire", "saveExpired", "txBegin", "txTimer", "txLatest",
     "txInsert", "txCommit", "reread", "announceTimer", "saveExisting"}

\* A handler at a label is at work on a call that can have led there.
CallsMatchLabels ==
    \A p \in Procs :
        /\ pc[p] \in NamesSession => call[p].s \in Sessions
        /\ pc[p] \in Saving => /\ p \in Requests
                               /\ call[p].by \in Agents \cup {Guest}
                               /\ call[p].key \in Keys
        /\ pc[p] = "txCommit" => local[p].born \in Nat

TypeInv == TypeOK /\ CallsMatchLabels

-----------------------------------------------------------------------------

\* The rows the code writes are rows.
LEMMA FreshTypes ==
    /\ AbsentRow("UNUSED") \in Row
    /\ AbsentRow("DELETED") \in Row
    /\ \A t \in Time, room \in Rooms : NewRow(room, t) \in Row
    /\ Blank \in Local
<1>1. /\ AbsentRow("UNUSED") \in Row
      /\ AbsentRow("DELETED") \in Row
      /\ AbsentRow("WAITING") \in Row
  BY DEF Row, AbsentRow, Status, Reason, Time, Open
<1>2. \A t \in Time, room \in Rooms : NewRow(room, t) \in Row
  BY <1>1 DEF Row, NewRow
<1>3. Blank \in Local
  BY <1>1 DEF Blank, Local, Time
<1> QED
  BY <1>1, <1>2, <1>3

\* Ending a row, either way, gives a row.
LEMMA RowTypes ==
    ASSUME NEW row \in Row, NEW t \in Time
    PROVE  /\ Expire(row, t) \in Row
           /\ Close(row, t, "AGENT_CLOSED") \in Row
           /\ Close(row, t, "GUEST_CLOSED") \in Row
<1>1. Expire(row, t) \in Row
  BY DEF Row, Expire, Status, Reason, Terminal
<1>2. Close(row, t, "AGENT_CLOSED") \in Row /\ Close(row, t, "GUEST_CLOSED") \in Row
  BY DEF Row, Close, Status, Reason, Terminal
<1> QED
  BY <1>1, <1>2

\* Ending a handler leaves the process variables well typed.
LEMMA LeaveTypes ==
    ASSUME TypeOK, NEW p \in Procs, NEW result \in Results \cup {"idle"},
           Leave(p, result)
    PROVE  /\ pc' \in [Procs -> Labels]
           /\ local' \in [Procs -> Local]
           /\ pc'[p] = result
           /\ \A q \in Procs \ {p} : pc'[q] = pc[q] /\ local'[q] = local[q]
<1>1. Blank \in Local
  BY FreshTypes
<1> QED
  BY <1>1 DEF Leave, TypeOK, Labels

\* So does passing on to another label with a row at hand.
LEMMA GotoTypes ==
    ASSUME TypeOK, NEW p \in Procs, NEW label \in Labels, NEW row \in Row,
           Goto(p, label, row)
    PROVE  /\ pc' \in [Procs -> Labels]
           /\ local' \in [Procs -> Local]
           /\ pc'[p] = label
           /\ label \notin Results => local'[p].born = local[p].born
           /\ \A q \in Procs \ {p} : pc'[q] = pc[q] /\ local'[q] = local[q]
<1>1. Blank \in Local
  BY FreshTypes
<1>2. CASE label \in Results
  BY <1>2, LeaveTypes DEF Goto
<1>3. CASE label \notin Results
  <2> DEFINE l == [local[p] EXCEPT !.seen =
                     IF label \in Carrying THEN row ELSE Blank.seen]
  <2>1. l \in Local /\ l.born = local[p].born
    BY <1>1 DEF TypeOK, Local
  <2>2. pc' = [pc EXCEPT ![p] = label] /\ local' = [local EXCEPT ![p] = l]
    BY <1>3 DEF Goto
  <2> HIDE DEF l
  <2> QED
    BY <2>1, <2>2 DEF TypeOK
<1> QED
  BY <1>2, <1>3

\* A handler continues from findOrThrow at a label of its own operation.
LEMMA AfterFindLabels ==
    ASSUME NEW c, NEW again, NEW row
    PROVE  AfterFind(c, again, row) \in
             {"conflict", "ok", "openUpdate", "announceOpened", "refused",
              "closeUpdate", "guestCloseUpdate", "announceClosed"}
BY DEF AfterFind

\* A handler that moves on with its call unchanged keeps calls and labels matched.
LEMMA MoveMatches ==
    ASSUME TypeInv, NEW p \in Procs, NEW label \in Labels,
           pc'[p] = label,
           \A q \in Procs \ {p} : pc'[q] = pc[q] /\ local'[q] = local[q],
           UNCHANGED call,
           label \in NamesSession => pc[p] \in NamesSession,
           label \in Saving => pc[p] \in Saving,
           label = "txCommit" => local'[p].born \in Nat
    PROVE  CallsMatchLabels'
BY DEF TypeInv, CallsMatchLabels

\* The row a handler works on is a row.
LEMMA RowOfCall ==
    ASSUME TypeInv, NEW p \in Procs, pc[p] \in NamesSession
    PROVE  call[p].s \in Sessions /\ rows[call[p].s] \in Row
BY DEF TypeInv, TypeOK, CallsMatchLabels

\* What is published is an event's view of a row.
LEMMA PublishTypes ==
    ASSUME TypeInv, NEW s \in Sessions, NEW row \in Row,
           NEW kind \in {"updated", "closed"}, Publish(s, kind, row)
    PROVE  feed' \in [Sessions -> EventView]
<1>1. View(kind, row) \in EventView
  BY DEF View, EventView, Row
<1> QED
  BY <1>1 DEF Publish, TypeInv, TypeOK

-----------------------------------------------------------------------------

\* The initial state is well typed: nothing runs, and rows wait or were opened.
LEMMA InitTypes == Init => TypeInv
<1> SUFFICES ASSUME Init PROVE TypeInv
  OBVIOUS
<1> USE ConstantsAssumption
<1>1. Blank \in Local
  BY FreshTypes
<1>2. rows \in [Sessions -> Row]
  <2>1. PICK room \in Injection(Prior, Rooms), agent \in [Opened -> Agents] :
          rows = [s \in Sessions |->
            CASE s \in Opened -> [NewRow(room[s], 0) EXCEPT !.status = "ACTIVE",
                                                           !.agent = agent[s]]
              [] s \in Prior \ Opened -> NewRow(room[s], 0)
              [] OTHER -> AbsentRow("UNUSED")]
    BY DEF Init
  <2>2. \A s \in Prior : room[s] \in Rooms
    BY DEF Injection
  <2>3. \A s \in Prior : NewRow(room[s], 0) \in Row
    BY <2>2, FreshTypes DEF Time
  <2>4. ASSUME NEW s \in Opened
        PROVE  [NewRow(room[s], 0) EXCEPT !.status = "ACTIVE",
                                          !.agent = agent[s]] \in Row
    <3>1. NewRow(room[s], 0) \in Row /\ agent[s] \in Agents
      BY <2>3
    <3> QED
      BY <3>1 DEF Row, Status, Open
  <2>5. AbsentRow("UNUSED") \in Row
    BY FreshTypes
  <2> QED
    BY <2>1, <2>3, <2>4, <2>5
<1>3. messages \subseteq Message
  <2>1. \A s \in Prior : WelcomeMessage(s, 0) \in Message
    BY DEF WelcomeMessage, Message
  <2> QED
    BY <2>1 DEF Init
<1>4. feed \in [Sessions -> EventView]
  BY DEF Init, NoView, EventView, Status, Time, NoTime
<1>5. call \in [Procs -> Call]
  BY DEF Init, NoCall, Call, AllOps
<1>6. /\ now \in Nat /\ crashes \in Nat /\ staff \subseteq Agents
      /\ rooms \subseteq Rooms /\ lock \in [Sessions -> Requests \cup {None}]
  BY DEF Init
<1>7. pc \in [Procs -> Labels] /\ local \in [Procs -> Local]
  BY <1>1 DEF Init, Labels
<1>8. CallsMatchLabels
  BY DEF Init, CallsMatchLabels, NamesSession, Saving
<1> QED
  BY <1>2, <1>3, <1>4, <1>5, <1>6, <1>7, <1>8 DEF TypeInv, TypeOK

-----------------------------------------------------------------------------

\* The steps of findOrThrow keep the types.
LEMMA FindStepTypes ==
    ASSUME TypeInv, NEW p \in Procs, FindStep(p)
    PROVE  TypeInv'
<1> USE DEF NamesSession, Saving
<1> DEFINE row == rows[call[p].s]
<1>1. CASE Find(p)
  <2> DEFINE label == IF Lapsed(row, now) THEN "expire"
                      ELSE AfterFind(call[p], local[p].again, row)
  <2>1. pc[p] = "find" /\ row \in Row /\ Goto(p, label, row)
    BY <1>1, RowOfCall DEF Find
  <2>2. label \in {"expire", "conflict", "ok", "openUpdate", "announceOpened",
                   "refused", "closeUpdate", "guestCloseUpdate", "announceClosed"}
    BY AfterFindLabels
  <2>3. label \in Labels
    BY <2>2 DEF Labels, Results
  <2> HIDE DEF label, row
  <2>4. CallsMatchLabels'
    BY <1>1, <2>1, <2>2, <2>3, GotoTypes, MoveMatches DEF Find, TypeInv
  <2> QED
    BY <1>1, <2>1, <2>3, <2>4, GotoTypes DEF Find, db, TypeInv, TypeOK
<1>2. CASE FindNothing(p)
  <2>1. "notFound" \in Results \cup {"idle"} /\ "notFound" \in Labels
    BY DEF Results, Labels
  <2>2. CallsMatchLabels'
    BY <1>2, <2>1, LeaveTypes, MoveMatches DEF FindNothing, TypeInv
  <2> QED
    BY <1>2, <2>1, <2>2, LeaveTypes DEF FindNothing, db, TypeInv, TypeOK
<1>3. CASE FindExpires(p)
  <2> DEFINE s == call[p].s
             new == Expire(rows[s], now)
  <2>1. pc[p] = "expire" /\ s \in Sessions /\ new \in Row
    BY <1>3, RowOfCall, RowTypes DEF FindExpires, TypeInv, TypeOK, Time
  <2>2. /\ {"expired", "error"} \subseteq Labels
        /\ "error" \in Results \cup {"idle"}
    BY DEF Results, Labels
  <2>3. rows' \in [Sessions -> Row]
    BY <1>3, <2>1 DEF FindExpires, TypeInv, TypeOK
  <2>4. CASE Present(s)
    <3>1. Goto(p, "expired", new)
      BY <1>3, <2>4 DEF FindExpires
    <3>2. CallsMatchLabels'
      BY <1>3, <2>1, <2>2, <3>1, GotoTypes, MoveMatches DEF FindExpires, TypeInv
    <3> QED
      BY <1>3, <2>1, <2>2, <2>3, <3>1, <3>2, GotoTypes
      DEF FindExpires, TypeInv, TypeOK
  <2>5. CASE ~Present(s)
    <3>1. Leave(p, "error")
      BY <1>3, <2>5 DEF FindExpires
    <3>2. CallsMatchLabels'
      BY <1>3, <2>1, <2>2, <3>1, LeaveTypes, MoveMatches DEF FindExpires, TypeInv
    <3> QED
      BY <1>3, <2>1, <2>2, <2>3, <3>1, <3>2, LeaveTypes
      DEF FindExpires, TypeInv, TypeOK
  <2> QED
    BY <2>4, <2>5
<1>4. CASE AnnounceExpired(p)
  <2> DEFINE seen == local[p].seen
             label == AfterFind(call[p], local[p].again, seen)
  <2>1. pc[p] = "expired" /\ call[p].s \in Sessions /\ seen \in Row
    BY <1>4, RowOfCall DEF AnnounceExpired, TypeInv, TypeOK, Local
  <2>2. label \in {"conflict", "ok", "openUpdate", "announceOpened",
                   "refused", "closeUpdate", "guestCloseUpdate", "announceClosed"}
    BY AfterFindLabels
  <2>3. label \in Labels
    BY <2>2 DEF Labels, Results
  <2>4. Goto(p, label, seen) /\ Publish(call[p].s, "closed", seen)
    BY <1>4 DEF AnnounceExpired
  <2> HIDE DEF label, seen
  <2>5. feed' \in [Sessions -> EventView]
    BY <2>1, <2>4, PublishTypes
  <2>6. CallsMatchLabels'
    BY <1>4, <2>1, <2>2, <2>3, <2>4, GotoTypes, MoveMatches
    DEF AnnounceExpired, TypeInv
  <2> QED
    BY <1>4, <2>1, <2>3, <2>4, <2>5, <2>6, GotoTypes
    DEF AnnounceExpired, db, TypeInv, TypeOK
<1> QED
  BY <1>1, <1>2, <1>3, <1>4 DEF FindStep

\* The steps of create, open and the two closes keep the types.
LEMMA SessionStepTypes ==
    ASSUME TypeInv, NEW p \in Procs, SessionStep(p)
    PROVE  TypeInv'
<1> USE DEF NamesSession, Saving
<1>0. /\ {"createInsert", "find", "announceClosed", "sweep", "ok", "conflict",
          "refused", "error"} \subseteq Labels
      /\ {"ok", "conflict", "refused", "error"} \subseteq Results \cup {"idle"}
  BY DEF Labels, Results
<1>1. CASE CreateCheck(p)
  <2> DEFINE label == IF call[p].room \notin rooms THEN "refused"
                      ELSE IF OpenIn(call[p].room) # {} THEN "conflict"
                      ELSE "createInsert"
  <2>1. Goto(p, label, local[p].seen) /\ local[p].seen \in Row
    BY <1>1 DEF CreateCheck, TypeInv, TypeOK, Local
  <2>2. label \in {"refused", "conflict", "createInsert"}
    OBVIOUS
  <2> HIDE DEF label
  <2>3. CallsMatchLabels'
    BY <1>0, <1>1, <2>1, <2>2, GotoTypes, MoveMatches DEF CreateCheck, TypeInv
  <2> QED
    BY <1>0, <1>1, <2>1, <2>2, <2>3, GotoTypes DEF CreateCheck, db, TypeInv, TypeOK
<1>2. CASE CreateInsert(p)
  <2> DEFINE room == call[p].room
  <2>1. CASE room \in rooms /\ OpenIn(room) = {}
    <3>1. PICK s \in Sessions :
             /\ rows' = [rows EXCEPT ![s] = NewRow(room, now)]
             /\ messages' = messages \cup {WelcomeMessage(s, now)}
             /\ call' = [call EXCEPT ![p].s = s]
             /\ Leave(p, "ok")
      BY <1>2, <2>1 DEF CreateInsert, RoomIsFree
    <3>2. NewRow(room, now) \in Row
      <4>1. room \in Rooms /\ now \in Time
        BY <2>1 DEF TypeInv, TypeOK, Time
      <4> QED
        BY <4>1, FreshTypes
    <3>3. WelcomeMessage(s, now) \in Message
      BY DEF WelcomeMessage, Message, TypeInv, TypeOK
    <3>4. [call[p] EXCEPT !.s = s] \in Call
      BY DEF TypeInv, TypeOK, Call
    <3>5. /\ rows' \in [Sessions -> Row]
          /\ messages' \subseteq Message
          /\ call' \in [Procs -> Call]
      BY <3>1, <3>2, <3>3, <3>4 DEF TypeInv, TypeOK
    <3>6. CallsMatchLabels'
      BY <1>0, <3>1, LeaveTypes DEF TypeInv, TypeOK, CallsMatchLabels
    <3> QED
      BY <1>0, <1>2, <3>1, <3>5, <3>6, LeaveTypes DEF CreateInsert, TypeInv, TypeOK
  <2>2. CASE ~(room \in rooms /\ OpenIn(room) = {})
    <3> DEFINE result == IF room \in rooms THEN "conflict" ELSE "error"
    <3>1. Leave(p, result) /\ UNCHANGED <<rows, messages, call>>
      BY <1>2, <2>2 DEF CreateInsert, RoomIsFree
    <3>2. result \in {"conflict", "error"}
      OBVIOUS
    <3> HIDE DEF result
    <3>3. CallsMatchLabels'
      BY <1>0, <3>1, <3>2, LeaveTypes, MoveMatches DEF TypeInv
    <3> QED
      BY <1>0, <1>2, <3>1, <3>2, <3>3, LeaveTypes DEF CreateInsert, TypeInv, TypeOK
  <2> QED
    BY <2>1, <2>2
<1>3. CASE OpenUpdate(p)
  <2> DEFINE s == call[p].s
             free == Unopened(rows[s])
  <2>0. pc[p] = "openUpdate" /\ s \in Sessions /\ rows[s] \in Row
    BY <1>3, RowOfCall DEF OpenUpdate
  <2>1. CASE free /\ call[p].by \in staff
    <3> DEFINE new == Assign(rows[s], call[p].by)
               l == [local[p] EXCEPT !.again = TRUE]
    <3>1. new \in Row /\ l \in Local
      <4>1. call[p].by \in Agents /\ local[p] \in Local
        BY <2>1 DEF TypeInv, TypeOK
      <4>2. new \in Row
        BY <2>0, <4>1 DEF Row, Status, Open, Assign, Time
      <4>3. l \in Local
        BY <4>1 DEF Local
      <4> QED
        BY <4>2, <4>3
    <3>2. /\ rows' = [rows EXCEPT ![s] = new]
          /\ pc' = [pc EXCEPT ![p] = "find"]
          /\ local' = [local EXCEPT ![p] = l]
      BY <1>3, <2>1 DEF OpenUpdate
    <3> HIDE DEF new, l
    <3>3. /\ pc'[p] = "find"
          /\ \A q \in Procs \ {p} : pc'[q] = pc[q] /\ local'[q] = local[q]
          /\ rows' \in [Sessions -> Row]
          /\ pc' \in [Procs -> Labels]
          /\ local' \in [Procs -> Local]
      BY <1>0, <3>1, <3>2 DEF TypeInv, TypeOK
    <3>4. CallsMatchLabels'
      BY <1>0, <1>3, <2>0, <3>3, MoveMatches DEF OpenUpdate
    <3> QED
      BY <1>3, <3>3, <3>4 DEF OpenUpdate, TypeInv, TypeOK
  <2>2. CASE ~(free /\ call[p].by \in staff)
    <3> DEFINE result == IF free THEN "error" ELSE "conflict"
    <3>1. Leave(p, result) /\ UNCHANGED rows
      BY <1>3, <2>2 DEF OpenUpdate
    <3>2. result \in {"error", "conflict"}
      OBVIOUS
    <3> HIDE DEF result
    <3>3. CallsMatchLabels'
      BY <1>0, <1>3, <3>1, <3>2, LeaveTypes, MoveMatches DEF OpenUpdate, TypeInv
    <3> QED
      BY <1>0, <1>3, <3>1, <3>2, <3>3, LeaveTypes DEF OpenUpdate, TypeInv, TypeOK
  <2> QED
    BY <2>1, <2>2
<1>4. CASE AnnounceOpened(p)
  <2>1. /\ pc[p] = "announceOpened" /\ call[p].s \in Sessions
        /\ local[p].seen \in Row
    BY <1>4, RowOfCall DEF AnnounceOpened, TypeInv, TypeOK, Local
  <2>2. feed' \in [Sessions -> EventView]
    BY <1>4, <2>1, PublishTypes DEF AnnounceOpened
  <2>3. CallsMatchLabels'
    BY <1>0, <1>4, LeaveTypes, MoveMatches DEF AnnounceOpened, TypeInv
  <2> QED
    BY <1>0, <1>4, <2>2, <2>3, LeaveTypes DEF AnnounceOpened, db, TypeInv, TypeOK
<1>5. CASE CloseUpdate(p)
  <2> DEFINE s == call[p].s
             new == Close(rows[s], now, "AGENT_CLOSED")
  <2>1. pc[p] = "closeUpdate" /\ s \in Sessions /\ new \in Row
    BY <1>5, RowOfCall, RowTypes DEF CloseUpdate, TypeInv, TypeOK, Time
  <2>2. rows' \in [Sessions -> Row]
    BY <1>5, <2>1 DEF CloseUpdate, TypeInv, TypeOK
  <2>3. CASE Present(s)
    <3>1. Goto(p, "announceClosed", new)
      BY <1>5, <2>3 DEF CloseUpdate
    <3>2. CallsMatchLabels'
      BY <1>0, <1>5, <2>1, <3>1, GotoTypes, MoveMatches DEF CloseUpdate, TypeInv
    <3> QED
      BY <1>0, <1>5, <2>1, <2>2, <3>1, <3>2, GotoTypes
      DEF CloseUpdate, TypeInv, TypeOK
  <2>4. CASE ~Present(s)
    <3>1. Leave(p, "error")
      BY <1>5, <2>4 DEF CloseUpdate
    <3>2. CallsMatchLabels'
      BY <1>0, <1>5, <3>1, LeaveTypes, MoveMatches DEF CloseUpdate, TypeInv
    <3> QED
      BY <1>0, <1>5, <2>2, <3>1, <3>2, LeaveTypes DEF CloseUpdate, TypeInv, TypeOK
  <2> QED
    BY <2>3, <2>4
<1>6. CASE GuestCloseUpdate(p)
  <2> DEFINE s == call[p].s
             new == Close(rows[s], now, "GUEST_CLOSED")
             l == [local[p] EXCEPT !.again = TRUE]
  <2>1. pc[p] = "guestCloseUpdate" /\ s \in Sessions /\ new \in Row
    BY <1>6, RowOfCall, RowTypes DEF GuestCloseUpdate, TypeInv, TypeOK, Time
  <2>2. l \in Local
    BY DEF Local, TypeInv, TypeOK
  <2>3. CASE StillOpen(rows[s])
    <3>1. /\ rows' = [rows EXCEPT ![s] = new]
          /\ pc' = [pc EXCEPT ![p] = "find"]
          /\ local' = [local EXCEPT ![p] = l]
      BY <1>6, <2>3 DEF GuestCloseUpdate
    <3> HIDE DEF new, l
    <3>2. /\ pc'[p] = "find"
          /\ \A q \in Procs \ {p} : pc'[q] = pc[q] /\ local'[q] = local[q]
          /\ rows' \in [Sessions -> Row]
          /\ pc' \in [Procs -> Labels]
          /\ local' \in [Procs -> Local]
      BY <1>0, <2>1, <2>2, <3>1 DEF TypeInv, TypeOK
    <3>3. CallsMatchLabels'
      BY <1>0, <1>6, <2>1, <3>2, MoveMatches DEF GuestCloseUpdate
    <3> QED
      BY <1>6, <3>2, <3>3 DEF GuestCloseUpdate, TypeInv, TypeOK
  <2>4. CASE ~StillOpen(rows[s])
    <3>1. Leave(p, "conflict") /\ UNCHANGED rows
      BY <1>6, <2>4 DEF GuestCloseUpdate
    <3>2. CallsMatchLabels'
      BY <1>0, <1>6, <3>1, LeaveTypes, MoveMatches DEF GuestCloseUpdate, TypeInv
    <3> QED
      BY <1>0, <1>6, <3>1, <3>2, LeaveTypes DEF GuestCloseUpdate, TypeInv, TypeOK
  <2> QED
    BY <2>3, <2>4
<1>7. CASE AnnounceClosed(p)
  <2>1. /\ pc[p] = "announceClosed" /\ call[p].s \in Sessions
        /\ local[p].seen \in Row
    BY <1>7, RowOfCall DEF AnnounceClosed, TypeInv, TypeOK, Local
  <2>2. feed' \in [Sessions -> EventView]
    BY <1>7, <2>1, PublishTypes DEF AnnounceClosed
  <2>3. CASE call[p].op \in {"sweep", "list"}
    <3> DEFINE l == [local[p] EXCEPT !.seen = Blank.seen, !.again = FALSE]
    <3>1. l \in Local
      BY <2>1, FreshTypes DEF Local, Blank, TypeInv, TypeOK, Time
    <3>2. pc' = [pc EXCEPT ![p] = "sweep"] /\ local' = [local EXCEPT ![p] = l]
      BY <1>7, <2>3 DEF AnnounceClosed
    <3> HIDE DEF l
    <3>3. /\ pc'[p] = "sweep"
          /\ \A q \in Procs \ {p} : pc'[q] = pc[q] /\ local'[q] = local[q]
          /\ pc' \in [Procs -> Labels]
          /\ local' \in [Procs -> Local]
      BY <1>0, <3>1, <3>2 DEF TypeInv, TypeOK
    <3>4. CallsMatchLabels'
      BY <1>0, <1>7, <3>3, MoveMatches DEF AnnounceClosed
    <3> QED
      BY <1>7, <2>2, <3>3, <3>4 DEF AnnounceClosed, db, TypeInv, TypeOK
  <2>4. CASE call[p].op \notin {"sweep", "list"}
    <3>1. Leave(p, "ok")
      BY <1>7, <2>4 DEF AnnounceClosed
    <3>2. CallsMatchLabels'
      BY <1>0, <1>7, <3>1, LeaveTypes, MoveMatches DEF AnnounceClosed, TypeInv
    <3> QED
      BY <1>0, <1>7, <2>2, <3>1, <3>2, LeaveTypes
      DEF AnnounceClosed, db, TypeInv, TypeOK
  <2> QED
    BY <2>3, <2>4
<1> QED
  BY <1>1, <1>2, <1>3, <1>4, <1>5, <1>6, <1>7 DEF SessionStep

\* The steps of expireDueSessions keep the types.
LEMMA SweepStepTypes ==
    ASSUME TypeInv, NEW p \in Procs, SweepStep(p)
    PROVE  TypeInv'
<1> USE DEF NamesSession, Saving
<1>0. /\ {"sweep", "find", "idle", "ok"} \subseteq Labels
      /\ {"idle", "ok"} \subseteq Results \cup {"idle"}
  BY DEF Labels, Results
<1>1. CASE SweepSelect(p)
  <2> DEFINE l == [local[p] EXCEPT !.at = now, !.due = DueAt(now)]
  <2>1. l \in Local
    BY DEF Local, DueAt, TypeInv, TypeOK, Time
  <2>2. pc' = [pc EXCEPT ![p] = "sweep"] /\ local' = [local EXCEPT ![p] = l]
    BY <1>1 DEF SweepSelect
  <2> HIDE DEF l
  <2>3. /\ pc'[p] = "sweep"
        /\ \A q \in Procs \ {p} : pc'[q] = pc[q] /\ local'[q] = local[q]
        /\ pc' \in [Procs -> Labels]
        /\ local' \in [Procs -> Local]
    BY <1>0, <2>1, <2>2 DEF TypeInv, TypeOK
  <2>4. CallsMatchLabels'
    BY <1>0, <1>1, <2>3, MoveMatches DEF SweepSelect
  <2> QED
    BY <1>1, <2>3, <2>4 DEF SweepSelect, db, TypeInv, TypeOK
<1>2. CASE SweepExpires(p)
  <2>1. PICK s \in local[p].due :
          IF Lapsed(rows[s], local[p].at)
          THEN /\ rows' = [rows EXCEPT ![s] = Expire(rows[s], local[p].at)]
               /\ call' = [call EXCEPT ![p].s = s]
               /\ pc' = [pc EXCEPT ![p] = "find"]
               /\ local' = [local EXCEPT ![p].due = @ \ {s}, ![p].again = TRUE]
          ELSE /\ local' = [local EXCEPT ![p].due = @ \ {s}]
               /\ UNCHANGED <<rows, call, pc>>
    BY <1>2 DEF SweepExpires
  <2>2. s \in Sessions /\ local[p] \in Local /\ rows[s] \in Row /\ pc[p] = "sweep"
    BY <1>2 DEF SweepExpires, TypeInv, TypeOK, Local
  <2>3. CASE Lapsed(rows[s], local[p].at)
    <3> DEFINE new == Expire(rows[s], local[p].at)
               l == [local[p] EXCEPT !.due = @ \ {s}, !.again = TRUE]
               c == [call[p] EXCEPT !.s = s]
    <3>1. new \in Row
      BY <2>2, RowTypes DEF Local
    <3>2. l \in Local
      BY <2>2 DEF Local
    <3>3. c \in Call /\ c.s = s
      BY <2>2 DEF Call, TypeInv, TypeOK
    <3>4. /\ rows' = [rows EXCEPT ![s] = new]
          /\ call' = [call EXCEPT ![p] = c]
          /\ pc' = [pc EXCEPT ![p] = "find"]
          /\ local' = [local EXCEPT ![p] = l]
      BY <2>1, <2>3
    <3> HIDE DEF new, l, c
    <3>5. /\ rows' \in [Sessions -> Row]
          /\ call' \in [Procs -> Call]
          /\ pc' \in [Procs -> Labels]
          /\ local' \in [Procs -> Local]
      BY <1>0, <2>2, <3>1, <3>2, <3>3, <3>4 DEF TypeInv, TypeOK
    <3>6. CallsMatchLabels'
      BY <2>2, <3>3, <3>4 DEF TypeInv, TypeOK, CallsMatchLabels
    <3> QED
      BY <1>2, <3>5, <3>6 DEF SweepExpires, TypeInv, TypeOK
  <2>4. CASE ~Lapsed(rows[s], local[p].at)
    <3> DEFINE l == [local[p] EXCEPT !.due = @ \ {s}]
    <3>1. l \in Local
      BY <2>2 DEF Local
    <3>2. local' = [local EXCEPT ![p] = l] /\ UNCHANGED <<rows, call, pc>>
      BY <2>1, <2>4
    <3> HIDE DEF l
    <3>3. local' \in [Procs -> Local] /\ \A q \in Procs \ {p} : local'[q] = local[q]
      BY <3>1, <3>2 DEF TypeInv, TypeOK
    <3>4. CallsMatchLabels'
      BY <2>2, <3>2, <3>3 DEF TypeInv, CallsMatchLabels
    <3> QED
      BY <1>2, <3>2, <3>3, <3>4 DEF SweepExpires, TypeInv, TypeOK
  <2> QED
    BY <2>3, <2>4
<1>3. CASE SweepDone(p)
  <2> DEFINE result == IF p = Timer THEN "idle" ELSE "ok"
             c == [call[p] EXCEPT !.s = None]
  <2>1. result \in {"idle", "ok"}
    OBVIOUS
  <2>2. c \in Call
    BY DEF Call, TypeInv, TypeOK
  <2>3. Leave(p, result) /\ call' = [call EXCEPT ![p] = c]
    BY <1>3 DEF SweepDone
  <2> HIDE DEF result, c
  <2>4. call' \in [Procs -> Call]
    BY <2>2, <2>3 DEF TypeInv, TypeOK
  <2>5. CallsMatchLabels'
    BY <1>0, <2>1, <2>3, LeaveTypes DEF TypeInv, TypeOK, CallsMatchLabels
  <2> QED
    BY <1>0, <1>3, <2>1, <2>3, <2>4, <2>5, LeaveTypes
    DEF SweepDone, db, TypeInv, TypeOK
<1> QED
  BY <1>1, <1>2, <1>3 DEF SweepStep

\* A step that ends a save's handler, or passes it on, without touching data.
LEMMA SaveMoveTypes ==
    ASSUME TypeInv, NEW p \in Procs, pc[p] \in Saving,
           NEW label \in Labels \ {"txCommit", "idle"}, NEW row \in Row,
           label \in NamesSession => label \in Saving,
           Goto(p, label, row),
           UNCHANGED <<now, rows, messages, staff, rooms, crashes, call>>,
           lock' \in [Sessions -> Requests \cup {None}],
           feed' \in [Sessions -> EventView]
    PROVE  TypeInv'
<1>1. CallsMatchLabels'
  BY GotoTypes, MoveMatches DEF TypeInv, NamesSession, Saving
<1> QED
  BY <1>1, GotoTypes DEF TypeInv, TypeOK

\* Giving up row locks leaves the locks well typed.
LEMMA ReleaseTypes ==
    ASSUME TypeInv, NEW p \in Procs, Release(p)
    PROVE  lock' \in [Sessions -> Requests \cup {None}]
BY DEF Release, TypeInv, TypeOK

\* The steps of MessagesService.save keep the types.
LEMMA SaveStepTypes ==
    ASSUME TypeInv, NEW p \in Procs, SaveStep(p)
    PROVE  TypeInv'
<1> USE DEF NamesSession, Saving
<1> DEFINE c == call[p]
           row == rows[c.s]
<1>0. /\ {"saveExpire", "saveExpired", "txBegin", "txTimer", "txLatest",
          "txInsert", "reread", "announceTimer", "saveExisting", "txCommit"}
            \subseteq Labels
      /\ {"ok", "duplicate", "conflict", "refused", "error"}
            \subseteq Results \cap Labels
      /\ "idle" \notin Results
  BY DEF Labels, Results
<1>a. pc[p] \in Saving => /\ c.s \in Sessions /\ row \in Row
                          /\ local[p].seen \in Row
                          /\ local[p] \in Local
  BY RowOfCall DEF TypeInv, TypeOK, Local
<1>b. /\ lock \in [Sessions -> Requests \cup {None}]
      /\ feed \in [Sessions -> EventView]
      /\ now \in Nat
  BY DEF TypeInv, TypeOK
<1>1. CASE SaveRead(p)
  <2> DEFINE label == IF ~Present(c.s) THEN "refused"
                      ELSE IF Lapsed(row, now) THEN "saveExpire"
                      ELSE SaveJudges(c, row.status, row)
  <2>1. Goto(p, label, row) /\ pc[p] = "saveRead"
    BY <1>1 DEF SaveRead
  <2>2. label \in {"refused", "saveExpire", "txBegin", "txInsert", "conflict"}
    BY DEF SaveJudges
  <2> HIDE DEF label, row, c
  <2> QED
    BY <1>0, <1>a, <1>b, <1>1, <2>1, <2>2, SaveMoveTypes DEF SaveRead, db
<1>2. CASE SaveExpires(p)
  <2> DEFINE new == Expire(rows[c.s], now)
  <2>1. pc[p] = "saveExpire" /\ c.s \in Sessions /\ new \in Row
    BY <1>2, <1>a, <1>b, RowTypes DEF SaveExpires, Time
  <2>2. rows' \in [Sessions -> Row]
    BY <1>2, <2>1 DEF SaveExpires, TypeInv, TypeOK
  <2>3. CASE Present(c.s)
    <3>1. Goto(p, "saveExpired", new)
      BY <1>2, <2>3 DEF SaveExpires
    <3>2. CallsMatchLabels'
      BY <1>0, <1>2, <2>1, <3>1, GotoTypes, MoveMatches DEF SaveExpires, TypeInv
    <3> QED
      BY <1>0, <1>2, <2>1, <2>2, <3>1, <3>2, GotoTypes
      DEF SaveExpires, TypeInv, TypeOK
  <2>4. CASE ~Present(c.s)
    <3>1. Leave(p, "error")
      BY <1>2, <2>4 DEF SaveExpires
    <3>2. CallsMatchLabels'
      BY <1>0, <1>2, <3>1, LeaveTypes, MoveMatches DEF SaveExpires, TypeInv
    <3> QED
      BY <1>0, <1>2, <2>2, <3>1, <3>2, LeaveTypes DEF SaveExpires, TypeInv, TypeOK
  <2> QED
    BY <2>3, <2>4
<1>3. CASE SaveAnnouncesExpiry(p)
  <2> DEFINE result == IF IsSender(c.by, local[p].seen.agent)
                       THEN "conflict" ELSE "refused"
  <2>1. pc[p] = "saveExpired" /\ Leave(p, result)
    BY <1>3 DEF SaveAnnouncesExpiry
  <2>2. result \in {"conflict", "refused"}
    OBVIOUS
  <2>3. Goto(p, result, local[p].seen)
    BY <1>0, <2>1, <2>2 DEF Goto
  <2>4. feed' \in [Sessions -> EventView]
    BY <1>3, <1>a, <2>1, PublishTypes DEF SaveAnnouncesExpiry
  <2> HIDE DEF result
  <2> QED
    BY <1>0, <1>3, <1>a, <1>b, <2>1, <2>2, <2>3, <2>4, SaveMoveTypes
    DEF SaveAnnouncesExpiry, db
<1>4. CASE TxBegin(p)
  <2> DEFINE l == [local[p] EXCEPT !.at = now]
  <2>1. l \in Local
    BY <1>4, <1>a, <1>b DEF TxBegin, Local, Time
  <2>2. pc' = [pc EXCEPT ![p] = "txTimer"] /\ local' = [local EXCEPT ![p] = l]
    BY <1>4 DEF TxBegin
  <2> HIDE DEF l
  <2>3. /\ pc'[p] = "txTimer"
        /\ \A q \in Procs \ {p} : pc'[q] = pc[q] /\ local'[q] = local[q]
        /\ pc' \in [Procs -> Labels]
        /\ local' \in [Procs -> Local]
    BY <1>0, <2>1, <2>2 DEF TypeInv, TypeOK
  <2>4. CallsMatchLabels'
    BY <1>0, <1>4, <2>3, MoveMatches DEF TxBegin
  <2> QED
    BY <1>4, <2>3, <2>4 DEF TxBegin, db, TypeInv, TypeOK
<1>5. CASE TxTimer(p)
  <2>1. pc[p] = "txTimer" /\ p \in Requests
    BY <1>5 DEF TxTimer, TypeInv, CallsMatchLabels
  <2>2. lock' \in [Sessions -> Requests \cup {None}]
    BY <1>5, <1>a, <2>1 DEF TxTimer, TypeInv, TypeOK
  <2>3. CASE Leave(p, "conflict")
    <3>1. Goto(p, "conflict", local[p].seen)
      BY <1>0, <2>3 DEF Goto
    <3> QED
      BY <1>0, <1>5, <1>a, <1>b, <2>1, <2>2, <3>1, SaveMoveTypes DEF TxTimer
  <2>4. CASE /\ \/ pc' = [pc EXCEPT ![p] = "txInsert"]
                \/ pc' = [pc EXCEPT ![p] = "txLatest"]
             /\ UNCHANGED local
    <3>1. /\ pc'[p] \in {"txInsert", "txLatest"}
          /\ \A q \in Procs \ {p} : pc'[q] = pc[q] /\ local'[q] = local[q]
          /\ pc' \in [Procs -> Labels]
      BY <1>0, <2>4 DEF TypeInv, TypeOK
    <3>2. CallsMatchLabels'
      BY <1>0, <1>5, <2>1, <3>1, MoveMatches DEF TxTimer
    <3> QED
      BY <1>5, <2>2, <2>4, <3>1, <3>2 DEF TxTimer, TypeInv, TypeOK
  <2> QED
    BY <1>5, <2>3, <2>4 DEF TxTimer
<1>6. CASE TxLatest(p)
  <2> DEFINE label == IF ~Present(c.s) \/ ~IsSender(c.by, row.agent) THEN "refused"
                      ELSE IF IsSessionWritable(row.status, row.expiresAt, c.by, now)
                      THEN "txInsert" ELSE "conflict"
  <2>1. Goto(p, label, local[p].seen) /\ pc[p] = "txLatest"
    BY <1>6 DEF TxLatest
  <2>2. label \in {"refused", "txInsert", "conflict"}
    OBVIOUS
  <2> HIDE DEF label, row, c
  <2> QED
    BY <1>0, <1>a, <1>b, <1>6, <2>1, <2>2, SaveMoveTypes DEF TxLatest, db
<1>7. CASE TxInsert(p)
  <2>1. pc[p] = "txInsert"
    BY <1>7 DEF TxInsert
  <2>2. CASE Present(c.s) /\ KeyIsFree(c.s, c.key)
    <3> DEFINE l == [local[p] EXCEPT !.born = now]
    <3>1. l \in Local /\ l.born = now
      BY <1>a, <1>b, <2>1 DEF Local, Time
    <3>2. /\ pc' = [pc EXCEPT ![p] = "txCommit"]
          /\ local' = [local EXCEPT ![p] = l]
          /\ UNCHANGED lock
      BY <1>7, <2>2 DEF TxInsert
    <3> HIDE DEF l
    <3>3. /\ pc'[p] = "txCommit" /\ local'[p].born \in Nat
          /\ \A q \in Procs \ {p} : pc'[q] = pc[q] /\ local'[q] = local[q]
          /\ pc' \in [Procs -> Labels]
          /\ local' \in [Procs -> Local]
      BY <1>0, <1>b, <3>1, <3>2 DEF TypeInv, TypeOK
    <3>4. CallsMatchLabels'
      BY <1>0, <1>7, <2>1, <3>3, MoveMatches DEF TxInsert
    <3> QED
      BY <1>7, <3>2, <3>3, <3>4 DEF TxInsert, TypeInv, TypeOK
  <2>3. CASE ~(Present(c.s) /\ KeyIsFree(c.s, c.key))
    <3> DEFINE label == IF Present(c.s) THEN "saveExisting" ELSE "error"
    <3>1. Goto(p, label, local[p].seen) /\ Release(p)
      BY <1>7, <2>3 DEF TxInsert
    <3>2. label \in {"saveExisting", "error"}
      OBVIOUS
    <3> HIDE DEF label
    <3> QED
      BY <1>0, <1>7, <1>a, <1>b, <2>1, <3>1, <3>2, ReleaseTypes, SaveMoveTypes
      DEF TxInsert
  <2> QED
    BY <2>2, <2>3
<1>8. CASE TxCommit(p)
  <2> DEFINE l == local[p]
             touched == Touched(row, l.born)
             new == IF HoldsLock(p) THEN Started(touched, l.at) ELSE touched
             m == [id |-> p, s |-> c.s, key |-> c.key, by |-> c.by, at |-> l.born]
             label == IF HoldsLock(p) THEN "reread" ELSE "ok"
  <2>1. /\ pc[p] = "txCommit" /\ p \in Requests /\ c.s \in Sessions
        /\ c.by \in Agents \cup {Guest} /\ c.key \in Keys /\ l.born \in Nat
        /\ l \in Local /\ row \in Row
    BY <1>8, <1>a DEF TxCommit, TypeInv, CallsMatchLabels
  <2>2. l.at \in Time /\ l.at + D \in Time
    BY <2>1, ConstantsAssumption DEF Local, Time, NoTime
  <2>3. new \in Row
    BY <2>1, <2>2 DEF Row, Time, Touched, Started
  <2>4. m \in Message
    BY <2>1 DEF Message
  <2>5. /\ rows' = [rows EXCEPT ![c.s] = new]
        /\ messages' = messages \cup {m}
        /\ Goto(p, label, l.seen)
        /\ Release(p)
    BY <1>8 DEF TxCommit
  <2>6. label \in {"reread", "ok"} /\ l.seen \in Row
    BY <2>1 DEF Local
  <2> HIDE DEF new, touched, m, label
  <2>7. rows' \in [Sessions -> Row] /\ messages' \subseteq Message
    BY <2>1, <2>3, <2>4, <2>5 DEF TypeInv, TypeOK
  <2>8. CallsMatchLabels'
    BY <1>0, <1>8, <2>1, <2>5, <2>6, GotoTypes, MoveMatches DEF TxCommit, TypeInv
  <2> QED
    BY <1>0, <1>8, <2>1, <2>5, <2>6, <2>7, <2>8, GotoTypes, ReleaseTypes
    DEF TxCommit, TypeInv, TypeOK
<1>9. CASE Reread(p)
  <2> DEFINE label == IF Present(c.s) THEN "announceTimer" ELSE "ok"
  <2>1. Goto(p, label, row) /\ pc[p] = "reread"
    BY <1>9 DEF Reread
  <2>2. label \in {"announceTimer", "ok"}
    OBVIOUS
  <2> HIDE DEF label, row, c
  <2> QED
    BY <1>0, <1>a, <1>b, <1>9, <2>1, <2>2, SaveMoveTypes DEF Reread, db
<1>10. CASE AnnounceTimer(p)
  <2>1. pc[p] = "announceTimer" /\ Goto(p, "ok", local[p].seen)
    BY <1>0, <1>10 DEF AnnounceTimer, Goto
  <2>2. feed' \in [Sessions -> EventView]
    BY <1>10, <1>a, <2>1, PublishTypes DEF AnnounceTimer
  <2> QED
    BY <1>0, <1>10, <1>a, <1>b, <2>1, <2>2, SaveMoveTypes DEF AnnounceTimer, db
<1>11. CASE SaveExisting(p)
  <2> DEFINE result == IF StoredAs(c.s, c.key) # {} THEN "duplicate" ELSE "error"
  <2>1. result \in {"duplicate", "error"}
    OBVIOUS
  <2>2. pc[p] = "saveExisting" /\ Goto(p, result, local[p].seen)
    BY <1>0, <1>11, <2>1 DEF SaveExisting, Goto
  <2> HIDE DEF result
  <2> QED
    BY <1>0, <1>11, <1>a, <1>b, <2>1, <2>2, SaveMoveTypes DEF SaveExisting, db
<1> QED
  BY <1>1, <1>2, <1>3, <1>4, <1>5, <1>6, <1>7, <1>8, <1>9, <1>10, <1>11
  DEF SaveStep

\* A received call is well typed and names what its first label needs.
LEMMA ReceivesTypes ==
    ASSUME TypeInv, NEW p \in Requests, Receives(p)
    PROVE  TypeInv'
<1> USE DEF NamesSession, Saving
<1>0. p \in Procs /\ {"createCheck", "find", "sweepSelect", "saveRead"} \subseteq Labels
  BY DEF Procs, Labels
<1>1. ASSUME NEW c \in Call, NEW label \in Labels \ {"txCommit"},
             Receive(p, c, label),
             label \in NamesSession => c.s \in Sessions,
             label \in Saving => c.by \in Agents \cup {Guest} /\ c.key \in Keys
      PROVE  TypeInv'
  <2>1. /\ pc' \in [Procs -> Labels] /\ call' \in [Procs -> Call]
        /\ pc'[p] = label /\ call'[p] = c
        /\ \A q \in Procs \ {p} : pc'[q] = pc[q] /\ call'[q] = call[q]
    BY <1>0, <1>1 DEF Receive, TypeInv, TypeOK
  <2>2. CallsMatchLabels'
    BY <1>1, <2>1 DEF Receive, TypeInv, CallsMatchLabels
  <2> QED
    BY <1>1, <2>1, <2>2 DEF Receive, db, TypeInv, TypeOK
<1>2. CASE \E room \in Rooms : ReceiveCreate(p, room)
  <2>1. PICK room \in Rooms : ReceiveCreate(p, room)
    BY <1>2
  <2>2. [NoCall EXCEPT !.op = "create", !.room = room] \in Call
    BY DEF NoCall, Call, AllOps
  <2> QED
    BY <1>0, <1>1, <2>1, <2>2 DEF ReceiveCreate
<1>3. CASE \E op \in {"read", "open", "close", "closeByGuest"}, s \in Sessions,
              by \in Agents \cup {Admin, Guest} : ReceiveFind(p, op, s, by)
  <2>1. PICK op \in {"read", "open", "close", "closeByGuest"}, s \in Sessions,
             by \in Agents \cup {Admin, Guest} : ReceiveFind(p, op, s, by)
    BY <1>3
  <2> DEFINE c == [NoCall EXCEPT !.op = op, !.s = s, !.by = by]
  <2>2. c \in Call /\ c.s = s
    BY DEF NoCall, Call, AllOps
  <2>3. Receive(p, c, "find")
    BY <2>1 DEF ReceiveFind
  <2> HIDE DEF c
  <2> QED
    BY <1>0, <1>1, <2>2, <2>3
<1>4. CASE ReceiveList(p)
  <2>1. [NoCall EXCEPT !.op = "list"] \in Call
    BY DEF NoCall, Call, AllOps
  <2> QED
    BY <1>0, <1>1, <1>4, <2>1 DEF ReceiveList
<1>5. CASE \E s \in Sessions, by \in Agents \cup {Guest}, key \in Keys :
              ReceiveSave(p, s, by, key)
  <2>1. PICK s \in Sessions, by \in Agents \cup {Guest}, key \in Keys :
          ReceiveSave(p, s, by, key)
    BY <1>5
  <2> DEFINE c == [NoCall EXCEPT !.op = "save", !.s = s, !.by = by, !.key = key]
  <2>2. c \in Call /\ c.s = s /\ c.by = by /\ c.key = key
    BY DEF NoCall, Call, AllOps
  <2>3. Receive(p, c, "saveRead")
    BY <2>1 DEF ReceiveSave
  <2> HIDE DEF c
  <2> QED
    BY <1>0, <1>1, <2>2, <2>3
<1> QED
  BY <1>2, <1>3, <1>4, <1>5 DEF Receives

\* Deleting sessions with their messages leaves both tables well typed.
LEMMA DeleteTypes ==
    ASSUME TypeInv, NEW gone, DeleteSessions(gone)
    PROVE  rows' \in [Sessions -> Row] /\ messages' \subseteq Message
BY FreshTypes DEF DeleteSessions, TypeInv, TypeOK

\* A server that stops leaves nothing running and no lock.
LEMMA StopTypes ==
    ASSUME TypeInv, Stop, crashes' \in Nat
    PROVE  TypeInv'
<1>1. pc' \in [Procs -> Labels] /\ local' \in [Procs -> Local]
  BY FreshTypes DEF Stop, TypeInv, TypeOK, Labels, Results
<1>2. call' \in [Procs -> Call]
  <2>1. [call[Timer] EXCEPT !.s = None] \in Call
    BY DEF TypeInv, TypeOK, Call, Procs
  <2> QED
    BY <2>1 DEF Stop, TypeInv, TypeOK, Procs
<1>3. lock' \in [Sessions -> Requests \cup {None}]
  BY DEF Stop
<1>4. CallsMatchLabels'
  <2>1. \A p \in Procs : pc'[p] \in Results \cup {"idle"}
    BY DEF Stop, Results
  <2>2. (Results \cup {"idle"}) \cap (NamesSession \cup Saving) = {}
        /\ "txCommit" \notin Results \cup {"idle"}
    BY DEF NamesSession, Saving, Results
  <2> QED
    BY <2>1, <2>2 DEF CallsMatchLabels
<1> QED
  BY <1>1, <1>2, <1>3, <1>4 DEF Stop, TypeInv, TypeOK

\* Deletions, restarts and the clock keep the types.
LEMMA EnvironmentTypes ==
    ASSUME TypeInv, Environment \/ Tick \/ TimerRejects
    PROVE  TypeInv'
<1>1. ASSUME NEW room \in Rooms, DeleteRoom(room)
      PROVE  TypeInv'
  BY <1>1, DeleteTypes DEF DeleteRoom, TypeInv, TypeOK, CallsMatchLabels
<1>2. ASSUME NEW a \in Agents, DeleteAgent(a)
      PROVE  TypeInv'
  <2>1. \A s \in Sessions : [rows[s] EXCEPT !.agent = None] \in Row
    BY DEF TypeInv, TypeOK, Row
  <2>2. rows' \in [Sessions -> Row]
    BY <1>2, <2>1 DEF DeleteAgent, TypeInv, TypeOK
  <2> QED
    BY <1>2, <2>2 DEF DeleteAgent, TypeInv, TypeOK, CallsMatchLabels
<1>3. CASE DeleteExpiredHistory
  BY <1>3, DeleteTypes DEF DeleteExpiredHistory, TypeInv, TypeOK, CallsMatchLabels
<1>4. CASE Crash
  BY <1>4, StopTypes DEF Crash, TypeInv, TypeOK
<1>5. CASE Tick
  BY <1>5 DEF Tick, db, TypeInv, TypeOK, CallsMatchLabels
<1>6. CASE TimerRejects
  BY <1>6, StopTypes DEF TimerRejects, TypeInv, TypeOK
<1> QED
  BY <1>1, <1>2, <1>3, <1>4, <1>5, <1>6 DEF Environment

\* TypeInv is inductive.
LEMMA StepTypes == TypeInv /\ [Next]_vars => TypeInv'
<1> SUFFICES ASSUME TypeInv, [Next]_vars PROVE TypeInv'
  OBVIOUS
<1>1. ASSUME NEW p \in Procs, Step(p)
      PROVE  TypeInv'
  BY <1>1, FindStepTypes, SessionStepTypes, SweepStepTypes, SaveStepTypes DEF Step
<1>2. ASSUME NEW p \in Requests, Receives(p)
      PROVE  TypeInv'
  BY <1>2, ReceivesTypes
<1>3. CASE Environment \/ Tick \/ TimerRejects
  BY <1>3, EnvironmentTypes
<1>4. CASE UNCHANGED vars
  BY <1>4 DEF vars, TypeInv, TypeOK, CallsMatchLabels
<1> QED
  BY <1>1, <1>2, <1>3, <1>4 DEF Next, Rest

\* Type correctness: the variables of the server always hold values of their
\* types, and a handler at a label works on a call that can have led there.
THEOREM TypeCorrect == Spec => []TypeInv
<1>1. Init => TypeInv
  BY InitTypes
<1>2. TypeInv /\ [Next]_vars => TypeInv'
  BY StepTypes
<1> QED
  BY <1>1, <1>2, PTL DEF Spec

\* The type invariant the runs check, for every value of the constants.
THEOREM TypesHold == Spec => []TypeOK
<1>1. TypeInv => TypeOK
  BY DEF TypeInv
<1> QED
  BY <1>1, TypeCorrect, PTL

-----------------------------------------------------------------------------
(* Rows: a room never has two open consultations, and an ended one stays    *)
(* ended.                                                                   *)

\* A statement other than create's insert opens nothing and moves nothing to
\* another room.
KeptOpen(before, after) ==
    after.status \in Open => before.status \in Open /\ after.room = before.room

Kept(before, after) == LifecycleStep(before, after) /\ KeptOpen(before, after)

\* A row that is not written is kept.
LEMMA SameIsKept ==
    ASSUME NEW row
    PROVE  Kept(row, row)
BY DEF Kept, KeptOpen, LifecycleStep, Open, Terminal

\* Writing one row keeps the others.
LEMMA WriteKeeps ==
    ASSUME TypeInv, NEW s \in Sessions, NEW row, Kept(rows[s], row),
           rows' = [rows EXCEPT ![s] = row]
    PROVE  \A t \in Sessions : Kept(rows[t], rows'[t])
<1> TAKE t \in Sessions
<1>1. CASE t = s
  BY <1>1 DEF TypeInv, TypeOK
<1>2. CASE t # s
  BY <1>2, SameIsKept DEF TypeInv, TypeOK
<1> QED
  BY <1>1, <1>2

\* The end of a row, by expiry or by a close, keeps it.
LEMMA EndIsKept ==
    ASSUME TypeInv, NEW s \in Sessions, NEW t, NEW reason
    PROVE  /\ Kept(rows[s], Expire(rows[s], t))
           /\ Kept(rows[s], Close(rows[s], t, reason))
<1>1. rows[s] \in Row
  BY DEF TypeInv, TypeOK
<1>2. /\ Expire(rows[s], t).status = "EXPIRED"
      /\ Expire(rows[s], t).agent = rows[s].agent
      /\ Close(rows[s], t, reason).status = "CLOSED"
      /\ Close(rows[s], t, reason).agent = rows[s].agent
  BY <1>1 DEF Expire, Close, Row
<1> QED
  BY <1>2 DEF Kept, KeptOpen, LifecycleStep, Open, Terminal

\* Cascading deletes keep every row they leave.
LEMMA DeleteKeeps ==
    ASSUME TypeInv, NEW gone, DeleteSessions(gone)
    PROVE  \A s \in Sessions : Kept(rows[s], rows'[s])
<1> TAKE s \in Sessions
<1>1. CASE s \in gone
  <2>1. rows'[s] = AbsentRow("DELETED")
    BY <1>1 DEF DeleteSessions
  <2>2. rows'[s].status = "DELETED" /\ rows'[s].agent = None
    BY <2>1 DEF AbsentRow
  <2> QED
    BY <2>2 DEF Kept, KeptOpen, LifecycleStep, Open, Terminal
<1>2. CASE s \notin gone
  BY <1>2, SameIsKept DEF DeleteSessions
<1> QED
  BY <1>1, <1>2

-----------------------------------------------------------------------------

\* The statements of findOrThrow and expireDueSessions end rows or keep them.
LEMMA FindAndSweepKeep ==
    ASSUME TypeInv, NEW p \in Procs, FindStep(p) \/ SweepStep(p)
    PROVE  \A s \in Sessions : Kept(rows[s], rows'[s])
<1>1. CASE UNCHANGED rows
  BY <1>1, SameIsKept
<1>2. CASE FindExpires(p)
  <2>1. call[p].s \in Sessions
    BY <1>2 DEF FindExpires, TypeInv, CallsMatchLabels, NamesSession
  <2>2. CASE Present(call[p].s)
    <3>1. rows' = [rows EXCEPT ![call[p].s] = Expire(rows[call[p].s], now)]
      BY <1>2, <2>2 DEF FindExpires
    <3> QED
      BY <2>1, <3>1, EndIsKept, WriteKeeps
  <2>3. CASE ~Present(call[p].s)
    BY <1>1, <1>2, <2>3 DEF FindExpires
  <2> QED
    BY <2>2, <2>3
<1>3. CASE SweepExpires(p)
  <2>1. PICK s \in local[p].due :
          \/ rows' = [rows EXCEPT ![s] = Expire(rows[s], local[p].at)]
          \/ UNCHANGED rows
    BY <1>3 DEF SweepExpires
  <2>2. s \in Sessions
    BY <2>1 DEF TypeInv, TypeOK, Local
  <2> QED
    BY <1>1, <2>1, <2>2, EndIsKept, WriteKeeps
<1> QED
  BY <1>1, <1>2, <1>3 DEF FindStep, SweepStep, Find, FindNothing,
     AnnounceExpired, SweepSelect, SweepDone, db

\* open's and closeByGuest's conditional updates keep rows, and close's update
\* by id does.
LEMMA SessionStepsKeep ==
    ASSUME TypeInv, NEW p \in Procs, SessionStep(p), ~CreateInsert(p)
    PROVE  \A s \in Sessions : Kept(rows[s], rows'[s])
<1>1. CASE UNCHANGED rows
  BY <1>1, SameIsKept
<1>2. CASE OpenUpdate(p)
  <2> DEFINE s == call[p].s
  <2>1. s \in Sessions
    BY <1>2 DEF OpenUpdate, TypeInv, CallsMatchLabels, NamesSession
  <2>2. CASE ~UNCHANGED rows
    <3> DEFINE row == Assign(rows[s], call[p].by)
    <3>1. /\ rows[s].status = "WAITING"
          /\ rows[s].agent = None
          /\ rows' = [rows EXCEPT ![s] = row]
      BY <1>2, <2>2 DEF OpenUpdate, Unopened
    <3>2. /\ row.status = "ACTIVE"
          /\ row.room = rows[s].room
      BY <2>1 DEF TypeInv, TypeOK, Row, Assign
    <3>3. Kept(rows[s], row)
      BY <3>1, <3>2 DEF Kept, KeptOpen, LifecycleStep, Open, Terminal
    <3> HIDE DEF row, s
    <3> QED
      BY <2>1, <3>1, <3>3, WriteKeeps
  <2> QED
    BY <1>1, <2>2
<1>3. CASE CloseUpdate(p)
  <2>1. call[p].s \in Sessions
    BY <1>3 DEF CloseUpdate, TypeInv, CallsMatchLabels, NamesSession
  <2>2. \/ UNCHANGED rows
        \/ rows' = [rows EXCEPT ![call[p].s] =
                      Close(rows[call[p].s], now, "AGENT_CLOSED")]
    BY <1>3 DEF CloseUpdate
  <2> QED
    BY <1>1, <2>1, <2>2, EndIsKept, WriteKeeps
<1>4. CASE GuestCloseUpdate(p)
  <2>1. call[p].s \in Sessions
    BY <1>4 DEF GuestCloseUpdate, TypeInv, CallsMatchLabels, NamesSession
  <2>2. \/ UNCHANGED rows
        \/ rows' = [rows EXCEPT ![call[p].s] =
                      Close(rows[call[p].s], now, "GUEST_CLOSED")]
    BY <1>4 DEF GuestCloseUpdate
  <2> QED
    BY <1>1, <2>1, <2>2, EndIsKept, WriteKeeps
<1> QED
  BY <1>1, <1>2, <1>3, <1>4 DEF SessionStep, CreateCheck, AnnounceOpened,
     AnnounceClosed, db

\* A message's transaction starts timers and sets times; the expiry of a late
\* message ends the row.
LEMMA SaveStepsKeep ==
    ASSUME TypeInv, NEW p \in Procs, SaveStep(p)
    PROVE  \A s \in Sessions : Kept(rows[s], rows'[s])
<1>1. CASE UNCHANGED rows
  BY <1>1, SameIsKept
<1>2. CASE SaveExpires(p)
  <2>1. call[p].s \in Sessions
    BY <1>2 DEF SaveExpires, TypeInv, CallsMatchLabels, NamesSession
  <2>2. \/ UNCHANGED rows
        \/ rows' = [rows EXCEPT ![call[p].s] = Expire(rows[call[p].s], now)]
    BY <1>2 DEF SaveExpires
  <2> QED
    BY <1>1, <2>1, <2>2, EndIsKept, WriteKeeps
<1>3. CASE TxCommit(p)
  <2> DEFINE s == call[p].s
             row == IF HoldsLock(p)
                    THEN [rows[s] EXCEPT !.lastActivityAt = local[p].born,
                                         !.startedAt = local[p].at,
                                         !.expiresAt = local[p].at + D]
                    ELSE [rows[s] EXCEPT !.lastActivityAt = local[p].born]
  <2>1. s \in Sessions
    BY <1>3 DEF TxCommit, TypeInv, CallsMatchLabels, NamesSession
  <2>2. rows' = [rows EXCEPT ![s] = row]
    BY <1>3 DEF TxCommit, Touched, Started
  <2>3. rows[s] \in Row
    BY <2>1 DEF TypeInv, TypeOK
  <2>4. row.status = rows[s].status /\ row.agent = rows[s].agent
          /\ row.room = rows[s].room
    BY <2>3 DEF Row
  <2>5. Kept(rows[s], row)
    BY <2>4 DEF Kept, KeptOpen, LifecycleStep, Open, Terminal
  <2> HIDE DEF s, row
  <2> QED
    BY <2>1, <2>2, <2>5, WriteKeeps
<1> QED
  BY <1>1, <1>2, <1>3 DEF SaveStep, SaveRead, SaveAnnouncesExpiry, TxBegin,
     TxTimer, TxLatest, TxInsert, Reread, AnnounceTimer, SaveExisting, db

\* Deletions keep rows; calls, the clock and restarts do not touch them.
LEMMA OthersKeep ==
    ASSUME TypeInv,
           \/ \E p \in Requests : Receives(p)
           \/ Environment \/ Tick \/ TimerRejects \/ UNCHANGED vars
    PROVE  \A s \in Sessions : Kept(rows[s], rows'[s])
<1>1. CASE UNCHANGED rows
  BY <1>1, SameIsKept
<1>2. ASSUME NEW p \in Requests, Receives(p)
      PROVE  UNCHANGED rows
  BY <1>2 DEF Receives, ReceiveCreate, ReceiveFind, ReceiveList, ReceiveSave,
     Receive, db
<1>3. ASSUME NEW room \in Rooms, DeleteRoom(room)
      PROVE  \A s \in Sessions : Kept(rows[s], rows'[s])
  BY <1>3, DeleteKeeps DEF DeleteRoom
<1>4. ASSUME NEW a \in Agents, DeleteAgent(a)
      PROVE  \A s \in Sessions : Kept(rows[s], rows'[s])
  <2> TAKE s \in Sessions
  <2>1. CASE rows[s].agent = a
    <3>1. rows'[s] = [rows[s] EXCEPT !.agent = None]
      BY <1>4, <2>1 DEF DeleteAgent
    <3>2. rows'[s].status = rows[s].status /\ rows'[s].agent = None
            /\ rows'[s].room = rows[s].room
      BY <3>1 DEF TypeInv, TypeOK, Row
    <3> QED
      BY <3>2 DEF Kept, KeptOpen, LifecycleStep, Open, Terminal
  <2>2. CASE rows[s].agent # a
    BY <1>4, <2>2, SameIsKept DEF DeleteAgent
  <2> QED
    BY <2>1, <2>2
<1>5. CASE DeleteExpiredHistory
  BY <1>5, DeleteKeeps DEF DeleteExpiredHistory
<1>6. CASE Crash \/ Tick \/ TimerRejects \/ UNCHANGED vars
  BY <1>1, <1>6 DEF Crash, Tick, TimerRejects, Stop, vars, db
<1> QED
  BY <1>1, <1>2, <1>3, <1>4, <1>5, <1>6 DEF Environment

\* create's insert makes a WAITING row of a room that has no open one.
LEMMA CreateOpensOne ==
    ASSUME TypeInv, NEW p \in Procs, CreateInsert(p), ~UNCHANGED rows
    PROVE  \E s \in Sessions :
             /\ rows[s].status = "UNUSED"
             /\ rows'[s].agent = None
             /\ OpenIn(rows'[s].room) = {}
             /\ \A t \in Sessions \ {s} : rows'[t] = rows[t]
<1>1. PICK s \in Sessions :
        /\ rows[s].status = "UNUSED"
        /\ rows' = [rows EXCEPT ![s] = NewRow(call[p].room, now)]
        /\ OpenIn(call[p].room) = {}
  BY DEF CreateInsert, RoomIsFree
<1>2. rows'[s] = NewRow(call[p].room, now)
  BY <1>1 DEF TypeInv, TypeOK
<1>3. rows'[s].agent = None /\ rows'[s].room = call[p].room
  BY <1>2 DEF NewRow, AbsentRow
<1>4. \A t \in Sessions \ {s} : rows'[t] = rows[t]
  BY <1>1 DEF TypeInv, TypeOK
<1> QED
  BY <1>1, <1>3, <1>4

\* Every step keeps every row, or is create's insert.
LEMMA StepKeeps ==
    ASSUME TypeInv, [Next]_vars
    PROVE  \/ \A s \in Sessions : Kept(rows[s], rows'[s])
           \/ \E p \in Procs : CreateInsert(p) /\ ~UNCHANGED rows
<1>1. CASE UNCHANGED rows
  BY <1>1, SameIsKept
<1>2. ASSUME NEW p \in Procs, Step(p), ~CreateInsert(p)
      PROVE  \A s \in Sessions : Kept(rows[s], rows'[s])
  BY <1>2, FindAndSweepKeep, SessionStepsKeep, SaveStepsKeep DEF Step
<1>3. CASE \/ \E p \in Requests : Receives(p)
           \/ Environment \/ Tick \/ TimerRejects \/ UNCHANGED vars
  BY <1>3, OthersKeep
<1> QED
  BY <1>1, <1>2, <1>3 DEF Next, Rest

-----------------------------------------------------------------------------

\* Init: the sessions that exist were created in different rooms.
LEMMA InitOneOpen == Init => OneOpenSessionPerRoom
<1> SUFFICES ASSUME Init, NEW s \in Sessions, NEW t \in Sessions,
                    rows[s].status \in Open, rows[t].status \in Open,
                    rows[s].room = rows[t].room
             PROVE  s = t
  BY DEF OneOpenSessionPerRoom
<1>1. PICK room \in Injection(Prior, Rooms), agent \in [Opened -> Agents] :
          rows = [x \in Sessions |->
            CASE x \in Opened -> [NewRow(room[x], 0) EXCEPT !.status = "ACTIVE",
                                                           !.agent = agent[x]]
              [] x \in Prior \ Opened -> NewRow(room[x], 0)
              [] OTHER -> AbsentRow("UNUSED")]
  BY DEF Init
<1>2. \A x \in Sessions : rows[x].status \in Open =>
          x \in Prior /\ rows[x].room = room[x]
  <2> SUFFICES ASSUME NEW x \in Sessions, rows[x].status \in Open
               PROVE  x \in Prior /\ rows[x].room = room[x]
    OBVIOUS
  <2>1. CASE x \in Opened
    <3>1. rows[x] = [NewRow(room[x], 0) EXCEPT !.status = "ACTIVE",
                                               !.agent = agent[x]]
      BY <1>1, <2>1
    <3> QED
      BY <2>1, <3>1, ConstantsAssumption DEF NewRow, AbsentRow
  <2>2. CASE x \in Prior \ Opened
    <3>1. rows[x] = NewRow(room[x], 0)
      BY <1>1, <2>2
    <3> QED
      BY <2>2, <3>1 DEF NewRow, AbsentRow
  <2>3. CASE x \notin Opened /\ x \notin Prior \ Opened
    <3>1. rows[x] = AbsentRow("UNUSED")
      BY <1>1, <2>3
    <3> QED
      BY <3>1 DEF AbsentRow, Open
  <2> QED
    BY <2>1, <2>2, <2>3
<1>3. \A x, y \in Prior : room[x] = room[y] => x = y
  BY <1>1 DEF Injection, IsInjective
<1> QED
  BY <1>2, <1>3

\* A room never has two open consultations: create's insert is the only
\* statement that opens one, and the index refuses it while another is open.
THEOREM OneOpenHolds == Spec => []OneOpenSessionPerRoom
<1>1. Init => OneOpenSessionPerRoom
  BY InitOneOpen
<1>2. TypeInv /\ OneOpenSessionPerRoom /\ [Next]_vars => OneOpenSessionPerRoom'
  <2> SUFFICES ASSUME TypeInv, OneOpenSessionPerRoom, [Next]_vars,
                      NEW s \in Sessions, NEW t \in Sessions,
                      rows'[s].status \in Open, rows'[t].status \in Open,
                      rows'[s].room = rows'[t].room
               PROVE  s = t
    BY DEF OneOpenSessionPerRoom
  <2>1. CASE \A x \in Sessions : Kept(rows[x], rows'[x])
    BY <2>1 DEF Kept, KeptOpen, OneOpenSessionPerRoom
  <2>2. CASE \E p \in Procs : CreateInsert(p) /\ ~UNCHANGED rows
    <3>1. PICK x \in Sessions :
            /\ OpenIn(rows'[x].room) = {}
            /\ \A y \in Sessions \ {x} : rows'[y] = rows[y]
      BY <2>2, CreateOpensOne
    <3>2. \A y \in Sessions \ {x} :
            rows'[y].status \in Open => rows'[y].room # rows'[x].room
      BY <3>1 DEF OpenIn
    <3>3. CASE s = x \/ t = x
      BY <3>2, <3>3
    <3>4. CASE s # x /\ t # x
      BY <3>1, <3>4 DEF OneOpenSessionPerRoom
    <3> QED
      BY <3>3, <3>4
  <2> QED
    BY <2>1, <2>2, StepKeeps
<1> QED
  BY <1>1, <1>2, TypeCorrect, PTL DEF Spec

\* An ended session stays ended and an active one never waits again; it changes
\* hands only by open's conditional update or the deletion of its agent.
THEOREM NeverReopensHolds == Spec => NeverReopens
<1>1. TypeInv /\ [Next]_vars =>
        [\A s \in Sessions : LifecycleStep(rows[s], rows'[s])]_vars
  <2> SUFFICES ASSUME TypeInv, [Next]_vars, NEW s \in Sessions
               PROVE  LifecycleStep(rows[s], rows'[s])
    OBVIOUS
  <2>1. CASE \A x \in Sessions : Kept(rows[x], rows'[x])
    BY <2>1 DEF Kept
  <2>2. CASE \E p \in Procs : CreateInsert(p) /\ ~UNCHANGED rows
    <3>1. PICK x \in Sessions :
            /\ rows[x].status = "UNUSED"
            /\ rows'[x].agent = None
            /\ \A y \in Sessions \ {x} : rows'[y] = rows[y]
      BY <2>2, CreateOpensOne
    <3>2. CASE s = x
      BY <3>1, <3>2 DEF LifecycleStep, Terminal
    <3>3. CASE s # x
      BY <3>1, <3>3, SameIsKept DEF Kept
    <3> QED
      BY <3>2, <3>3
  <2> QED
    BY <2>1, <2>2, StepKeeps
<1> QED
  BY <1>1, TypeCorrect, PTL DEF Spec, NeverReopens

=============================================================================
