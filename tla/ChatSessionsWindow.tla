-------------------------- MODULE ChatSessionsWindow --------------------------
(***************************************************************************)
(* The time window of a consultation, for every value of the constants: it *)
(* exists exactly when a reply of the agent is stored, starts no later     *)
(* than the first reply, is never moved, and only its passing expires the  *)
(* consultation.                                                           *)
(*                                                                         *)
(* The argument rests on what a handler may still rely on when it writes:  *)
(* the holder of a row lock, that the row is ACTIVE, its own and without a *)
(* window; a handler that found the row lapsed, that it still is; a reply  *)
(* that did not have to start the window, that it was started before.      *)
(***************************************************************************)
EXTENDS ChatSessionsProofs

Timed(s) == rows[s].expiresAt # NoTime
Replies(s) == {m \in messages : m.s = s /\ m.by \in Agents}

\* TimerStartsWithFirstReply of one session.
WindowOk(s) ==
    Present(s) =>
        /\ Timed(s) <=> Replies(s) # {}
        /\ rows[s].startedAt # NoTime <=> Replies(s) # {}
        /\ Replies(s) # {} => rows[s].expiresAt = rows[s].startedAt + D
        /\ \A m \in Replies(s) : rows[s].startedAt <= m.at

\* ExpiredOnlyAfterWindow of one session.
ExpiryOk(s) ==
    rows[s].status = "EXPIRED" =>
        /\ IsSessionExpired(rows[s].expiresAt, rows[s].closedAt)
        /\ rows[s].closeReason = "TIME_LIMIT"

SessionInv(s) ==
    /\ WindowOk(s)
    /\ ExpiryOk(s)
    /\ rows[s].startedAt <= now
    /\ Timed(s) => rows[s].status \in {"ACTIVE"} \cup Terminal

\* The transaction that updated the row's timer and has not ended.
Holds(p, s) ==
    /\ pc[p] \in {"txInsert", "txCommit"}
    /\ call[p].s = s
    /\ rows[s].status = "ACTIVE"
    /\ rows[s].agent = call[p].by
    /\ ~Timed(s)
    /\ local[p].at \in Nat
    /\ local[p].at <= now
    /\ pc[p] = "txCommit" => local[p].at <= local[p].born

\* A reply that found the window started.
FoundTimed(p) ==
    /\ Timed(call[p].s)
    /\ rows[call[p].s].startedAt <=
          IF pc[p] = "txCommit" THEN local[p].born ELSE now

HandlerInv(p) ==
    /\ pc[p] \in NamesSession => Known(call[p].s)
    /\ pc[p] = "txCommit" => Present(call[p].s)
    /\ pc[p] \in {"expire", "saveExpire"} /\ Present(call[p].s) =>
          IsSessionExpired(rows[call[p].s].expiresAt, now)
    /\ pc[p] = "txTimer" => local[p].at \in Nat /\ local[p].at <= now
    /\ /\ pc[p] \in {"txInsert", "txCommit"}
       /\ call[p].by \in Agents
       /\ Present(call[p].s)
       /\ lock[call[p].s] # p
       => FoundTimed(p)
    /\ \A s \in Sessions : lock[s] = p => Holds(p, s)

WindowInv ==
    /\ TypeInv
    /\ NoOrphanMessage
    /\ \A s \in Sessions : SessionInv(s)
    /\ \A p \in Procs : HandlerInv(p)

\* What every step leaves a session that a standing handler relies on.
Calm(s) ==
    /\ Known(s) => Known(s)'
    /\ Known(s) /\ Present(s)' => Present(s)
    /\ Timed(s) /\ Present(s)' => /\ rows'[s].expiresAt = rows[s].expiresAt
                                  /\ rows'[s].startedAt = rows[s].startedAt
    /\ lock[s] # None /\ lock'[s] = lock[s] => rows'[s] = rows[s]
    /\ Present(s) => \/ Present(s)'
                     \/ \A q \in Requests : pc[q] = "txCommit" => call[q].s # s

\* A step keeps the invariant, calmly.
WindowStep == WindowInv' /\ \A s \in Sessions : Calm(s)

\* Every handler but p stands, and keeps the row locks it has.
OthersStand(p) ==
    \A q \in Procs \ {p} :
        /\ pc'[q] = pc[q] /\ call'[q] = call[q] /\ local'[q] = local[q]
        /\ \A s \in Sessions : lock[s] = q <=> lock'[s] = q

-----------------------------------------------------------------------------
(* Rows. *)

\* A row that is not written is calm.
LEMMA SameIsCalm ==
    ASSUME NEW s \in Sessions, rows'[s] = rows[s]
    PROVE  Calm(s)
BY DEF Calm, Known, Present, Timed

\* Writing one row calmly leaves all rows calm.
LEMMA WriteCalm ==
    ASSUME TypeInv, NEW s \in Sessions, NEW row,
           rows' = [rows EXCEPT ![s] = row], Calm(s)
    PROVE  \A t \in Sessions : Calm(t)
<1> TAKE t \in Sessions
<1>1. CASE t # s
  <2>1. rows'[t] = rows[t]
    BY <1>1 DEF TypeInv, TypeOK
  <2> QED
    BY <2>1, SameIsCalm
<1> QED
  BY <1>1

\* Ending a present session that nobody has locked is calm.
LEMMA EndIsCalm ==
    ASSUME TypeInv, NEW s \in Sessions, NEW t, NEW reason,
           Present(s), Unlocked(s),
           \/ rows' = [rows EXCEPT ![s] = Expire(rows[s], t)]
           \/ rows' = [rows EXCEPT ![s] = Close(rows[s], t, reason)]
    PROVE  \A x \in Sessions : Calm(x)
<1>1. rows[s] \in Row /\ rows \in [Sessions -> Row]
  BY DEF TypeInv, TypeOK
<1>2. /\ rows'[s].status \in Terminal
      /\ rows'[s].expiresAt = rows[s].expiresAt
      /\ rows'[s].startedAt = rows[s].startedAt
  BY <1>1 DEF Expire, Close, Row, Terminal
<1>3. Calm(s)
  BY <1>2 DEF Calm, Known, Present, Unlocked, Timed, Terminal, Open
<1> QED
  BY <1>3, WriteCalm

\* Cascading deletes wait for locks and inserts, so they are calm.
LEMMA DeleteIsCalm ==
    ASSUME TypeInv, NEW gone, DeleteSessions(gone), UNCHANGED lock
    PROVE  \A s \in Sessions : Calm(s)
<1> TAKE s \in Sessions
<1>1. CASE s \in gone
  <2>1. rows'[s] = AbsentRow("DELETED") /\ Deletable(s)
    BY <1>1 DEF DeleteSessions
  <2>2. rows'[s].status = "DELETED"
    BY <2>1 DEF AbsentRow
  <2> QED
    BY <2>1, <2>2
    DEF Calm, Known, Present, Timed, Deletable, Unlocked, Open, Terminal
<1>2. CASE s \notin gone
  BY <1>2, SameIsCalm DEF DeleteSessions
<1> QED
  BY <1>1, <1>2

-----------------------------------------------------------------------------
(* Sessions. *)

\* A session whose row (but for its owner and activity) and replies stay keeps
\* its invariant as time passes.
LEMMA SameSession ==
    ASSUME TypeInv, NEW s \in Sessions, SessionInv(s), now' \in Nat, now <= now',
           rows'[s].status = rows[s].status,
           rows'[s].startedAt = rows[s].startedAt,
           rows'[s].expiresAt = rows[s].expiresAt,
           rows'[s].closedAt = rows[s].closedAt,
           rows'[s].closeReason = rows[s].closeReason,
           Replies(s)' = Replies(s)
    PROVE  SessionInv(s)'
<1>1. rows[s] \in Row /\ now \in Nat
  BY DEF TypeInv, TypeOK
<1>2. WindowOk(s)'
  BY DEF SessionInv, WindowOk, Present, Timed
<1>3. ExpiryOk(s)'
  BY DEF SessionInv, ExpiryOk
<1>4. rows'[s].startedAt <= now'
  BY <1>1 DEF SessionInv, Row, Time, NoTime
<1> QED
  BY <1>2, <1>3, <1>4 DEF SessionInv, Timed

\* So does one whose row differs in neither window nor presence, and which
\* only expired because its window had passed.
LEMMA SameWindow ==
    ASSUME NEW s \in Sessions, SessionInv(s), now' = now,
           Present(s), rows'[s].status \in Open \cup Terminal,
           rows'[s].expiresAt = rows[s].expiresAt,
           rows'[s].startedAt = rows[s].startedAt,
           Timed(s) => rows'[s].status # "WAITING",
           ExpiryOk(s)', Replies(s)' = Replies(s)
    PROVE  SessionInv(s)'
<1>1. WindowOk(s)'
  BY DEF SessionInv, WindowOk, Present, Timed
<1> QED
  BY <1>1 DEF SessionInv, Timed, Open, Terminal

\* An expiry after the window, or a close, keeps the session's invariant.
LEMMA EndKeepsSession ==
    ASSUME TypeInv, NEW s \in Sessions, SessionInv(s), now' = now, Present(s),
           NEW t, NEW reason, UNCHANGED messages,
           \/ /\ rows' = [rows EXCEPT ![s] = Expire(rows[s], t)]
              /\ IsSessionExpired(rows[s].expiresAt, t)
           \/ rows' = [rows EXCEPT ![s] = Close(rows[s], t, reason)]
    PROVE  SessionInv(s)'
<1>1. rows[s] \in Row /\ rows \in [Sessions -> Row]
  BY DEF TypeInv, TypeOK
<1>2. /\ rows'[s].status \in Terminal
      /\ rows'[s].expiresAt = rows[s].expiresAt
      /\ rows'[s].startedAt = rows[s].startedAt
  BY <1>1 DEF Expire, Close, Row, Terminal
<1>3. ExpiryOk(s)'
  <2>1. CASE /\ rows' = [rows EXCEPT ![s] = Expire(rows[s], t)]
             /\ IsSessionExpired(rows[s].expiresAt, t)
    <3>1. /\ rows'[s].closedAt = t
          /\ rows'[s].closeReason = "TIME_LIMIT"
      BY <1>1, <2>1 DEF Expire, Row
    <3> QED
      BY <1>2, <2>1, <3>1 DEF ExpiryOk
  <2>2. CASE rows' = [rows EXCEPT ![s] = Close(rows[s], t, reason)]
    <3>1. rows'[s].status = "CLOSED"
      BY <1>1, <2>2 DEF Close, Row
    <3> QED
      BY <3>1 DEF ExpiryOk
  <2> QED
    BY <2>1, <2>2
<1>4. Replies(s)' = Replies(s)
  BY DEF Replies
<1> QED
  BY <1>2, <1>3, <1>4, SameWindow DEF Terminal

\* A row that is not there promises nothing.
LEMMA AbsentSession ==
    ASSUME NEW s \in Sessions, now' \in Nat, rows'[s] = AbsentRow("DELETED")
    PROVE  SessionInv(s)'
BY DEF SessionInv, WindowOk, ExpiryOk, Present, Timed, AbsentRow, Open, Terminal,
       NoTime

\* Other sessions than the one written keep their invariant.
LEMMA WriteOne ==
    ASSUME TypeInv, \A t \in Sessions : SessionInv(t), now' = now,
           NEW s \in Sessions, NEW row, rows' = [rows EXCEPT ![s] = row],
           \A t \in Sessions \ {s} : Replies(t)' = Replies(t),
           SessionInv(s)'
    PROVE  \A t \in Sessions : SessionInv(t)'
<1> TAKE t \in Sessions
<1>1. CASE t # s
  <2>1. rows'[t] = rows[t] /\ now \in Nat
    BY <1>1 DEF TypeInv, TypeOK
  <2> QED
    BY <1>1, <2>1, SameSession
<1> QED
  BY <1>1

\* Without a write, and as time passes, all sessions keep their invariants.
LEMMA NoWrite ==
    ASSUME TypeInv, \A t \in Sessions : SessionInv(t),
           now' \in Nat, now <= now', UNCHANGED <<rows, messages>>
    PROVE  /\ \A t \in Sessions : SessionInv(t)'
           /\ \A t \in Sessions : Calm(t)
<1>1. \A t \in Sessions : Replies(t)' = Replies(t)
  BY DEF Replies
<1> QED
  BY <1>1, SameSession, SameIsCalm

-----------------------------------------------------------------------------
(* Handlers. *)

\* A handler that stands keeps its invariant through any calm step.
LEMMA StandingKeeps ==
    ASSUME WindowInv, NEW q \in Procs, \A s \in Sessions : Calm(s),
           now' \in Nat, now <= now',
           pc'[q] = pc[q], call'[q] = call[q], local'[q] = local[q],
           \A s \in Sessions : lock[s] = q <=> lock'[s] = q
    PROVE  HandlerInv(q)'
<1> DEFINE s == call[q].s
<1>0. HandlerInv(q) /\ now \in Nat
  BY DEF WindowInv, TypeInv, TypeOK
<1>1. ASSUME pc[q] \in NamesSession
      PROVE  /\ s \in Sessions
             /\ Known(s)'
             /\ Present(s)' => Present(s)
             /\ rows[s] \in Row
  BY <1>0, <1>1, RowOfCall DEF WindowInv, HandlerInv, Calm
<1>2. ASSUME pc[q] = "txCommit"
      PROVE  Present(s)'
  <2>1. s \in Sessions /\ q \in Requests
    BY <1>2, <1>1 DEF WindowInv, TypeInv, CallsMatchLabels, Saving, NamesSession
  <2> QED
    BY <1>0, <1>2, <2>1 DEF HandlerInv, Calm
<1>3. ASSUME pc[q] \in {"expire", "saveExpire"}, Present(s)'
      PROVE  IsSessionExpired(rows'[s].expiresAt, now')
  <2>1. s \in Sessions /\ Present(s) /\ rows[s] \in Row
    BY <1>1, <1>3 DEF NamesSession
  <2>2. IsSessionExpired(rows[s].expiresAt, now)
    BY <1>0, <1>3, <2>1 DEF HandlerInv
  <2>3. rows'[s].expiresAt = rows[s].expiresAt
    BY <1>3, <2>1, <2>2 DEF Calm, Timed, IsSessionExpired
  <2> QED
    BY <1>0, <2>1, <2>2, <2>3 DEF IsSessionExpired, Row, Time, NoTime
<1>4. ASSUME pc[q] = "txTimer"
      PROVE  local'[q].at \in Nat /\ local'[q].at <= now'
  BY <1>0, <1>4 DEF HandlerInv
<1>5. ASSUME pc[q] \in {"txInsert", "txCommit"}, call[q].by \in Agents,
             Present(s)', lock'[s] # q
      PROVE  FoundTimed(q)'
  <2>1. s \in Sessions /\ Present(s) /\ rows[s] \in Row
    BY <1>1, <1>5 DEF NamesSession
  <2>2. FoundTimed(q)
    BY <1>0, <1>5, <2>1 DEF HandlerInv
  <2>3. rows'[s].expiresAt = rows[s].expiresAt /\ rows'[s].startedAt = rows[s].startedAt
    BY <1>5, <2>1, <2>2 DEF Calm, FoundTimed
  <2> QED
    BY <1>0, <2>1, <2>2, <2>3 DEF FoundTimed, Timed, Row, Time, NoTime
<1>6. ASSUME NEW t \in Sessions, lock'[t] = q
      PROVE  Holds(q, t)'
  <2>1. lock[t] = q /\ Holds(q, t)
    BY <1>0, <1>6 DEF HandlerInv
  <2>2. q # None
    BY <2>1, ConstantsAssumption DEF Procs
  <2>3. rows'[t] = rows[t]
    BY <1>6, <2>1, <2>2 DEF Calm
  <2> QED
    BY <1>0, <2>1, <2>3 DEF Holds, Timed
<1>7. pc'[q] = pc[q] /\ call'[q] = call[q]
  OBVIOUS
<1>8. /\ (pc[q] \in NamesSession => Known(call[q].s))'
      /\ (pc[q] = "txCommit" => Present(call[q].s))'
      /\ (pc[q] \in {"expire", "saveExpire"} /\ Present(call[q].s) =>
            IsSessionExpired(rows[call[q].s].expiresAt, now))'
  BY <1>1, <1>2, <1>3, <1>7
<1>9. (/\ pc[q] \in {"txInsert", "txCommit"}
       /\ call[q].by \in Agents
       /\ Present(call[q].s)
       /\ lock[call[q].s] # q
       => FoundTimed(q))'
  BY <1>5, <1>7
<1> QED
  BY <1>4, <1>6, <1>7, <1>8, <1>9 DEF HandlerInv

\* A handler at a label that relies on nothing but a known session.
LEMMA PlainLabel ==
    ASSUME NEW p \in Procs,
           pc'[p] \notin {"expire", "saveExpire", "txTimer", "txInsert", "txCommit"},
           pc'[p] \in NamesSession => rows'[call'[p].s].status # "UNUSED",
           \A s \in Sessions : lock'[s] # p
    PROVE  HandlerInv(p)'
BY DEF HandlerInv, Known

\* Outside the end of its transaction a handler holds no lock.
LEMMA NoLock ==
    ASSUME NEW p \in Procs, HandlerInv(p), pc[p] \notin {"txInsert", "txCommit"},
           UNCHANGED lock
    PROVE  \A s \in Sessions : lock'[s] # p
BY DEF HandlerInv, Holds

\* What is left to show of a handler's step.
LEMMA HandlerStep ==
    ASSUME WindowInv, TypeInv', NEW p \in Procs, UNCHANGED now, OthersStand(p),
           \A s \in Sessions : Calm(s),
           \A s \in Sessions : SessionInv(s)',
           HandlerInv(p)', NoOrphanMessage'
    PROVE  WindowStep
<1>1. now \in Nat
  BY DEF WindowInv, TypeInv, TypeOK
<1>2. \A q \in Procs : HandlerInv(q)'
  BY <1>1, StandingKeeps DEF OthersStand
<1> QED
  BY <1>2 DEF WindowInv, WindowStep

\* A step of a handler that only reads, at a session it already works on.
LEMMA QuietStep ==
    ASSUME WindowInv, TypeInv', NEW p \in Procs, OthersStand(p),
           UNCHANGED <<now, rows, messages>>, HandlerInv(p)'
    PROVE  WindowStep
<1>1. now \in Nat /\ now <= now'
  BY DEF WindowInv, TypeInv, TypeOK
<1>2. NoOrphanMessage'
  BY DEF WindowInv, NoOrphanMessage, Present
<1>3. /\ \A s \in Sessions : SessionInv(s)'
      /\ \A s \in Sessions : Calm(s)
  BY <1>1, NoWrite DEF WindowInv
<1> QED
  BY <1>2, <1>3, HandlerStep

-----------------------------------------------------------------------------
(* The steps of the handlers. *)

\* Passing on, or ending, a handler leaves the others where they are.
LEMMA GotoStands ==
    ASSUME TypeInv, NEW p \in Procs, NEW label, NEW row,
           Goto(p, label, row) \/ Leave(p, label)
    PROVE  /\ pc'[p] = label
           /\ \A q \in Procs \ {p} : pc'[q] = pc[q] /\ local'[q] = local[q]
<1>1. pc \in [Procs -> Labels] /\ local \in [Procs -> Local]
  BY DEF TypeInv, TypeOK
<1> QED
  BY <1>1 DEF Goto, Leave

\* A handler that keeps its call and the locks lets the others stand.
LEMMA QuietStands ==
    ASSUME NEW p \in Procs, UNCHANGED <<call, lock>>,
           \A q \in Procs \ {p} : pc'[q] = pc[q] /\ local'[q] = local[q]
    PROVE  OthersStand(p)
BY DEF OthersStand

\* A handler that only reads, and goes on to a label that relies on nothing
\* else than the session it was already at work on.
LEMMA PlainStep ==
    ASSUME WindowInv, TypeInv', NEW p \in Procs, NEW label, NEW row,
           Goto(p, label, row) \/ Leave(p, label),
           pc[p] \notin {"txInsert", "txCommit"},
           label \notin {"expire", "saveExpire", "txTimer", "txInsert", "txCommit"},
           label \in NamesSession => pc[p] \in NamesSession,
           UNCHANGED <<now, rows, messages, lock, call>>
    PROVE  WindowStep
<1>1. TypeInv /\ HandlerInv(p)
  BY DEF WindowInv
<1>2. /\ pc'[p] = label
      /\ \A q \in Procs \ {p} : pc'[q] = pc[q] /\ local'[q] = local[q]
  BY <1>1, GotoStands
<1>3. OthersStand(p)
  BY <1>2, QuietStands
<1>4. pc'[p] \in NamesSession => rows'[call'[p].s].status # "UNUSED"
  BY <1>1, <1>2 DEF HandlerInv, Known
<1>5. HandlerInv(p)'
  BY <1>1, <1>2, <1>4, NoLock, PlainLabel
<1> QED
  BY <1>3, <1>5, QuietStep

\* A handler that ends a session nobody has locked.
LEMMA EndStep ==
    ASSUME WindowInv, TypeInv', NEW p \in Procs, OthersStand(p),
           UNCHANGED <<now, messages, lock>>,
           NEW s \in Sessions, Present(s), Unlocked(s), NEW t, NEW reason,
           \/ /\ rows' = [rows EXCEPT ![s] = Expire(rows[s], t)]
              /\ IsSessionExpired(rows[s].expiresAt, t)
           \/ rows' = [rows EXCEPT ![s] = Close(rows[s], t, reason)],
           pc[p] \notin {"txInsert", "txCommit"},
           pc'[p] \notin {"expire", "saveExpire", "txTimer", "txInsert", "txCommit"},
           pc'[p] \in NamesSession => call'[p].s = s
    PROVE  WindowStep
<1>1. TypeInv /\ HandlerInv(p) /\ \A x \in Sessions : SessionInv(x)
  BY DEF WindowInv
<1>2. \A x \in Sessions : Calm(x)
  BY <1>1, EndIsCalm
<1>3. SessionInv(s)'
  BY <1>1, EndKeepsSession
<1>4. \A x \in Sessions : Replies(x)' = Replies(x)
  BY DEF Replies
<1>5. \A x \in Sessions : SessionInv(x)'
  BY <1>1, <1>3, <1>4, WriteOne
<1>6. rows \in [Sessions -> Row] /\ rows[s] \in Row
  BY <1>1 DEF TypeInv, TypeOK
<1>7. /\ rows'[s].status \in Terminal
      /\ \A x \in Sessions \ {s} : rows'[x] = rows[x]
  BY <1>6 DEF Expire, Close, Row, Terminal
<1>8. NoOrphanMessage'
  BY <1>1, <1>7 DEF WindowInv, NoOrphanMessage, Present, TypeInv, TypeOK, Message
<1>9. HandlerInv(p)'
  BY <1>1, <1>7, NoLock, PlainLabel DEF Terminal
<1> QED
  BY <1>2, <1>5, <1>8, <1>9, HandlerStep

\* findOrThrow.
LEMMA FindStepWindow ==
    ASSUME WindowInv, NEW p \in Procs, FindStep(p)
    PROVE  WindowStep
<1> DEFINE s == call[p].s
           row == rows[s]
<1>0. /\ TypeInv /\ TypeInv' /\ HandlerInv(p)
      /\ now \in Nat
  BY FindStepTypes DEF WindowInv, TypeInv, TypeOK
<1>1. CASE Find(p)
  <2> DEFINE after == AfterFind(call[p], local[p].again, row)
             label == IF Lapsed(row, now) THEN "expire" ELSE after
  <2>1. /\ Goto(p, label, row)
        /\ pc[p] = "find" /\ Present(s)
        /\ UNCHANGED <<now, rows, messages, lock, call>>
    BY <1>1 DEF Find, db
  <2>2. after \in {"conflict", "ok", "openUpdate", "announceOpened", "refused",
                   "closeUpdate", "guestCloseUpdate", "announceClosed"}
    BY AfterFindLabels
  <2> HIDE DEF after
  <2>3. CASE Lapsed(row, now)
    <3>1. /\ pc'[p] = "expire"
          /\ \A q \in Procs \ {p} : pc'[q] = pc[q] /\ local'[q] = local[q]
      BY <1>0, <2>1, <2>3, GotoStands
    <3>2. OthersStand(p)
      BY <2>1, <3>1, QuietStands
    <3>3. \A x \in Sessions : lock'[x] # p
      BY <1>0, <2>1, NoLock
    <3>4. HandlerInv(p)'
      BY <2>1, <2>3, <3>1, <3>3
      DEF HandlerInv, Known, Present, Lapsed, Open, Terminal
    <3> QED
      BY <1>0, <2>1, <3>2, <3>4, QuietStep
  <2>4. CASE ~Lapsed(row, now)
    <3>1. Goto(p, after, row)
      BY <2>1, <2>4
    <3> QED
      BY <1>0, <2>1, <2>2, <3>1, PlainStep DEF NamesSession
  <2> QED
    BY <2>3, <2>4
<1>2. CASE FindNothing(p)
  BY <1>0, <1>2, PlainStep DEF FindNothing, NamesSession, db
<1>3. CASE FindExpires(p)
  <2>1. /\ pc[p] = "expire" /\ Unlocked(s) /\ s \in Sessions
        /\ UNCHANGED <<now, messages, lock, call>>
    BY <1>0, <1>3, RowOfCall DEF FindExpires, NamesSession
  <2>2. CASE Present(s)
    <3>1. /\ rows' = [rows EXCEPT ![s] = Expire(row, now)]
          /\ Goto(p, "expired", Expire(row, now))
      BY <1>3, <2>2 DEF FindExpires
    <3>2. /\ pc'[p] = "expired"
          /\ \A q \in Procs \ {p} : pc'[q] = pc[q] /\ local'[q] = local[q]
      BY <1>0, <3>1, GotoStands
    <3>3. OthersStand(p)
      BY <2>1, <3>2, QuietStands
    <3>4. IsSessionExpired(row.expiresAt, now)
      BY <1>0, <2>1, <2>2 DEF HandlerInv
    <3> QED
      BY <1>0, <2>1, <2>2, <3>1, <3>2, <3>3, <3>4, EndStep
  <2>3. CASE ~Present(s)
    <3>1. Leave(p, "error") /\ UNCHANGED rows
      BY <1>3, <2>3 DEF FindExpires
    <3> QED
      BY <1>0, <2>1, <3>1, PlainStep DEF NamesSession
  <2> QED
    BY <2>2, <2>3
<1>4. CASE AnnounceExpired(p)
  <2> DEFINE label == AfterFind(call[p], local[p].again, local[p].seen)
  <2>1. /\ Goto(p, label, local[p].seen)
        /\ pc[p] = "expired"
        /\ UNCHANGED <<now, rows, messages, lock, call>>
    BY <1>4 DEF AnnounceExpired, db
  <2>2. label \in {"conflict", "ok", "openUpdate", "announceOpened", "refused",
                   "closeUpdate", "guestCloseUpdate", "announceClosed"}
    BY AfterFindLabels
  <2> HIDE DEF label
  <2> QED
    BY <1>0, <2>1, <2>2, PlainStep DEF NamesSession
<1> QED
  BY <1>1, <1>2, <1>3, <1>4 DEF FindStep

\* A session that was waiting, or is new, has no window and no reply.
LEMMA UntimedSession ==
    ASSUME TypeInv, NEW s \in Sessions, now' = now,
           rows'[s].status \in Open,
           rows'[s].startedAt = NoTime, rows'[s].expiresAt = NoTime,
           Replies(s)' = {}
    PROVE  SessionInv(s)'
<1>1. now \in Nat
  BY DEF TypeInv, TypeOK
<1> QED
  BY <1>1 DEF SessionInv, WindowOk, ExpiryOk, Timed, NoTime, Open

\* open's conditional update finds a session without a window.
LEMMA OpenUpdateWindow ==
    ASSUME WindowInv, TypeInv', NEW p \in Procs, OpenUpdate(p)
    PROVE  WindowStep
<1> DEFINE s == call[p].s
           row == Assign(rows[s], call[p].by)
<1>0. /\ TypeInv /\ HandlerInv(p) /\ \A x \in Sessions : SessionInv(x)
      /\ rows \in [Sessions -> Row]
  BY DEF WindowInv, TypeInv, TypeOK
<1>1. /\ pc[p] = "openUpdate" /\ Unlocked(s) /\ s \in Sessions
      /\ rows[s] \in Row
      /\ UNCHANGED <<now, messages, lock, call>>
  BY <1>0, RowOfCall DEF OpenUpdate, NamesSession
<1>2. CASE Unopened(rows[s]) /\ call[p].by \in staff
  <2>1. /\ rows' = [rows EXCEPT ![s] = row]
        /\ pc' = [pc EXCEPT ![p] = "find"]
        /\ local' = [local EXCEPT ![p].again = TRUE]
    BY <1>2 DEF OpenUpdate
  <2>2. /\ rows'[s].status = "ACTIVE"
        /\ rows'[s].startedAt = NoTime
        /\ rows'[s].expiresAt = NoTime
    BY <1>0, <1>1, <2>1 DEF Assign, Row
  <2>3. /\ ~Timed(s) /\ Present(s) /\ Known(s)
        /\ Replies(s) = {}
    BY <1>0, <1>1, <1>2
    DEF SessionInv, WindowOk, Unopened, Present, Known, Open, Terminal
  <2>4. \A x \in Sessions : Replies(x)' = Replies(x)
    BY <1>1 DEF Replies
  <2>5. \A x \in Sessions : SessionInv(x)'
    BY <1>0, <1>1, <2>1, <2>2, <2>3, <2>4, UntimedSession, WriteOne DEF Open
  <2>6. Calm(s)
    BY <1>1, <2>2, <2>3
    DEF Calm, Known, Present, Unlocked, Timed, Open
  <2>7. \A x \in Sessions : Calm(x)
    BY <1>0, <1>1, <2>1, <2>6, WriteCalm
  <2>8. NoOrphanMessage'
    BY <1>0, <1>1, <2>1, <2>2
    DEF WindowInv, NoOrphanMessage, Present, TypeInv, TypeOK, Message, Open
  <2>9. OthersStand(p)
    BY <1>0, <1>1, <2>1 DEF OthersStand, TypeInv, TypeOK
  <2>10. pc'[p] = "find"
    BY <1>0, <2>1 DEF TypeInv, TypeOK
  <2>11. HandlerInv(p)'
    BY <1>0, <1>1, <2>2, <2>10, NoLock, PlainLabel
  <2> QED
    BY <1>1, <2>5, <2>7, <2>8, <2>9, <2>11, HandlerStep
<1>3. CASE ~(Unopened(rows[s]) /\ call[p].by \in staff)
  <2>1. PICK label \in {"error", "conflict"} : Leave(p, label)
    BY <1>3 DEF OpenUpdate
  <2>2. UNCHANGED rows
    BY <1>3 DEF OpenUpdate
  <2> QED
    BY <1>1, <2>1, <2>2, PlainStep DEF NamesSession
<1> QED
  BY <1>2, <1>3

\* create's insert takes an id without window, reply or lock.
LEMMA CreateInsertWindow ==
    ASSUME WindowInv, TypeInv', NEW p \in Procs, CreateInsert(p)
    PROVE  WindowStep
<1> DEFINE room == call[p].room
<1>0. /\ TypeInv /\ HandlerInv(p) /\ \A x \in Sessions : SessionInv(x)
      /\ rows \in [Sessions -> Row] /\ call \in [Procs -> Call]
      /\ now \in Nat
  BY DEF WindowInv, TypeInv, TypeOK
<1>1. pc[p] = "createInsert" /\ UNCHANGED <<now, lock>>
  BY DEF CreateInsert
<1>2. CASE room \in rooms /\ RoomIsFree(room)
  <2>1. PICK s \in Sessions :
          /\ rows[s].status = "UNUSED"
          /\ rows' = [rows EXCEPT ![s] = NewRow(room, now)]
          /\ messages' = messages \cup {WelcomeMessage(s, now)}
          /\ call' = [call EXCEPT ![p].s = s]
          /\ Leave(p, "ok")
    BY <1>2 DEF CreateInsert
  <2>2. /\ rows'[s].status = "WAITING"
        /\ rows'[s].startedAt = NoTime
        /\ rows'[s].expiresAt = NoTime
    BY <1>0, <2>1 DEF NewRow, AbsentRow
  <2>3. /\ ~Timed(s) /\ ~Present(s) /\ ~Known(s)
        /\ Replies(s) = {}
        /\ lock[s] = None
    <3>1. ~Present(s) /\ ~Known(s)
      BY <2>1 DEF Present, Known, Open, Terminal
    <3>2. ~Timed(s)
      BY <1>0, <2>1 DEF SessionInv, Terminal
    <3>3. Replies(s) = {}
      BY <3>1 DEF Replies, WindowInv, NoOrphanMessage
    <3>4. ASSUME lock[s] # None
          PROVE  FALSE
      <4>1. PICK q \in Procs : lock[s] = q
        BY <1>0, <3>4 DEF TypeInv, TypeOK, Procs
      <4>2. Holds(q, s)
        BY <4>1 DEF WindowInv, HandlerInv
      <4> QED
        BY <2>1, <4>2 DEF Holds
    <3> QED
      BY <3>1, <3>2, <3>3, <3>4
  <2>4. \A x \in Sessions : Replies(x)' = Replies(x)
    <3>1. WelcomeMessage(s, now).by \notin Agents
      BY ConstantsAssumption DEF WelcomeMessage
    <3> QED
      BY <2>1, <3>1 DEF Replies
  <2>5. \A x \in Sessions : SessionInv(x)'
    BY <1>0, <1>1, <2>1, <2>2, <2>3, <2>4, UntimedSession, WriteOne DEF Open
  <2>6. Calm(s)
    BY <2>3 DEF Calm
  <2>7. \A x \in Sessions : Calm(x)
    BY <1>0, <2>1, <2>6, WriteCalm
  <2>8. NoOrphanMessage'
    <3>1. ASSUME NEW m \in messages'
          PROVE  rows'[m.s].status \in Open \cup Terminal
      <4>1. CASE m \in messages
        <5>1. m.s \in Sessions /\ Present(m.s)
          BY <1>0, <4>1 DEF WindowInv, NoOrphanMessage, TypeInv, TypeOK, Message
        <5>2. rows'[m.s] = rows[m.s]
          BY <1>0, <2>1, <2>3, <5>1
        <5> QED
          BY <5>1, <5>2 DEF Present
      <4>2. CASE m = WelcomeMessage(s, now)
        BY <2>2, <4>2 DEF WelcomeMessage, Open
      <4> QED
        BY <2>1, <4>1, <4>2
    <3> QED
      BY <3>1 DEF NoOrphanMessage, Present
  <2>9. /\ pc'[p] = "ok"
        /\ \A q \in Procs \ {p} : pc'[q] = pc[q] /\ local'[q] = local[q]
    BY <1>0, <2>1, GotoStands
  <2>10. OthersStand(p)
    BY <1>0, <1>1, <2>1, <2>9 DEF OthersStand
  <2>11. HandlerInv(p)'
    BY <1>0, <1>1, <2>9, NoLock, PlainLabel DEF NamesSession
  <2> QED
    BY <1>1, <2>5, <2>7, <2>8, <2>10, <2>11, HandlerStep
<1>3. CASE ~(room \in rooms /\ RoomIsFree(room))
  <2>1. PICK label \in {"error", "conflict"} : Leave(p, label)
    BY <1>3 DEF CreateInsert
  <2>2. UNCHANGED <<rows, messages, call>>
    BY <1>3 DEF CreateInsert
  <2> QED
    BY <1>1, <2>1, <2>2, PlainStep DEF NamesSession
<1> QED
  BY <1>2, <1>3

\* The two closes, and the announcements.
LEMMA SessionStepWindow ==
    ASSUME WindowInv, NEW p \in Procs, SessionStep(p)
    PROVE  WindowStep
<1> DEFINE s == call[p].s
<1>0. /\ TypeInv /\ TypeInv' /\ HandlerInv(p)
      /\ pc \in [Procs -> Labels] /\ local \in [Procs -> Local]
  BY SessionStepTypes DEF WindowInv, TypeInv, TypeOK
<1>1. CASE CreateCheck(p)
  <2>1. PICK label \in {"refused", "conflict", "createInsert"} :
          Goto(p, label, local[p].seen)
    BY <1>1 DEF CreateCheck
  <2> QED
    BY <1>0, <1>1, <2>1, PlainStep DEF CreateCheck, NamesSession, db
<1>2. CASE AnnounceOpened(p)
  BY <1>0, <1>2, PlainStep DEF AnnounceOpened, NamesSession, db
<1>3. CASE AnnounceClosed(p)
  <2>1. /\ pc[p] = "announceClosed"
        /\ UNCHANGED <<now, rows, messages, lock, call>>
    BY <1>3 DEF AnnounceClosed, db
  <2>2. /\ pc'[p] \in {"sweep", "ok"}
        /\ \A q \in Procs \ {p} : pc'[q] = pc[q] /\ local'[q] = local[q]
    BY <1>0, <1>3 DEF AnnounceClosed, Leave
  <2>3. OthersStand(p)
    BY <2>1, <2>2, QuietStands
  <2>4. HandlerInv(p)'
    BY <1>0, <2>1, <2>2, NoLock, PlainLabel DEF NamesSession
  <2> QED
    BY <1>0, <2>1, <2>3, <2>4, QuietStep
<1>4. CASE CloseUpdate(p)
  <2>1. /\ pc[p] = "closeUpdate" /\ Unlocked(s) /\ s \in Sessions
        /\ UNCHANGED <<now, messages, lock, call>>
    BY <1>0, <1>4, RowOfCall DEF CloseUpdate, NamesSession
  <2>2. CASE Present(s)
    <3>1. /\ rows' = [rows EXCEPT ![s] = Close(rows[s], now, "AGENT_CLOSED")]
          /\ Goto(p, "announceClosed", Close(rows[s], now, "AGENT_CLOSED"))
      BY <1>4, <2>2 DEF CloseUpdate
    <3>2. /\ pc'[p] = "announceClosed"
          /\ \A q \in Procs \ {p} : pc'[q] = pc[q] /\ local'[q] = local[q]
      BY <1>0, <3>1, GotoStands
    <3>3. OthersStand(p)
      BY <2>1, <3>2, QuietStands
    <3> QED
      BY <1>0, <2>1, <2>2, <3>1, <3>2, <3>3, EndStep
  <2>3. CASE ~Present(s)
    <3>1. Leave(p, "error") /\ UNCHANGED rows
      BY <1>4, <2>3 DEF CloseUpdate
    <3> QED
      BY <1>0, <2>1, <3>1, PlainStep DEF NamesSession
  <2> QED
    BY <2>2, <2>3
<1>5. CASE GuestCloseUpdate(p)
  <2>1. /\ pc[p] = "guestCloseUpdate" /\ Unlocked(s) /\ s \in Sessions
        /\ UNCHANGED <<now, messages, lock, call>>
    BY <1>0, <1>5, RowOfCall DEF GuestCloseUpdate, NamesSession
  <2>2. CASE StillOpen(rows[s])
    <3>1. /\ rows' = [rows EXCEPT ![s] = Close(rows[s], now, "GUEST_CLOSED")]
          /\ pc' = [pc EXCEPT ![p] = "find"]
          /\ local' = [local EXCEPT ![p].again = TRUE]
      BY <1>5, <2>2 DEF GuestCloseUpdate
    <3>2. /\ pc'[p] = "find"
          /\ \A q \in Procs \ {p} : pc'[q] = pc[q] /\ local'[q] = local[q]
      BY <1>0, <3>1
    <3>3. OthersStand(p)
      BY <2>1, <3>2, QuietStands
    <3>4. Present(s)
      BY <2>2 DEF StillOpen, Present
    <3> QED
      BY <1>0, <2>1, <3>1, <3>2, <3>3, <3>4, EndStep
  <2>3. CASE ~StillOpen(rows[s])
    <3>1. Leave(p, "conflict") /\ UNCHANGED rows
      BY <1>5, <2>3 DEF GuestCloseUpdate
    <3> QED
      BY <1>0, <2>1, <3>1, PlainStep DEF NamesSession
  <2> QED
    BY <2>2, <2>3
<1> QED
  BY <1>0, <1>1, <1>2, <1>3, <1>4, <1>5, OpenUpdateWindow, CreateInsertWindow
  DEF SessionStep

\* expireDueSessions ends only sessions whose window has passed.
LEMMA SweepStepWindow ==
    ASSUME WindowInv, NEW p \in Procs, SweepStep(p)
    PROVE  WindowStep
<1>0. /\ TypeInv /\ TypeInv' /\ HandlerInv(p)
      /\ pc \in [Procs -> Labels] /\ local \in [Procs -> Local]
      /\ call \in [Procs -> Call]
  BY SweepStepTypes DEF WindowInv, TypeInv, TypeOK
<1>1. CASE SweepSelect(p)
  <2>1. /\ pc[p] \in {"sweepSelect", "idle"}
        /\ pc'[p] = "sweep"
        /\ \A q \in Procs \ {p} : pc'[q] = pc[q] /\ local'[q] = local[q]
        /\ UNCHANGED <<now, rows, messages, lock, call>>
    BY <1>0, <1>1 DEF SweepSelect, TimerFires, db
  <2>2. OthersStand(p)
    BY <2>1, QuietStands
  <2>3. HandlerInv(p)'
    BY <1>0, <2>1, NoLock, PlainLabel DEF NamesSession
  <2> QED
    BY <1>0, <2>1, <2>2, <2>3, QuietStep
<1>2. CASE SweepExpires(p)
  <2> DEFINE at == local[p].at
  <2>1. PICK s \in local[p].due :
          /\ Unlocked(s)
          /\ IF Lapsed(rows[s], at)
             THEN /\ rows' = [rows EXCEPT ![s] = Expire(rows[s], at)]
                  /\ call' = [call EXCEPT ![p].s = s]
                  /\ pc' = [pc EXCEPT ![p] = "find"]
                  /\ local' = [local EXCEPT ![p].due = @ \ {s}, ![p].again = TRUE]
             ELSE /\ local' = [local EXCEPT ![p].due = @ \ {s}]
                  /\ UNCHANGED <<rows, call, pc>>
    BY <1>2 DEF SweepExpires
  <2>2. /\ s \in Sessions
        /\ pc[p] = "sweep"
        /\ UNCHANGED <<now, messages, lock>>
    BY <1>0, <1>2, <2>1 DEF SweepExpires, Local
  <2>3. CASE Lapsed(rows[s], at)
    <3>1. /\ rows' = [rows EXCEPT ![s] = Expire(rows[s], at)]
          /\ pc'[p] = "find" /\ call'[p].s = s
          /\ \A q \in Procs \ {p} :
                pc'[q] = pc[q] /\ local'[q] = local[q] /\ call'[q] = call[q]
      BY <1>0, <2>1, <2>3 DEF Call
    <3>2. OthersStand(p)
      BY <2>2, <3>1 DEF OthersStand
    <3>3. Present(s) /\ IsSessionExpired(rows[s].expiresAt, at)
      BY <2>3 DEF Lapsed, Present, Open
    <3> HIDE DEF at
    <3> QED
      BY <1>0, <2>1, <2>2, <3>1, <3>2, <3>3, EndStep
  <2>4. CASE ~Lapsed(rows[s], at)
    <3>1. /\ UNCHANGED <<rows, call>>
          /\ pc'[p] = "sweep"
          /\ \A q \in Procs \ {p} : pc'[q] = pc[q] /\ local'[q] = local[q]
      BY <1>0, <2>1, <2>2, <2>4
    <3>2. OthersStand(p)
      BY <2>2, <3>1, QuietStands
    <3>3. HandlerInv(p)'
      BY <1>0, <2>2, <3>1, NoLock, PlainLabel DEF NamesSession
    <3> QED
      BY <1>0, <2>2, <3>1, <3>2, <3>3, QuietStep
  <2> QED
    BY <2>3, <2>4
<1>3. CASE SweepDone(p)
  <2>1. PICK label \in {"idle", "ok"} : Leave(p, label)
    BY <1>3 DEF SweepDone
  <2>2. /\ pc[p] = "sweep"
        /\ \A q \in Procs \ {p} : call'[q] = call[q]
        /\ UNCHANGED <<now, rows, messages, lock>>
    BY <1>0, <1>3 DEF SweepDone, db
  <2>3. /\ pc'[p] = label
        /\ \A q \in Procs \ {p} : pc'[q] = pc[q] /\ local'[q] = local[q]
    BY <1>0, <2>1, GotoStands
  <2>4. OthersStand(p)
    BY <2>2, <2>3 DEF OthersStand
  <2>5. HandlerInv(p)'
    BY <1>0, <2>2, <2>3, NoLock, PlainLabel DEF NamesSession
  <2> QED
    BY <1>0, <2>2, <2>4, <2>5, QuietStep
<1> QED
  BY <1>1, <1>2, <1>3 DEF SweepStep

-----------------------------------------------------------------------------
(* The transaction of a message. *)

\* A reply that need not start the window was read from a session that has one.
LEMMA WritableIsTimed ==
    ASSUME WindowInv, NEW s \in Sessions, NEW by \in Agents,
           IsSessionWritable(rows[s].status, rows[s].expiresAt, by, now)
    PROVE  Timed(s) /\ rows[s].startedAt <= now
BY ConstantsAssumption DEF WindowInv, SessionInv, IsSessionWritable, Timed

\* A handler on its way to insert a message, its lock not needed.
LEMMA InsertLabel ==
    ASSUME WindowInv, NEW p \in Procs, pc[p] \in NamesSession,
           pc[p] \notin {"txInsert", "txCommit"}, pc'[p] = "txInsert",
           UNCHANGED <<now, rows, lock, call>>,
           LET row == rows[call[p].s]
           IN  IsSessionWritable(row.status, row.expiresAt, call[p].by, now)
    PROVE  HandlerInv(p)'
<1> DEFINE s == call[p].s
<1>1. TypeInv /\ HandlerInv(p) /\ s \in Sessions
  BY RowOfCall DEF WindowInv
<1>2. \A x \in Sessions : lock'[x] # p
  BY <1>1, NoLock
<1>3. call[p].by \in Agents => Timed(s) /\ rows[s].startedAt <= now
  BY <1>1, WritableIsTimed
<1>4. call[p].by \in Agents => FoundTimed(p)'
  BY <1>3 DEF FoundTimed, Timed
<1>5. Known(s)'
  BY <1>1 DEF HandlerInv, Known
<1> QED
  BY <1>2, <1>4, <1>5 DEF HandlerInv

\* The checks before the transaction, and its second look at the row.
LEMMA SaveReadWindow ==
    ASSUME WindowInv, TypeInv', NEW p \in Procs, SaveRead(p) \/ TxLatest(p)
    PROVE  WindowStep
<1> DEFINE c == call[p]
           row == rows[c.s]
<1>0. /\ TypeInv /\ HandlerInv(p)
      /\ pc[p] \in {"saveRead", "txLatest"}
      /\ UNCHANGED <<now, rows, messages, lock, call>>
  BY DEF WindowInv, SaveRead, TxLatest, db
<1>a. PICK label \in {"refused", "saveExpire", "txBegin", "txInsert", "conflict"} :
        /\ \E seen : Goto(p, label, seen)
        /\ label = "saveExpire" => Lapsed(row, now)
        /\ label = "txInsert" =>
              IsSessionWritable(row.status, row.expiresAt, c.by, now)
  BY DEF SaveRead, TxLatest, SaveJudges
<1>b. PICK seen : Goto(p, label, seen)
  BY <1>a
<1>1. /\ Goto(p, label, seen)
      /\ label = "saveExpire" => Lapsed(row, now)
      /\ label = "txInsert" =>
            IsSessionWritable(row.status, row.expiresAt, c.by, now)
  BY <1>a, <1>b
<1>2. /\ pc'[p] = label
      /\ \A q \in Procs \ {p} : pc'[q] = pc[q] /\ local'[q] = local[q]
  BY <1>0, <1>1, GotoStands
<1>3. OthersStand(p)
  BY <1>0, <1>2, QuietStands
<1>4. CASE label = "txInsert"
  <2>1. HandlerInv(p)'
    BY <1>0, <1>1, <1>2, <1>4, InsertLabel DEF NamesSession
  <2> QED
    BY <1>0, <1>3, <2>1, QuietStep
<1>5. CASE label = "saveExpire"
  <2>1. \A x \in Sessions : lock'[x] # p
    BY <1>0, NoLock
  <2>2. HandlerInv(p)'
    BY <1>0, <1>1, <1>2, <1>5, <2>1
    DEF HandlerInv, NamesSession, Known, Lapsed
  <2> QED
    BY <1>0, <1>3, <2>2, QuietStep
<1>6. CASE label \notin {"txInsert", "saveExpire"}
  BY <1>0, <1>1, <1>6, PlainStep DEF NamesSession
<1> QED
  BY <1>4, <1>5, <1>6

\* The timer's update: the row becomes this transaction's until it ends.
LEMMA TxTimerWindow ==
    ASSUME WindowInv, TypeInv', NEW p \in Procs, TxTimer(p)
    PROVE  WindowStep
<1> DEFINE s == call[p].s
<1>0. /\ TypeInv /\ HandlerInv(p)
      /\ pc \in [Procs -> Labels] /\ local \in [Procs -> Local]
      /\ lock \in [Sessions -> Requests \cup {None}]
      /\ now \in Nat /\ None \notin Procs
  BY ConstantsAssumption DEF WindowInv, TypeInv, TypeOK, Procs
<1>1. /\ pc[p] = "txTimer" /\ Unlocked(s) /\ s \in Sessions
      /\ UNCHANGED <<now, rows, messages, call>>
  BY <1>0, RowOfCall DEF TxTimer, NamesSession
<1>2. CASE lock' = [lock EXCEPT ![s] = p]
  <2>1. /\ TimerUnset(rows[s], call[p].by)
        /\ pc' = [pc EXCEPT ![p] = "txInsert"]
        /\ UNCHANGED local
    <3>1. lock' # lock
      BY <1>0, <1>1, <1>2 DEF Unlocked
    <3> QED
      BY <3>1 DEF TxTimer
  <2>2. OthersStand(p)
    <3>1. \A q \in Procs \ {p}, x \in Sessions : lock[x] = q <=> lock'[x] = q
      BY <1>0, <1>1, <1>2 DEF Unlocked
    <3> QED
      BY <1>0, <1>1, <2>1, <3>1 DEF OthersStand
  <2>3. local[p].at \in Nat /\ local[p].at <= now
    BY <1>0, <1>1 DEF HandlerInv
  <2>4. pc'[p] = "txInsert" /\ local'[p] = local[p] /\ call'[p] = call[p]
    BY <1>0, <1>1, <2>1
  <2>5. \A x \in Sessions : lock[x] # p
    BY <1>0, <1>1 DEF HandlerInv, Holds
  <2>6. ASSUME NEW x \in Sessions, lock'[x] = p
        PROVE  Holds(p, x)'
    <3>1. x = s
      BY <1>0, <1>1, <1>2, <2>5, <2>6
    <3> QED
      BY <1>1, <2>1, <2>3, <2>4, <3>1 DEF Holds, TimerUnset, Timed
  <2>7. Known(s)' /\ lock'[s] = p
    BY <1>0, <1>1, <1>2 DEF HandlerInv, Known, NamesSession
  <2>8. HandlerInv(p)'
    BY <2>4, <2>6, <2>7 DEF HandlerInv
  <2> QED
    BY <1>1, <2>2, <2>8, QuietStep
<1>3. CASE lock' # [lock EXCEPT ![s] = p]
  <2>1. /\ UNCHANGED lock
        /\ \/ Leave(p, "conflict")
           \/ pc' = [pc EXCEPT ![p] = "txLatest"] /\ UNCHANGED local
    BY <1>3 DEF TxTimer
  <2>2. /\ pc'[p] \in {"conflict", "txLatest"}
        /\ \A q \in Procs \ {p} : pc'[q] = pc[q] /\ local'[q] = local[q]
    BY <1>0, <2>1 DEF Leave
  <2>3. OthersStand(p)
    BY <1>1, <2>1, <2>2, QuietStands
  <2>4. Known(s)'
    BY <1>0, <1>1 DEF HandlerInv, Known, NamesSession
  <2>5. HandlerInv(p)'
    BY <1>0, <1>1, <2>1, <2>2, <2>4, NoLock, PlainLabel DEF Known
  <2> QED
    BY <1>1, <2>3, <2>5, QuietStep
<1> QED
  BY <1>2, <1>3

\* The end of a transaction frees the rows it locked, and no others.
LEMMA ReleaseFrees ==
    ASSUME TypeInv, NEW p \in Procs, Release(p)
    PROVE  /\ \A x \in Sessions : lock'[x] # p
           /\ \A q \in Procs \ {p}, x \in Sessions : lock[x] = q <=> lock'[x] = q
BY ConstantsAssumption DEF Release, TypeInv, TypeOK, Procs

\* The insert, or its refusal and rollback.
LEMMA TxInsertWindow ==
    ASSUME WindowInv, TypeInv', NEW p \in Procs, TxInsert(p)
    PROVE  WindowStep
<1> DEFINE s == call[p].s
<1>0. /\ TypeInv /\ HandlerInv(p) /\ s \in Sessions
      /\ pc \in [Procs -> Labels] /\ local \in [Procs -> Local]
      /\ now \in Nat
      /\ pc[p] = "txInsert"
      /\ UNCHANGED <<now, rows, messages, call>>
  BY RowOfCall DEF WindowInv, TypeInv, TypeOK, TxInsert, NamesSession
<1>1. Known(s)'
  BY <1>0 DEF HandlerInv, NamesSession, Known
<1>2. CASE Present(s) /\ KeyIsFree(s, call[p].key)
  <2>1. /\ pc' = [pc EXCEPT ![p] = "txCommit"]
        /\ local' = [local EXCEPT ![p].born = now]
        /\ UNCHANGED lock
    BY <1>2 DEF TxInsert
  <2>2. /\ pc'[p] = "txCommit"
        /\ local'[p].born = now /\ local'[p].at = local[p].at
        /\ \A q \in Procs \ {p} : pc'[q] = pc[q] /\ local'[q] = local[q]
    BY <1>0, <2>1 DEF Local
  <2>3. OthersStand(p)
    BY <1>0, <2>1, <2>2, QuietStands
  <2>4. ASSUME call[p].by \in Agents, lock'[s] # p
        PROVE  FoundTimed(p)'
    <3>1. FoundTimed(p) /\ rows[s].startedAt <= now
      BY <1>0, <1>2, <2>1, <2>4 DEF HandlerInv, FoundTimed
    <3> QED
      BY <1>0, <2>2, <3>1 DEF FoundTimed, Timed
  <2>5. ASSUME NEW x \in Sessions, lock'[x] = p
        PROVE  Holds(p, x)'
    <3>1. Holds(p, x)
      BY <1>0, <2>1, <2>5 DEF HandlerInv
    <3> QED
      BY <1>0, <2>2, <3>1 DEF Holds, Timed
  <2>6. call'[p].s = s /\ call'[p].by = call[p].by /\ Present(s)'
    BY <1>0, <1>2 DEF Present
  <2>7. HandlerInv(p)'
    BY <1>1, <2>2, <2>4, <2>5, <2>6 DEF HandlerInv
  <2> QED
    BY <1>0, <2>3, <2>7, QuietStep
<1>3. CASE ~(Present(s) /\ KeyIsFree(s, call[p].key))
  <2>1. PICK label \in {"saveExisting", "error"} : Goto(p, label, local[p].seen)
    BY <1>3 DEF TxInsert
  <2>2. Release(p)
    BY <1>3 DEF TxInsert
  <2>3. /\ pc'[p] = label
        /\ \A q \in Procs \ {p} : pc'[q] = pc[q] /\ local'[q] = local[q]
    BY <1>0, <2>1, GotoStands
  <2>4. OthersStand(p)
    BY <1>0, <2>2, <2>3, ReleaseFrees DEF OthersStand
  <2>5. HandlerInv(p)'
    BY <1>0, <1>1, <2>2, <2>3, ReleaseFrees, PlainLabel DEF Known
  <2> QED
    BY <1>0, <2>4, <2>5, QuietStep
<1> QED
  BY <1>2, <1>3

\* The commit: the timer and the first reply appear together; any later reply
\* finds the window started.
LEMMA TxCommitWindow ==
    ASSUME WindowInv, TypeInv', NEW p \in Procs, TxCommit(p)
    PROVE  WindowStep
<1>a. PICK s \in Sessions : s = call[p].s
  BY RowOfCall DEF WindowInv, TxCommit, NamesSession
<1> DEFINE by == call[p].by
           born == local[p].born
           at == local[p].at
           m == [id |-> p, s |-> s, key |-> call[p].key, by |-> by, at |-> born]
           row == IF HoldsLock(p) THEN Started(Touched(rows[s], born), at)
                  ELSE Touched(rows[s], born)
<1>0. /\ TypeInv /\ HandlerInv(p) /\ s = call[p].s
      /\ \A x \in Sessions : SessionInv(x)
      /\ pc \in [Procs -> Labels] /\ local \in [Procs -> Local]
      /\ rows \in [Sessions -> Row] /\ rows[s] \in Row
      /\ now \in Nat /\ born \in Nat
      /\ pc[p] = "txCommit"
      /\ by \in Agents \cup {Guest}
      /\ UNCHANGED <<now, call>>
  BY <1>a
  DEF WindowInv, TypeInv, TypeOK, TxCommit, CallsMatchLabels, NamesSession, Saving
<1>1. /\ rows' = [rows EXCEPT ![s] = row]
      /\ messages' = messages \cup {m}
      /\ Unlocked(s) \/ HoldsLock(p)
      /\ Release(p)
  BY <1>a DEF TxCommit
<1>2. PICK label \in {"reread", "ok"} : Goto(p, label, local[p].seen)
  BY DEF TxCommit
<1>3. /\ Present(s) /\ Known(s)
      /\ rows'[s] = row
      /\ row.status = rows[s].status
      /\ row.closedAt = rows[s].closedAt
      /\ row.closeReason = rows[s].closeReason
  BY <1>0, <1>1 DEF HandlerInv, NamesSession, Touched, Started, Row
<1>4. /\ Replies(s)' = IF by \in Agents THEN Replies(s) \cup {m} ELSE Replies(s)
      /\ \A x \in Sessions \ {s} : Replies(x)' = Replies(x)
  BY <1>1 DEF Replies
<1>5. ASSUME HoldsLock(p)
      PROVE  SessionInv(s)' /\ Calm(s)
  <2>1. Holds(p, s) /\ lock[s] = p
    BY <1>0, <1>5 DEF HandlerInv, HoldsLock
  <2>2. by \in Agents
    BY <1>0, <2>1, ConstantsAssumption DEF Holds, Row
  <2>3. ~Timed(s) /\ Replies(s) = {}
    BY <1>0, <1>3, <2>1 DEF Holds, SessionInv, WindowOk
  <2>4. /\ rows'[s].status = "ACTIVE"
        /\ rows'[s].startedAt = at
        /\ rows'[s].expiresAt = at + D
    BY <1>0, <1>3, <1>5, <2>1 DEF Holds, Touched, Started, Row
  <2>5. Replies(s)' = {m}
    BY <1>4, <2>2, <2>3
  <2>6. at \in Nat /\ at <= born /\ at <= now /\ D \in Nat \ {0}
    BY <1>0, <2>1, ConstantsAssumption DEF Holds
  <2>7. WindowOk(s)'
    BY <2>4, <2>5, <2>6 DEF WindowOk, Timed, NoTime
  <2>8. SessionInv(s)'
    BY <1>0, <2>4, <2>6, <2>7 DEF SessionInv, ExpiryOk
  <2>9. lock'[s] # lock[s]
    BY <1>0, <1>1, <2>1, ReleaseFrees
  <2>10. Calm(s)
    BY <1>3, <2>3, <2>4, <2>9 DEF Calm, Known, Present, Open
  <2> QED
    BY <2>8, <2>10
<1>6. ASSUME ~HoldsLock(p)
      PROVE  SessionInv(s)' /\ Calm(s)
  <2>1. /\ rows'[s].startedAt = rows[s].startedAt
        /\ rows'[s].expiresAt = rows[s].expiresAt
        /\ rows'[s].lastActivityAt = born
    BY <1>0, <1>3, <1>6 DEF Touched, Row
  <2>2. SessionInv(s)'
    <3>1. CASE by \notin Agents
      <4>1. Replies(s)' = Replies(s)
        BY <1>4, <3>1
      <4> QED
        BY <1>0, <1>3, <2>1, <4>1, SameSession
    <3>2. CASE by \in Agents
      <4>1. Timed(s) /\ rows[s].startedAt <= born
        BY <1>0, <1>3, <1>6, <3>2 DEF HandlerInv, FoundTimed, HoldsLock
      <4>2. Replies(s)' = Replies(s) \cup {m} /\ Replies(s) # {}
        BY <1>0, <1>3, <1>4, <3>2, <4>1 DEF SessionInv, WindowOk
      <4>3. /\ rows[s].startedAt # NoTime
            /\ rows[s].expiresAt = rows[s].startedAt + D
            /\ \A r \in Replies(s) : rows[s].startedAt <= r.at
        BY <1>0, <1>3, <4>2 DEF SessionInv, WindowOk
      <4>4. \A r \in Replies(s)' : rows'[s].startedAt <= r.at
        BY <2>1, <4>1, <4>2, <4>3
      <4>5. WindowOk(s)'
        BY <2>1, <4>1, <4>2, <4>3, <4>4 DEF WindowOk, Timed
      <4>6. ExpiryOk(s)'
        BY <1>0, <1>3, <2>1 DEF SessionInv, ExpiryOk
      <4> QED
        BY <1>0, <1>3, <2>1, <4>5, <4>6 DEF SessionInv, Timed
    <3> QED
      BY <3>1, <3>2
  <2>3. Calm(s)
    BY <1>1, <1>3, <1>6, <2>1 DEF Calm, Known, Present, Unlocked
  <2> QED
    BY <2>2, <2>3
<1> HIDE DEF row, m
<1>7. \A x \in Sessions : SessionInv(x)'
  BY <1>0, <1>1, <1>4, <1>5, <1>6, WriteOne
<1>8. \A x \in Sessions : Calm(x)
  BY <1>0, <1>1, <1>5, <1>6, WriteCalm
<1>9. NoOrphanMessage'
  <2>1. ASSUME NEW n \in messages'
        PROVE  rows'[n.s].status \in Open \cup Terminal
    <3>1. CASE n \in messages
      <4>1. n.s \in Sessions /\ Present(n.s)
        BY <1>0, <3>1 DEF WindowInv, NoOrphanMessage, TypeInv, TypeOK, Message
      <4>2. rows'[n.s].status = rows[n.s].status
        BY <1>0, <1>1, <1>3, <4>1
      <4> QED
        BY <4>1, <4>2 DEF Present
    <3>2. CASE n = m
      BY <1>3, <3>2 DEF m, Present
    <3> QED
      BY <1>1, <2>1, <3>1, <3>2
  <2> QED
    BY <2>1 DEF NoOrphanMessage, Present
<1>10. /\ pc'[p] = label
       /\ \A q \in Procs \ {p} : pc'[q] = pc[q] /\ local'[q] = local[q]
  BY <1>0, <1>2, GotoStands
<1>11. OthersStand(p)
  BY <1>0, <1>1, <1>10, ReleaseFrees DEF OthersStand
<1>12. HandlerInv(p)'
  BY <1>0, <1>1, <1>3, <1>10, ReleaseFrees, PlainLabel DEF Known
<1> QED
  BY <1>0, <1>7, <1>8, <1>9, <1>11, <1>12, HandlerStep

\* MessagesService.save.
LEMMA SaveStepWindow ==
    ASSUME WindowInv, NEW p \in Procs, SaveStep(p)
    PROVE  WindowStep
<1> DEFINE s == call[p].s
<1>0. /\ TypeInv /\ TypeInv' /\ HandlerInv(p)
      /\ pc \in [Procs -> Labels] /\ local \in [Procs -> Local]
      /\ now \in Nat
  BY SaveStepTypes DEF WindowInv, TypeInv, TypeOK
<1>1. CASE SaveExpires(p)
  <2>1. /\ pc[p] = "saveExpire" /\ Unlocked(s) /\ s \in Sessions
        /\ UNCHANGED <<now, messages, lock, call>>
    BY <1>0, <1>1, RowOfCall DEF SaveExpires, NamesSession
  <2>2. CASE Present(s)
    <3>1. /\ rows' = [rows EXCEPT ![s] = Expire(rows[s], now)]
          /\ Goto(p, "saveExpired", Expire(rows[s], now))
      BY <1>1, <2>2 DEF SaveExpires
    <3>2. /\ pc'[p] = "saveExpired"
          /\ \A q \in Procs \ {p} : pc'[q] = pc[q] /\ local'[q] = local[q]
      BY <1>0, <3>1, GotoStands
    <3>3. OthersStand(p)
      BY <2>1, <3>2, QuietStands
    <3>4. IsSessionExpired(rows[s].expiresAt, now)
      BY <1>0, <2>1, <2>2 DEF HandlerInv
    <3> QED
      BY <1>0, <2>1, <2>2, <3>1, <3>2, <3>3, <3>4, EndStep
  <2>3. CASE ~Present(s)
    <3>1. Leave(p, "error") /\ UNCHANGED rows
      BY <1>1, <2>3 DEF SaveExpires
    <3> QED
      BY <1>0, <2>1, <3>1, PlainStep DEF NamesSession
  <2> QED
    BY <2>2, <2>3
<1>2. CASE TxBegin(p)
  <2>1. /\ pc[p] = "txBegin"
        /\ pc'[p] = "txTimer" /\ local'[p].at = now
        /\ \A q \in Procs \ {p} : pc'[q] = pc[q] /\ local'[q] = local[q]
        /\ UNCHANGED <<now, rows, messages, lock, call>>
    BY <1>0, <1>2 DEF TxBegin, Local, db
  <2>2. OthersStand(p)
    BY <2>1, QuietStands
  <2>3. /\ \A x \in Sessions : lock'[x] # p
        /\ Known(s)'
    BY <1>0, <2>1, NoLock DEF HandlerInv, NamesSession, Known
  <2>4. HandlerInv(p)'
    BY <1>0, <2>1, <2>3 DEF HandlerInv
  <2> QED
    BY <1>0, <2>1, <2>2, <2>4, QuietStep
<1>3. CASE SaveAnnouncesExpiry(p) \/ AnnounceTimer(p) \/ SaveExisting(p)
  <2>1. PICK label \in {"conflict", "refused", "ok", "duplicate", "error"} :
          Leave(p, label)
    BY <1>3 DEF SaveAnnouncesExpiry, AnnounceTimer, SaveExisting
  <2> QED
    BY <1>0, <1>3, <2>1, PlainStep
    DEF SaveAnnouncesExpiry, AnnounceTimer, SaveExisting, NamesSession, db
<1>4. CASE Reread(p)
  <2>1. PICK label \in {"announceTimer", "ok"} : Goto(p, label, rows[s])
    BY <1>4 DEF Reread
  <2> QED
    BY <1>0, <1>4, <2>1, PlainStep DEF Reread, NamesSession, db
<1> QED
  BY <1>0, <1>1, <1>2, <1>3, <1>4,
     SaveReadWindow, TxTimerWindow, TxInsertWindow, TxCommitWindow
  DEF SaveStep

-----------------------------------------------------------------------------
(* Calls, deletions, the clock and restarts. *)

\* A step during which every handler stands.
LEMMA NobodyMoves ==
    ASSUME WindowInv, TypeInv', now' \in Nat, now <= now',
           UNCHANGED <<lock, pc, call, local>>,
           \A s \in Sessions : Calm(s),
           \A s \in Sessions : SessionInv(s)', NoOrphanMessage'
    PROVE  WindowStep
<1>1. \A q \in Procs : HandlerInv(q)'
  BY StandingKeeps
<1> QED
  BY <1>1 DEF WindowInv, WindowStep

\* A call names a session its caller knows.
LEMMA ReceivesWindow ==
    ASSUME WindowInv, NEW p \in Requests, Receives(p)
    PROVE  WindowStep
<1>0. /\ TypeInv /\ TypeInv' /\ HandlerInv(p) /\ p \in Procs
      /\ pc \in [Procs -> Labels] /\ call \in [Procs -> Call]
  BY ReceivesTypes DEF WindowInv, TypeInv, TypeOK, Procs
<1>a. PICK label \in {"createCheck", "find", "sweepSelect", "saveRead"} :
        \E c : /\ Receive(p, c, label)
               /\ label \in {"find", "saveRead"} => Known(c.s)
  <2>1. ASSUME NEW room \in Rooms, ReceiveCreate(p, room)
        PROVE  \E c : Receive(p, c, "createCheck")
    BY <2>1 DEF ReceiveCreate
  <2>2. ASSUME NEW op, NEW s \in Sessions, NEW by, ReceiveFind(p, op, s, by)
        PROVE  \E c : Receive(p, c, "find") /\ Known(c.s)
    <3> DEFINE c == [NoCall EXCEPT !.op = op, !.s = s, !.by = by]
    <3>1. c.s = s
      BY DEF NoCall
    <3>2. Receive(p, c, "find") /\ Known(s)
      BY <2>2 DEF ReceiveFind
    <3> HIDE DEF c
    <3> QED
      BY <3>1, <3>2
  <2>3. ASSUME NEW s \in Sessions, NEW by, NEW key, ReceiveSave(p, s, by, key)
        PROVE  \E c : Receive(p, c, "saveRead") /\ Known(c.s)
    <3> DEFINE c == [NoCall EXCEPT !.op = "save", !.s = s, !.by = by, !.key = key]
    <3>1. c.s = s
      BY DEF NoCall
    <3>2. Receive(p, c, "saveRead") /\ Known(s)
      BY <2>3 DEF ReceiveSave
    <3> HIDE DEF c
    <3> QED
      BY <3>1, <3>2
  <2>4. ASSUME ReceiveList(p)
        PROVE  \E c : Receive(p, c, "sweepSelect")
    BY <2>4 DEF ReceiveList
  <2>5. \/ \E c : Receive(p, c, "createCheck")
        \/ \E c : Receive(p, c, "find") /\ Known(c.s)
        \/ \E c : Receive(p, c, "sweepSelect")
        \/ \E c : Receive(p, c, "saveRead") /\ Known(c.s)
    BY <2>1, <2>2, <2>3, <2>4, Zenon DEF Receives
  <2> QED
    BY <2>5
<1>1. PICK c : /\ Receive(p, c, label)
               /\ label \in {"find", "saveRead"} => Known(c.s)
  BY <1>a
<1>2. /\ pc[p] = "idle" /\ pc'[p] = label /\ call'[p] = c
      /\ \A q \in Procs \ {p} :
            pc'[q] = pc[q] /\ local'[q] = local[q] /\ call'[q] = call[q]
      /\ UNCHANGED <<now, rows, messages, lock>>
  BY <1>0, <1>1 DEF Receive, db
<1>3. OthersStand(p)
  BY <1>2 DEF OthersStand
<1>4. HandlerInv(p)'
  BY <1>0, <1>1, <1>2, NoLock, PlainLabel DEF NamesSession, Known
<1> QED
  BY <1>0, <1>2, <1>3, <1>4, QuietStep

\* Deleted sessions take their replies with them.
LEMMA DeleteWindow ==
    ASSUME WindowInv, TypeInv', NEW gone, DeleteSessions(gone),
           UNCHANGED <<now, lock, pc, call, local>>
    PROVE  WindowStep
<1>0. TypeInv /\ now \in Nat /\ messages \subseteq Message
  BY DEF WindowInv, TypeInv, TypeOK
<1>1. \A s \in Sessions : Calm(s)
  BY <1>0, DeleteIsCalm
<1>2. /\ \A s \in Sessions :
            rows'[s] = IF s \in gone THEN AbsentRow("DELETED") ELSE rows[s]
      /\ messages' = {m \in messages : m.s \notin gone}
  BY DEF DeleteSessions
<1>3. ASSUME NEW s \in Sessions
      PROVE  SessionInv(s)'
  <2>1. CASE s \in gone
    BY <1>0, <1>2, <2>1, AbsentSession
  <2>2. CASE s \notin gone
    <3>1. Replies(s)' = Replies(s)
      BY <1>2, <2>2 DEF Replies
    <3>2. SessionInv(s) /\ rows'[s] = rows[s]
      BY <1>2, <2>2 DEF WindowInv
    <3> QED
      BY <1>0, <3>1, <3>2, SameSession
  <2> QED
    BY <2>1, <2>2
<1>4. NoOrphanMessage'
  BY <1>0, <1>2 DEF WindowInv, NoOrphanMessage, Present, Message
<1> QED
  BY <1>0, <1>1, <1>3, <1>4, NobodyMoves

\* The deletion of an agent takes the owner's name only.
LEMMA DeleteAgentWindow ==
    ASSUME WindowInv, TypeInv', NEW a \in Agents, DeleteAgent(a)
    PROVE  WindowStep
<1>0. /\ TypeInv /\ now \in Nat /\ messages \subseteq Message
      /\ UNCHANGED <<now, messages, lock, pc, call, local>>
  BY DEF WindowInv, TypeInv, TypeOK, DeleteAgent
<1>1. ASSUME NEW s \in Sessions
      PROVE  /\ rows'[s].status = rows[s].status
             /\ rows'[s].startedAt = rows[s].startedAt
             /\ rows'[s].expiresAt = rows[s].expiresAt
             /\ rows'[s].closedAt = rows[s].closedAt
             /\ rows'[s].closeReason = rows[s].closeReason
             /\ lock[s] # None => rows'[s] = rows[s]
  <2>1. rows[s] \in Row
    BY <1>0 DEF TypeInv, TypeOK
  <2> QED
    BY <2>1 DEF DeleteAgent, Row, Unlocked
<1>2. \A s \in Sessions : Calm(s)
  BY <1>1 DEF Calm, Known, Present
<1>3. \A s \in Sessions : Replies(s)' = Replies(s)
  BY <1>0 DEF Replies
<1>4. \A s \in Sessions : SessionInv(s)'
  BY <1>0, <1>1, <1>3, SameSession DEF WindowInv
<1>5. NoOrphanMessage'
  BY <1>0, <1>1 DEF WindowInv, NoOrphanMessage, Present, Message
<1> QED
  BY <1>0, <1>2, <1>4, <1>5, NobodyMoves

\* A restart frees every row, having written none.
LEMMA StopWindow ==
    ASSUME WindowInv, TypeInv', Stop
    PROVE  WindowStep
<1>1. /\ TypeInv /\ now \in Nat /\ now <= now'
      /\ UNCHANGED <<now, rows, messages>>
  BY DEF WindowInv, TypeInv, TypeOK, Stop
<1>2. /\ \A s \in Sessions : SessionInv(s)'
      /\ \A s \in Sessions : Calm(s)
  BY <1>1, NoWrite DEF WindowInv
<1>3. ASSUME NEW p \in Procs
      PROVE  HandlerInv(p)'
  <2>1. pc'[p] \in Results \cup {"idle"} /\ \A s \in Sessions : lock'[s] # p
    BY ConstantsAssumption DEF Stop, Procs, Results
  <2> QED
    BY <2>1, PlainLabel DEF Results, NamesSession
<1>4. NoOrphanMessage'
  BY <1>1 DEF WindowInv, NoOrphanMessage, Present
<1> QED
  BY <1>2, <1>3, <1>4 DEF WindowInv, WindowStep

\* Nothing is stored, and time may pass.
LEMMA IdleWindow ==
    ASSUME WindowInv, TypeInv', now' \in Nat, now <= now',
           UNCHANGED <<rows, messages, lock, pc, call, local>>
    PROVE  WindowStep
<1>1. /\ \A s \in Sessions : SessionInv(s)'
      /\ \A s \in Sessions : Calm(s)
  BY NoWrite DEF WindowInv
<1>2. NoOrphanMessage'
  BY DEF WindowInv, NoOrphanMessage, Present
<1> QED
  BY <1>1, <1>2, NobodyMoves

\* The invariant is inductive.
LEMMA StepWindow ==
    ASSUME WindowInv, [Next]_vars
    PROVE  WindowStep
<1>0. TypeInv' /\ now \in Nat
  BY StepTypes DEF WindowInv, TypeInv, TypeOK
<1>1. ASSUME NEW p \in Procs, Step(p)
      PROVE  WindowStep
  BY <1>1, FindStepWindow, SessionStepWindow, SweepStepWindow, SaveStepWindow
  DEF Step
<1>2. ASSUME NEW p \in Requests, Receives(p)
      PROVE  WindowStep
  BY <1>2, ReceivesWindow
<1>3. CASE (\E room \in Rooms : DeleteRoom(room)) \/ DeleteExpiredHistory
  <2>1. PICK gone : DeleteSessions(gone)
    BY <1>3 DEF DeleteRoom, DeleteExpiredHistory
  <2>2. UNCHANGED <<now, lock, pc, call, local>>
    BY <1>3 DEF DeleteRoom, DeleteExpiredHistory
  <2> QED
    BY <1>0, <2>1, <2>2, DeleteWindow
<1>4. ASSUME NEW a \in Agents, DeleteAgent(a)
      PROVE  WindowStep
  BY <1>0, <1>4, DeleteAgentWindow
<1>5. CASE Crash \/ TimerRejects
  BY <1>0, <1>5, StopWindow DEF Crash, TimerRejects
<1>6. CASE Tick \/ UNCHANGED vars
  BY <1>0, <1>6, IdleWindow DEF Tick, db, vars
<1> QED
  BY <1>1, <1>2, <1>3, <1>4, <1>5, <1>6 DEF Next, Environment, Rest

\* At the start no reply is stored and no window exists.
LEMMA InitWindow == Init => WindowInv
<1> SUFFICES ASSUME Init PROVE WindowInv
  OBVIOUS
<1>1. PICK room \in Injection(Prior, Rooms), agent \in [Opened -> Agents] :
          rows = [x \in Sessions |->
            CASE x \in Opened -> [NewRow(room[x], 0) EXCEPT !.status = "ACTIVE",
                                                           !.agent = agent[x]]
              [] x \in Prior \ Opened -> NewRow(room[x], 0)
              [] OTHER -> AbsentRow("UNUSED")]
  BY DEF Init
<1>2. ASSUME NEW s \in Sessions
      PROVE  /\ rows[s].status \in Open \cup {"UNUSED"}
             /\ s \in Prior => rows[s].status \in Open
             /\ rows[s].startedAt = NoTime
             /\ rows[s].expiresAt = NoTime
  <2>1. CASE s \in Opened
    <3>1. rows[s] = [NewRow(room[s], 0) EXCEPT !.status = "ACTIVE",
                                               !.agent = agent[s]]
      BY <1>1, <2>1
    <3> QED
      BY <3>1 DEF NewRow, AbsentRow, Open
  <2>2. CASE s \in Prior \ Opened
    <3>1. rows[s] = NewRow(room[s], 0)
      BY <1>1, <2>2
    <3> QED
      BY <3>1 DEF NewRow, AbsentRow, Open
  <2>3. CASE s \notin Opened /\ s \notin Prior \ Opened
    <3>1. rows[s] = AbsentRow("UNUSED")
      BY <1>1, <2>3
    <3> QED
      BY <2>3, <3>1 DEF AbsentRow
  <2> QED
    BY <2>1, <2>2, <2>3
<1>3. /\ now = 0
      /\ \A m \in messages : m.by = None /\ m.s \in Prior
      /\ \A s \in Sessions : Replies(s) = {}
  <2>1. now = 0 /\ messages = {WelcomeMessage(x, 0) : x \in Prior}
    BY DEF Init
  <2>2. \A m \in messages : m.by = None /\ m.s \in Prior
    BY <2>1 DEF WelcomeMessage
  <2> QED
    BY <2>1, <2>2, ConstantsAssumption DEF Replies
<1>4. ASSUME NEW s \in Sessions
      PROVE  SessionInv(s)
  BY <1>2, <1>3 DEF SessionInv, WindowOk, ExpiryOk, Timed, NoTime, Open
<1>5. NoOrphanMessage
  BY <1>2, <1>3, ConstantsAssumption DEF NoOrphanMessage, Present
<1>6. ASSUME NEW p \in Procs
      PROVE  HandlerInv(p)
  BY ConstantsAssumption DEF HandlerInv, NamesSession, Init, Procs
<1> QED
  BY <1>4, <1>5, <1>6, InitTypes DEF WindowInv

-----------------------------------------------------------------------------
(* The theorems. *)

\* The inductive invariant: what each session promises, and what each handler
\* may rely on between two of its statements.
THEOREM WindowInvariant == Spec => []WindowInv
<1>1. WindowInv /\ [Next]_vars => WindowInv'
  BY StepWindow DEF WindowStep
<1> QED
  BY <1>1, InitWindow, PTL DEF Spec

\* The fifteen minutes exist exactly when a reply of the agent is stored and
\* start no later: the timer update and the message are one transaction.
THEOREM TimerStartsHolds == Spec => []TimerStartsWithFirstReply
<1>1. WindowInv => TimerStartsWithFirstReply
  BY DEF WindowInv, SessionInv, WindowOk, Timed, Replies, TimerStartsWithFirstReply
<1> QED
  BY <1>1, WindowInvariant, PTL

\* Only a session whose window has passed ends as EXPIRED, although expiry is
\* decided on a copy of the row and written by id.
THEOREM ExpiredHolds == Spec => []ExpiredOnlyAfterWindow
<1>1. WindowInv => ExpiredOnlyAfterWindow
  BY DEF WindowInv, SessionInv, ExpiryOk, ExpiredOnlyAfterWindow
<1> QED
  BY <1>1, WindowInvariant, PTL

\* Deleting rooms or old history never leaves a message without its session.
THEOREM NoOrphanHolds == Spec => []NoOrphanMessage
<1>1. WindowInv => NoOrphanMessage
  BY DEF WindowInv
<1> QED
  BY <1>1, WindowInvariant, PTL

\* Once started the window is never moved: racing first replies share it.
THEOREM WindowNeverMovesHolds == Spec => WindowNeverMoves
<1>1. WindowInv /\ [Next]_vars =>
        [\A s \in Sessions :
           rows[s].expiresAt # NoTime /\ Present(s)' =>
              /\ rows'[s].expiresAt = rows[s].expiresAt
              /\ rows'[s].startedAt = rows[s].startedAt]_vars
  BY StepWindow DEF WindowStep, Calm, Timed
<1> QED
  BY <1>1, WindowInvariant, PTL DEF Spec, WindowNeverMoves

=============================================================================
