--------------------------- MODULE AgentDeskProofs ---------------------------
(***************************************************************************)
(* The agent's page, for any number of sessions, agents, messages and      *)
(* events under way: no screen shows an agent another's conversation, no   *)
(* session is announced twice, and a badge counts no message more than     *)
(* twice.                                                                  *)
(***************************************************************************)
EXTENDS AgentDesk, FiniteSetTheorems, TLAPS

\* An agent has taken the session; this is never undone, nor its owner changed.
Taken(s) == session[s].status \in {"ACTIVE", "ENDED"}

\* A row read earlier that says who has the session still says so.
Truthful(row, s) == row.status = "ACTIVE" => Taken(s) /\ session[s].owner = row.owner

\* Every copy of a row is truthful, wherever it is; and what was granted to this
\* account, or shows on its screen, is the account's.
OwnersInv ==
    /\ \A s \in Sessions : Truthful(list[s], s) /\ Truthful(refresh.rows[s], s)
    /\ \A i \in DOMAIN events :
         events[i].kind = "session" => Truthful(events[i].row, events[i].session)
    /\ \A s \in Sessions : opening[s] = "granted" => Taken(s) /\ session[s].owner = me
    /\ role = "AGENT" /\ selected # None =>
         Taken(selected) /\ (session[selected].owner = me \/ session[selected].status = "ENDED")

\* A mark, stored or under way, is not ahead of the messages.
MarksInv ==
    /\ \A s \in Sessions : session[s].read # None => session[s].read <= session[s].messages
    /\ \A r \in reads : r.stamp # None => r.stamp <= session[r.session].messages

\* The guest messages of a session on their way to the page.
Pending(seq, s) == {i \in DOMAIN seq : seq[i].kind = "message" /\ seq[i].session = s}

\* A new session without a message counts as one.
AtLeastOne(n) == IF n = 0 THEN 1 ELSE n

\* A message is on its way once, and is in a badge at most twice: in the server's
\* count and in the page's own.
BadgesInv ==
    \A s \in Sessions :
        /\ refresh.counts[s] <= AtLeastOne(session[s].messages)
        /\ Cardinality(Pending(events, s)) <= session[s].messages
        /\ badge[s] + Cardinality(Pending(events, s)) <=
             IF session[s].messages = 0 THEN 1 ELSE 2 * session[s].messages

\* A session that the page knows, or has announced, is there; if it is not known
\* any more it is taken; and no list under way has it as new again.
KnownInv ==
    \A s \in Sessions :
        /\ announced[s] <= 1
        /\ announced[s] = 1 => known # None
        /\ refresh.rows[s].status = "WAITING" => session[s].status # "absent"
        /\ announced[s] = 1 \/ (known # None /\ s \in known) =>
             /\ session[s].status # "absent"
             /\ refresh.phase # "idle" /\ refresh.rows[s].status # "WAITING" => Taken(s)
        /\ announced[s] = 1 /\ s \notin known =>
             /\ Taken(s)
             /\ refresh.phase # "idle" => refresh.rows[s].status # "WAITING"

DeskInv == TypeOK /\ OwnersInv /\ MarksInv /\ BadgesInv /\ KnownInv

-----------------------------------------------------------------------------
(* Who writes what.                                                        *)

\* The steps that touch the database.
Server ==
    \/ \E s \in Sessions : \/ GuestStarts(s) \/ GuestWrites(s) \/ Ends(s) \/ ReadElsewhere(s)
                           \/ ServeOpen(s) \/ \E a \in Agents : OpenedElsewhere(s, a)
    \/ \E r \in reads : StoreRead(r)

\* The steps that touch what the page has of the server's list.
Listing == ListArrives \/ SessionArrives

\* The page shows another session.
Selects(s) == Choose(s) \/ Opened(s)

(* Each variable is written by the steps named for it and by no other: no   *)
(* event and no click writes the list, the known sessions or the opening of *)
(* a session by another way.                                                *)
LEMMA WhoWrites ==
    ASSUME Next
    PROVE  /\ Server \/ UNCHANGED session
           /\ \/ StartRefresh /\ UNCHANGED server
              \/ Count \/ refresh' = Idle \/ UNCHANGED refresh
           /\ Listing \/ UNCHANGED list
           /\ ListArrives \/ UNCHANGED <<known, active, announced>>
           /\ \/ \E s \in Sessions : ServeOpen(s) \/ ChooseWaiting(s) \/ opening' = [opening EXCEPT ![s] = "no"]
              \/ UNCHANGED opening
           /\ (\E s \in Sessions : Selects(s)) \/ selected' = None \/ UNCHANGED selected
           /\ UNCHANGED role
<1> DEFINE Goal ==
           /\ Server \/ UNCHANGED session
           /\ \/ StartRefresh /\ UNCHANGED server
              \/ Count \/ refresh' = Idle \/ UNCHANGED refresh
           /\ Listing \/ UNCHANGED list
           /\ ListArrives \/ UNCHANGED <<known, active, announced>>
           /\ \/ \E s \in Sessions : ServeOpen(s) \/ ChooseWaiting(s) \/ opening' = [opening EXCEPT ![s] = "no"]
              \/ UNCHANGED opening
           /\ (\E s \in Sessions : Selects(s)) \/ selected' = None \/ UNCHANGED selected
           /\ UNCHANGED role
<1>1. ASSUME NEW s \in Sessions, Elsewhere(s)  PROVE Goal
  <2>1. Server
    BY <1>1 DEF Elsewhere, Server
  <2>2. UNCHANGED <<role, refresh, opening, screen, announced>>
    BY <1>1 DEF Elsewhere, GuestStarts, GuestWrites, Ends, ReadElsewhere, OpenedElsewhere
  <2> QED  BY <2>1, <2>2 DEF screen
<1>2. ASSUME NEW s \in Sessions, ServeOpen(s)  PROVE Goal
  <2>1. Server
    BY <1>2 DEF Server
  <2> QED  BY <1>2, <2>1 DEF ServeOpen, screen
<1>3. ASSUME NEW s \in Sessions, Opened(s)  PROVE Goal
  BY <1>3 DEF Opened, Select, Selects, server
<1>4. ASSUME NEW s \in Sessions, NotOpened(s)  PROVE Goal
  BY <1>4 DEF NotOpened, server, screen
<1>5. ASSUME NEW r \in reads, Serve(r)  PROVE Goal
  <2>1. CASE StampRead(r)
    BY <2>1 DEF StampRead, server, screen
  <2>2. CASE StoreRead(r)
    BY <2>2 DEF StoreRead, Server, screen
  <2> QED  BY <1>5, <2>1, <2>2 DEF Serve
<1>6. ASSUME NEW r \in reads, ReadFails(r)  PROVE Goal
  BY <1>6 DEF ReadFails, server, screen
<1>7. CASE Poll \/ Count \/ RefreshFails
  BY <1>7 DEF Poll, Count, RefreshFails, Finished, server, screen
<1>8. CASE ListArrives
  BY <1>8 DEF ListArrives, Listing, server
<1>9. ASSUME NEW s \in Sessions, Choose(s) \/ ChooseWaiting(s)  PROVE Goal
  BY <1>9 DEF Choose, ChooseWaiting, Select, Selects, server, screen
<1>10. CASE Deselect \/ LookAway \/ LookBack
  BY <1>10 DEF Deselect, LookAway, LookBack, server
<1>11. CASE Deliver
  BY <1>11 DEF Deliver, SessionArrives, ReadArrives, MessageArrives, Listing, server
<1>12. CASE Reconnect \/ \E s \in Sessions : JoinServed(s)
  BY <1>12 DEF Reconnect, JoinServed, server, screen
<1> QED  BY <1>1, <1>2, <1>3, <1>4, <1>5, <1>6, <1>7, <1>8, <1>9, <1>10, <1>11, <1>12
         DEF Next, Opening, Agent

\* What is told of a session is what the database holds from now on.
ToldOf(s) == [kind |-> "session", session |-> s,
              row |-> [status |-> session'[s].status, owner |-> session'[s].owner]]

(* The events that are sent, and those that have come or are lost.          *)
LEMMA WhoSends ==
    ASSUME TypeOK, Next
    PROVE  \/ \E s \in Sessions : GuestWrites(s)
           \/ Len(events) < MaxEvents /\ \E s \in Sessions :
                \/ events' = Append(events, ToldOf(s))
                \/ events' = Append(events, [kind |-> "read", session |-> s])
           \/ events # <<>> /\ events' = Tail(events)
           \/ events' = <<>>
           \/ UNCHANGED events
<1> DEFINE Goal ==
           \/ \E s \in Sessions : GuestWrites(s)
           \/ Len(events) < MaxEvents /\ \E s \in Sessions :
                \/ events' = Append(events, ToldOf(s))
                \/ events' = Append(events, [kind |-> "read", session |-> s])
           \/ events # <<>> /\ events' = Tail(events)
           \/ events' = <<>>
           \/ UNCHANGED events
<1>1. ASSUME NEW s \in Sessions, NEW status, NEW owner, Change(s, status, owner)  PROVE Goal
  <2>1. session[s] \in [status : Statuses, owner : Owners,
                        messages : 0 .. MaxMessages, read : {None} \cup 0 .. MaxMessages]
    BY DEF TypeOK
  <2>2. session'[s] = [[session[s] EXCEPT !.status = status] EXCEPT !.owner = owner]
    BY <1>1 DEF Change, TypeOK
  <2>3. session'[s].status = status /\ session'[s].owner = owner
    BY <2>1, <2>2
  <2>4. [SessionEvent(s) EXCEPT !.row = [status |-> status, owner |-> owner]] = ToldOf(s)
    BY <2>3 DEF SessionEvent, ToldOf
  <2> QED  BY <1>1, <2>4 DEF Change, Publish
<1>2. ASSUME NEW s \in Sessions, Elsewhere(s)  PROVE Goal
  <2>1. CASE GuestStarts(s) \/ GuestWrites(s)
    BY <2>1 DEF GuestStarts, network
  <2>2. CASE Ends(s) \/ \E a \in Agents : OpenedElsewhere(s, a)
    BY <1>1, <2>2 DEF Ends, OpenedElsewhere
  <2>3. CASE ReadElsewhere(s)
    BY <2>3 DEF ReadElsewhere, Publish
  <2> QED  BY <1>2, <2>1, <2>2, <2>3 DEF Elsewhere
<1>3. ASSUME NEW s \in Sessions, Opening(s)  PROVE Goal
  BY <1>1, <1>3 DEF Opening, ServeOpen, Opened, NotOpened, network
<1>4. ASSUME NEW r \in reads, Serve(r) \/ ReadFails(r)  PROVE Goal
  <2>1. r.session \in Sessions
    BY DEF TypeOK
  <2> QED  BY <1>4, <2>1 DEF Serve, StampRead, StoreRead, ReadFails, Publish, network
<1>5. CASE Poll \/ Count \/ RefreshFails \/ ListArrives
  BY <1>5 DEF Poll, Count, RefreshFails, ListArrives, network
<1>6. CASE Agent
  BY <1>6 DEF Agent, Choose, ChooseWaiting, Deselect, LookAway, LookBack, network
<1>7. CASE Deliver \/ Reconnect \/ (\E s \in Sessions : JoinServed(s))
  BY <1>7 DEF Deliver, SessionArrives, ReadArrives, MessageArrives, Reconnect, JoinServed
<1> QED  BY <1>2, <1>3, <1>4, <1>5, <1>6, <1>7 DEF Next

-----------------------------------------------------------------------------
(* The messages on their way.                                              *)

(* The queue is finite, and so is what is pending in it.                    *)
LEMMA PendingFinite ==
    ASSUME NEW seq \in Seq(Event), NEW s
    PROVE  IsFiniteSet(Pending(seq, s)) /\ Cardinality(Pending(seq, s)) \in Nat
<1>1. DOMAIN seq = 1 .. Len(seq) /\ Len(seq) \in Nat
  OBVIOUS
<1>2. IsFiniteSet(1 .. Len(seq))
  BY <1>1, FS_Interval
<1>3. Pending(seq, s) \in SUBSET (1 .. Len(seq))
  BY <1>1 DEF Pending
<1> QED  BY <1>2, <1>3, FS_Subset, FS_CardinalityType

(* A message sent is one more for its session, and none for another.        *)
LEMMA PendingAppend ==
    ASSUME NEW seq \in Seq(Event), NEW e \in Event, NEW s
    PROVE  Cardinality(Pending(Append(seq, e), s)) =
             Cardinality(Pending(seq, s)) + (IF e.kind = "message" /\ e.session = s THEN 1 ELSE 0)
<1> DEFINE longer == Append(seq, e)
           new == Len(seq) + 1
<1>1. longer \in Seq(Event) /\ Len(longer) = new /\ Len(seq) \in Nat /\ DOMAIN seq = 1 .. Len(seq)
  OBVIOUS
<1>2. (\A i \in 1 .. Len(seq) : longer[i] = seq[i]) /\ longer[new] = e /\ DOMAIN longer = 1 .. new
  BY <1>1
<1> HIDE DEF longer
<1>3. new \notin Pending(seq, s)
  BY <1>1 DEF Pending
<1>4. DOMAIN longer = DOMAIN seq \cup {new}
  BY <1>1, <1>2
<1>5. CASE e.kind = "message" /\ e.session = s
  <2>1. Pending(longer, s) = Pending(seq, s) \cup {new}
    BY <1>1, <1>2, <1>4, <1>5 DEF Pending
  <2> QED  BY <1>3, <1>5, <2>1, PendingFinite, FS_AddElement DEF longer
<1>6. CASE ~(e.kind = "message" /\ e.session = s)
  <2>1. Pending(longer, s) = Pending(seq, s)
    BY <1>1, <1>2, <1>4, <1>6 DEF Pending
  <2>2. Cardinality(Pending(seq, s)) \in Nat
    BY PendingFinite
  <2> QED  BY <1>6, <2>1, <2>2 DEF longer
<1> QED  BY <1>5, <1>6

(* A message that has come is one less.                                     *)
LEMMA PendingTail ==
    ASSUME NEW seq \in Seq(Event), seq # <<>>, NEW s
    PROVE  Cardinality(Pending(seq, s)) = Cardinality(Pending(Tail(seq), s))
             + (IF Head(seq).kind = "message" /\ Head(seq).session = s THEN 1 ELSE 0)
<1> DEFINE rest == Tail(seq)
           later == Pending(seq, s) \ {1}
           f == [i \in Pending(rest, s) |-> i + 1]
<1>1. rest \in Seq(Event) /\ Len(seq) \in Nat \ {0} /\ Head(seq) = seq[1] /\ DOMAIN seq = 1 .. Len(seq)
  OBVIOUS
<1>2. /\ DOMAIN rest = 1 .. Len(seq) - 1
      /\ \A i \in 1 .. Len(seq) - 1 : rest[i] = seq[i + 1] /\ i \in Nat /\ i + 1 \in 1 .. Len(seq) /\ i + 1 # 1
  BY <1>1
<1> HIDE DEF rest
<1>3. IsFiniteSet(Pending(rest, s)) /\ IsFiniteSet(Pending(seq, s)) /\ Cardinality(Pending(rest, s)) \in Nat
  BY <1>1, PendingFinite
<1>4. \A i \in Pending(rest, s) : i \in Nat /\ i + 1 \in later
  BY <1>1, <1>2 DEF Pending
<1>5. \A j \in later : j - 1 \in Pending(rest, s) /\ (j - 1) + 1 = j
  <2> SUFFICES ASSUME NEW j \in later  PROVE j - 1 \in Pending(rest, s) /\ (j - 1) + 1 = j
    OBVIOUS
  <2>1. j \in 1 .. Len(seq) /\ j # 1 /\ seq[j].kind = "message" /\ seq[j].session = s
    BY <1>1 DEF Pending
  <2>2. j - 1 \in 1 .. Len(seq) - 1 /\ (j - 1) + 1 = j
    BY <1>1, <2>1
  <2>3. rest[j - 1] = seq[j]
    BY <1>2, <2>2
  <2> QED  BY <1>2, <2>1, <2>2, <2>3 DEF Pending
<1>6. f \in Bijection(Pending(rest, s), later)
  <2>1. f \in [Pending(rest, s) -> later]
    BY <1>4
  <2>2. \A a, b \in Pending(rest, s) : f[a] = f[b] => a = b
    BY <1>4
  <2>3. \A j \in later : \E i \in Pending(rest, s) : f[i] = j
    BY <1>5
  <2> QED  BY <2>1, <2>2, <2>3 DEF Bijection, Injection, Surjection, IsInjective
<1>7. Cardinality(later) = Cardinality(Pending(rest, s))
  BY <1>3, <1>6, FS_Bijection DEF ExistsBijection
<1>8. 1 \in Pending(seq, s) <=> Head(seq).kind = "message" /\ Head(seq).session = s
  BY <1>1 DEF Pending
<1>9. Cardinality(later) = IF 1 \in Pending(seq, s) THEN Cardinality(Pending(seq, s)) - 1
                                                    ELSE Cardinality(Pending(seq, s))
  BY <1>3, FS_RemoveElement
<1>10. Cardinality(Pending(seq, s)) \in Nat
  BY PendingFinite
<1> QED  BY <1>3, <1>7, <1>8, <1>9, <1>10 DEF rest

-----------------------------------------------------------------------------
(* The server.                                                             *)

SessionRows == [status : Statuses, owner : Owners,
                messages : 0 .. MaxMessages, read : {None} \cup 0 .. MaxMessages]

(* A session only goes on: a taken one stays taken by the same agent, an    *)
(* ended one ended, and its messages only grow, one at a time, by its guest. *)
LEMMA Onward ==
    ASSUME TypeOK, MarksInv, [Next]_vars, NEW s \in Sessions
    PROVE  /\ session'[s] \in SessionRows
           /\ session'[s].read # None => session'[s].read <= session'[s].messages
           /\ Taken(s) => session'[s].status \in {"ACTIVE", "ENDED"} /\ session'[s].owner = session[s].owner
           /\ session[s].status = "ENDED" => session'[s].status = "ENDED"
           /\ session[s].status # "absent" => session'[s].status # "absent"
           /\ \/ session'[s].messages = session[s].messages
              \/ GuestWrites(s) /\ session'[s].messages = session[s].messages + 1
<1> DEFINE Goal == /\ session'[s] \in SessionRows
                   /\ session'[s].read # None => session'[s].read <= session'[s].messages
                   /\ Taken(s) => session'[s].status \in {"ACTIVE", "ENDED"} /\ session'[s].owner = session[s].owner
                   /\ session[s].status = "ENDED" => session'[s].status = "ENDED"
                   /\ session[s].status # "absent" => session'[s].status # "absent"
                   /\ \/ session'[s].messages = session[s].messages
                      \/ GuestWrites(s) /\ session'[s].messages = session[s].messages + 1
<1>t. session[s] \in SessionRows /\ session \in [Sessions -> SessionRows]
  BY DEF TypeOK, SessionRows
<1>m. session[s].read # None => session[s].read <= session[s].messages
  BY DEF MarksInv
<1>a. MaxMessages \in Nat /\ me \in Agents
  BY DeskAssumption
<1>1. CASE session'[s] = session[s]
  BY <1>1, <1>t, <1>m DEF Taken
<1>2. ASSUME NEW status \in Statuses \ {"absent"}, NEW owner \in Owners, Change(s, status, owner),
             session[s].status = "WAITING" \/ (status = "ENDED" /\ owner = session[s].owner)
      PROVE  Goal
  <2>1. session'[s] = [[session[s] EXCEPT !.status = status] EXCEPT !.owner = owner]
    BY <1>t, <1>2 DEF Change
  <2>2. /\ session'[s] \in SessionRows /\ session'[s].status = status /\ session'[s].owner = owner
        /\ session'[s].messages = session[s].messages /\ session'[s].read = session[s].read
    BY <1>t, <2>1 DEF SessionRows
  <2> QED  BY <1>2, <1>m, <2>2 DEF Taken
<1>3. CASE GuestStarts(s)
  <2>1. session'[s] = [session[s] EXCEPT !.status = "WAITING"] /\ session[s].status = "absent"
    BY <1>t, <1>3 DEF GuestStarts
  <2>2. /\ session'[s] \in SessionRows /\ session'[s].status = "WAITING"
        /\ session'[s].messages = session[s].messages /\ session'[s].read = session[s].read
    BY <1>t, <2>1 DEF SessionRows, Statuses
  <2> QED  BY <1>m, <2>1, <2>2 DEF Taken
<1>4. CASE GuestWrites(s)
  <2>1. session'[s] = [session[s] EXCEPT !.messages = session[s].messages + 1]
        /\ session[s].messages < MaxMessages
    BY <1>t, <1>4 DEF GuestWrites
  <2>2. /\ session'[s] \in SessionRows /\ session'[s].status = session[s].status
        /\ session'[s].owner = session[s].owner
        /\ session'[s].messages = session[s].messages + 1 /\ session'[s].read = session[s].read
    BY <1>t, <1>a, <2>1 DEF SessionRows
  <2>3. session[s].read # None => session[s].read \in Nat /\ session[s].messages \in Nat
    BY <1>t, <1>a DEF SessionRows
  <2> QED  BY <1>m, <1>t, <1>4, <2>2, <2>3 DEF Taken
<1>5. ASSUME NEW stamp \in {None} \cup 0 .. MaxMessages,
             session' = [session EXCEPT ![s].read = stamp],
             stamp # None => stamp <= session[s].messages
      PROVE  Goal
  <2>1. session'[s] = [session[s] EXCEPT !.read = stamp]
    BY <1>t, <1>5
  <2>2. /\ session'[s] \in SessionRows /\ session'[s].status = session[s].status
        /\ session'[s].owner = session[s].owner
        /\ session'[s].messages = session[s].messages /\ session'[s].read = stamp
    BY <1>t, <2>1 DEF SessionRows
  <2> QED  BY <1>5, <2>2 DEF Taken
<1>6. ASSUME NEW j \in Sessions,
             \/ GuestStarts(j) \/ GuestWrites(j) \/ Ends(j) \/ ReadElsewhere(j)
             \/ ServeOpen(j) \/ \E a \in Agents : OpenedElsewhere(j, a)
      PROVE  Goal
  <2>1. CASE j # s
    <3>1. session'[s] = session[s]
      BY <1>t, <1>6, <2>1 DEF GuestStarts, GuestWrites, Ends, ReadElsewhere, ServeOpen, OpenedElsewhere, Change
    <3> QED  BY <1>1, <3>1
  <2>2. CASE j = s /\ Ends(s)
    BY <1>2, <1>t, <2>2 DEF Ends, Open, SessionRows, Statuses
  <2>3. CASE j = s /\ ReadElsewhere(s)
    <3>1. session[s].messages \in 0 .. MaxMessages /\ session[s].messages <= session[s].messages
      BY <1>t, <1>a DEF SessionRows
    <3> QED  BY <1>5, <2>3, <3>1 DEF ReadElsewhere
  <2>4. CASE j = s /\ \E a \in Agents : OpenedElsewhere(s, a)
    BY <1>2, <2>4 DEF OpenedElsewhere, Owners, Statuses
  <2>5. CASE j = s /\ ServeOpen(s)
    BY <1>1, <1>2, <1>a, <2>5 DEF ServeOpen, Owners, Statuses
  <2> QED  BY <1>3, <1>4, <1>6, <2>1, <2>2, <2>3, <2>4, <2>5
<1>7. ASSUME NEW r \in reads, StoreRead(r)  PROVE Goal
  <2>1. r.session \in Sessions /\ r.stamp \in 0 .. MaxMessages /\ r.stamp # None
        /\ r.stamp <= session[r.session].messages
    BY <1>7 DEF TypeOK, MarksInv, StoreRead
  <2>2. CASE r.session # s
    <3>1. session'[s] = session[s]
      BY <1>t, <1>7, <2>1, <2>2 DEF StoreRead
    <3> QED  BY <1>1, <3>1
  <2>3. CASE r.session = s
    BY <1>5, <1>7, <2>1, <2>3 DEF StoreRead
  <2> QED  BY <2>2, <2>3
<1>8. CASE UNCHANGED vars
  BY <1>1, <1>8 DEF vars, server
<1>9. CASE Next
  <2>1. Server \/ UNCHANGED session
    BY <1>9, WhoWrites
  <2> QED  BY <1>1, <1>6, <1>7, <2>1 DEF Server
<1> QED  BY <1>8, <1>9

(* The server's count of what is unread.                                    *)
LEMMA UnreadCount ==
    ASSUME TypeOK, MarksInv, NEW s \in Sessions, NEW status
    PROVE  Unread(s, status) \in Nat /\ Unread(s, status) <= AtLeastOne(session[s].messages)
<1> DEFINE n == session[s].messages
           read == session[s].read
           count == n - (IF read = None THEN 0 ELSE read)
<1>1. n \in Nat /\ (read = None \/ (read \in Nat /\ read <= n))
  <2>1. session[s] \in SessionRows
    BY DEF TypeOK, SessionRows
  <2> QED  BY <2>1, DeskAssumption DEF SessionRows, MarksInv
<1>2. Unread(s, status) = IF status = "WAITING" /\ read = None /\ count = 0 THEN 1 ELSE count
  BY DEF Unread
<1> HIDE DEF n, read
<1>3. count \in Nat /\ count <= n
  BY <1>1
<1>4. (read = None /\ count = 0) => n = 0
  BY <1>1
<1> QED  BY <1>1, <1>2, <1>3, <1>4 DEF AtLeastOne, n

Refreshes == [phase : {"idle", "listed", "counted"}, rows : [Sessions -> Row],
              counts : [Sessions -> 0 .. MaxMessages]]

(* What a refresh holds in each of its phases: the server's rows of the     *)
(* moment it started, then its counts.                                      *)
LEMMA RefreshForms ==
    ASSUME TypeOK, MarksInv, [Next]_vars
    PROVE  /\ refresh' \in Refreshes
           /\ \/ UNCHANGED refresh
              \/ refresh' = Idle /\ Idle.phase = "idle" /\ Idle.rows = NoRows /\ Idle.counts = NoCounts
              \/ /\ UNCHANGED server
                 /\ refresh' = Listed
                 /\ Listed.rows = [s \in Sessions |-> IF Visible(s) THEN RowOf(s) ELSE NoRow]
                 /\ Listed.phase = "listed" /\ Listed.counts = NoCounts
              \/ /\ UNCHANGED server
                 /\ refresh'.rows = refresh.rows /\ refresh.phase = "listed" /\ refresh'.phase = "counted"
                 /\ \A s \in Sessions : refresh'.counts[s] = 0 \/ \E status : refresh'.counts[s] = Unread(s, status)
<1>t. refresh \in Refreshes /\ NoRow \in Row /\ 0 \in 0 .. MaxMessages
      /\ \A s \in Sessions : RowOf(s) \in Row
  BY DeskAssumption DEF TypeOK, Refreshes, NoRow, Row, RowOf, Statuses, Owners
<1>i. Idle \in Refreshes /\ Idle.phase = "idle" /\ Idle.rows = NoRows /\ Idle.counts = NoCounts
  BY <1>t DEF Idle, Refreshes, NoRows, NoCounts
<1>l. Listed \in Refreshes
  <2>1. [s \in Sessions |-> IF Visible(s) THEN RowOf(s) ELSE NoRow] \in [Sessions -> Row]
    BY <1>t
  <2>2. NoCounts \in [Sessions -> 0 .. MaxMessages]
    BY <1>t DEF NoCounts
  <2> QED  BY <2>1, <2>2 DEF Listed, Refreshes
<1>f. /\ Listed.rows = [s \in Sessions |-> IF Visible(s) THEN RowOf(s) ELSE NoRow]
      /\ Listed.phase = "listed" /\ Listed.counts = NoCounts
  BY DEF Listed
<1>1. CASE StartRefresh /\ UNCHANGED server
  BY <1>1, <1>t, <1>l, <1>f DEF StartRefresh
<1>2. CASE Count
  <2> DEFINE counts == [s \in Sessions |-> IF refresh.rows[s] = NoRow THEN 0
                                           ELSE Unread(s, refresh.rows[s].status)]
  <2>1. refresh' = [[refresh EXCEPT !.phase = "counted"] EXCEPT !.counts = counts] /\ refresh.phase = "listed"
    BY <1>2 DEF Count
  <2>2. \A s \in Sessions : session[s].messages \in 0 .. MaxMessages
    BY DEF TypeOK
  <2>3. \A s \in Sessions : \A status : Unread(s, status) \in 0 .. MaxMessages
    BY <2>2, UnreadCount, DeskAssumption DEF AtLeastOne
  <2>4. counts \in [Sessions -> 0 .. MaxMessages]
    BY <1>t, <2>3
  <2>5. \A s \in Sessions : counts[s] = 0 \/ \E status : counts[s] = Unread(s, status)
    OBVIOUS
  <2> HIDE DEF counts
  <2>6. /\ refresh'.rows = refresh.rows /\ refresh'.counts = counts
        /\ refresh'.phase = "counted" /\ refresh' \in Refreshes
    BY <1>t, <2>1, <2>4 DEF Refreshes
  <2> QED  BY <1>2, <2>1, <2>5, <2>6 DEF Count
<1>3. CASE refresh' = Idle \/ UNCHANGED refresh
  BY <1>3, <1>i, <1>t
<1>4. CASE UNCHANGED vars
  BY <1>3, <1>4 DEF vars
<1> QED  BY <1>1, <1>2, <1>3, <1>4, WhoWrites

(* The marks under way.                                                     *)
LEMMA MarksStep ==
    ASSUME TypeOK, MarksInv, [Next]_vars
    PROVE  /\ reads' \subseteq [session : Sessions, stamp : {None} \cup 0 .. MaxMessages]
           /\ MarksInv'
<1> DEFINE Marks == [session : Sessions, stamp : {None} \cup 0 .. MaxMessages]
           Fine(set) == /\ set \subseteq Marks
                        /\ \A r \in set : r.stamp # None => r.stamp <= session'[r.session].messages
<1>g. \A s \in Sessions : /\ session[s].messages \in 0 .. MaxMessages
                          /\ session'[s].messages \in 0 .. MaxMessages
                          /\ session[s].messages <= session'[s].messages
  <2> SUFFICES ASSUME NEW s \in Sessions
               PROVE  /\ session[s].messages \in 0 .. MaxMessages
                      /\ session'[s].messages \in 0 .. MaxMessages
                      /\ session[s].messages <= session'[s].messages
    OBVIOUS
  <2>1. session[s].messages \in 0 .. MaxMessages
    BY DEF TypeOK
  <2>2. session'[s] \in SessionRows /\ (\/ session'[s].messages = session[s].messages
                                       \/ session'[s].messages = session[s].messages + 1)
    BY Onward
  <2> QED  BY <2>1, <2>2, DeskAssumption DEF SessionRows
<1>r. Fine(reads)
  <2>1. \A r \in reads : r \in Marks
    BY DEF TypeOK
  <2>2. \A r \in reads : r.stamp # None => r.stamp \in 0 .. MaxMessages /\ r.stamp <= session[r.session].messages
    BY <2>1 DEF MarksInv
  <2> QED  BY <1>g, <2>1, <2>2, DeskAssumption
<1>1. ASSUME NEW s \in Sessions, MarkRead(s)  PROVE Fine(reads')
  <2>1. [session |-> s, stamp |-> None] \in Marks /\ [session |-> s, stamp |-> None].stamp = None
    OBVIOUS
  <2> QED  BY <1>1, <1>r, <2>1 DEF MarkRead
<1>2. ASSUME reads' \subseteq reads  PROVE Fine(reads')
  BY <1>2, <1>r
<1>3. ASSUME NEW r \in reads, StampRead(r)  PROVE Fine(reads')
  <2> DEFINE new == [r EXCEPT !.stamp = session[r.session].messages]
  <2>1. r \in Marks
    BY <1>r
  <2>2. new \in Marks /\ new.stamp = session[r.session].messages /\ new.session = r.session
    BY <1>g, <2>1
  <2> HIDE DEF new
  <2>3. reads' = (reads \ {r}) \cup {new}
    BY <1>3 DEF StampRead, new
  <2> QED  BY <1>g, <1>r, <2>1, <2>2, <2>3
<1>4. ASSUME NEW s \in Sessions, Elsewhere(s) \/ Opening(s)  PROVE Fine(reads')
  <2>1. reads' = reads \/ MarkRead(s)
    BY <1>4 DEF Elsewhere, Opening, GuestStarts, GuestWrites, Ends, ReadElsewhere, OpenedElsewhere,
                ServeOpen, Opened, NotOpened, Select
  <2> QED  BY <1>1, <1>2, <2>1
<1>5. ASSUME NEW r \in reads, StoreRead(r) \/ ReadFails(r)  PROVE Fine(reads')
  BY <1>2, <1>5 DEF StoreRead, ReadFails
<1>6. ASSUME \/ Poll \/ Count \/ ListArrives \/ RefreshFails \/ Reconnect
             \/ \E s \in Sessions : JoinServed(s)
      PROVE  Fine(reads')
  BY <1>2, <1>6 DEF Poll, Count, ListArrives, RefreshFails, Reconnect, JoinServed
<1>7. ASSUME Agent  PROVE Fine(reads')
  <2>1. ASSUME NEW s \in Sessions, Choose(s)  PROVE MarkRead(s)
    BY <2>1 DEF Choose, Select
  <2>2. CASE LookBack
    <3>1. reads' = reads \/ (selected \in Sessions /\ MarkRead(selected))
      BY <2>2 DEF LookBack, TypeOK
    <3> QED  BY <1>1, <1>2, <3>1
  <2> QED  BY <1>1, <1>2, <1>7, <2>1, <2>2 DEF Agent, ChooseWaiting, Deselect, LookAway
<1>8. ASSUME Deliver  PROVE Fine(reads')
  <2>1. CASE MessageArrives
    <3> DEFINE s == Head(events).session
    <3>1. s \in Sessions
      BY <2>1 DEF MessageArrives, TypeOK, Event
    <3>2. reads' = reads \/ MarkRead(s)
      <4>1. (CASE s \notin active -> UNCHANGED <<badge, reads>>
               [] s \in active /\ Viewing(s) -> MarkRead(s)
               [] OTHER -> badge' = [badge EXCEPT ![s] = @ + 1] /\ UNCHANGED reads)
        BY <2>1 DEF MessageArrives
      <4> HIDE DEF s
      <4> QED  BY <4>1
    <3> QED  BY <1>1, <1>2, <3>1, <3>2
  <2> QED  BY <1>2, <1>8, <2>1 DEF Deliver, SessionArrives, ReadArrives
<1>9. ASSUME UNCHANGED vars  PROVE Fine(reads')
  BY <1>2, <1>9 DEF vars
<1>10. Fine(reads')
  BY <1>3, <1>4, <1>5, <1>6, <1>7, <1>8, <1>9 DEF Next, Serve
<1>11. \A s \in Sessions : session'[s].read # None => session'[s].read <= session'[s].messages
  BY Onward
<1> QED  BY <1>10, <1>11 DEF MarksInv

-----------------------------------------------------------------------------
(* Owners.                                                                 *)

(* A row of the database is truthful, whenever it is read; and a copy stays  *)
(* so, for nobody takes a session over.                                      *)
LEMMA TruthKept ==
    ASSUME TypeOK, MarksInv, [Next]_vars, NEW s \in Sessions, NEW row, Truthful(row, s)
    PROVE  row.status = "ACTIVE" =>
             session'[s].status \in {"ACTIVE", "ENDED"} /\ session'[s].owner = row.owner
BY Onward DEF Truthful, Taken

(* What the server puts into a row.                                        *)
LEMMA RowsAreTruthful ==
    ASSUME NEW s \in Sessions
    PROVE  /\ Truthful(RowOf(s), s) /\ Truthful(NoRow, s)
           /\ RowOf(s).status = session[s].status /\ RowOf(s).owner = session[s].owner
           /\ NoRow.status = "absent"
BY DEF Truthful, RowOf, NoRow, Taken

(* The events on their way: each keeps its kind and its row, those sent say *)
(* what the database holds.                                                 *)
LEMMA EventsStep ==
    ASSUME TypeOK, MarksInv, [Next]_vars
    PROVE  /\ events' \in Seq(Event) /\ Len(events') <= MaxEvents
           /\ \A i \in DOMAIN events' :
                \/ \E j \in DOMAIN events : events'[i] = events[j]
                \/ \E s \in Sessions : events'[i] = ToldOf(s)
                \/ events'[i].kind # "session"
<1>t. events \in Seq(Event) /\ Len(events) <= MaxEvents /\ MaxEvents \in Nat
  BY DeskAssumption DEF TypeOK
<1> DEFINE Goal == /\ events' \in Seq(Event) /\ Len(events') <= MaxEvents
                   /\ \A i \in DOMAIN events' :
                        \/ \E j \in DOMAIN events : events'[i] = events[j]
                        \/ \E s \in Sessions : events'[i] = ToldOf(s)
                        \/ events'[i].kind # "session"
<1>1. ASSUME NEW e \in Event, events' = Append(events, e), Len(events) < MaxEvents,
             e.kind # "session" \/ \E s \in Sessions : e = ToldOf(s)
      PROVE  Goal
  <2>1. events' \in Seq(Event) /\ Len(events') = Len(events) + 1 /\ Len(events) \in Nat
    BY <1>t, <1>1
  <2>2. \A i \in 1 .. Len(events) : events'[i] = events[i]
    BY <1>t, <1>1
  <2>3. events'[Len(events) + 1] = e
    BY <1>t, <1>1
  <2>4. DOMAIN events' = 1 .. Len(events) + 1 /\ DOMAIN events = 1 .. Len(events)
    BY <2>1, <1>t
  <2>5. \A i \in DOMAIN events' : i \in DOMAIN events \/ i = Len(events) + 1
    BY <2>1, <2>4
  <2>6. Len(events') <= MaxEvents
    BY <1>t, <1>1, <2>1
  <2> QED  BY <1>1, <2>1, <2>2, <2>3, <2>4, <2>5, <2>6
<1>2. ASSUME NEW s \in Sessions, GuestWrites(s)  PROVE Goal
  <2>1. [kind |-> "message", session |-> s] \in Event
    BY DEF Event
  <2>2. CASE UNCHANGED events
    BY <1>t, <2>2
  <2>3. CASE events' = Append(events, [kind |-> "message", session |-> s])
    BY <1>1, <1>2, <2>1, <2>3 DEF GuestWrites
  <2> QED  BY <1>2, <2>2, <2>3 DEF GuestWrites
<1>3. ASSUME NEW s \in Sessions, Len(events) < MaxEvents,
             events' = Append(events, ToldOf(s))
      PROVE  Goal
  <2>1. session'[s] \in SessionRows
    BY Onward
  <2>2. ToldOf(s) \in Event
    BY <2>1 DEF SessionRows, ToldOf, Event, Row
  <2> QED  BY <1>1, <1>3, <2>2
<1>4. ASSUME NEW s \in Sessions, Len(events) < MaxEvents,
             events' = Append(events, [kind |-> "read", session |-> s])
      PROVE  Goal
  <2>1. [kind |-> "read", session |-> s] \in Event
    BY DEF Event
  <2> QED  BY <1>1, <1>4, <2>1
<1>5. ASSUME events # <<>>, events' = Tail(events)  PROVE Goal
  <2>1. events' \in Seq(Event) /\ Len(events') = Len(events) - 1 /\ Len(events) \in Nat \ {0}
    BY <1>t, <1>5
  <2>2. \A i \in 1 .. Len(events) - 1 : events'[i] = events[i + 1] /\ i + 1 \in 1 .. Len(events)
    BY <1>t, <1>5
  <2>3. DOMAIN events' = 1 .. Len(events) - 1 /\ DOMAIN events = 1 .. Len(events)
    BY <1>t, <2>1
  <2>4. Len(events') <= MaxEvents
    BY <1>t, <2>1
  <2> QED  BY <2>1, <2>2, <2>3, <2>4
<1>6. CASE events' = <<>>
  BY <1>t, <1>6
<1>7. CASE UNCHANGED events
  BY <1>t, <1>7
<1>8. CASE UNCHANGED vars
  BY <1>7, <1>8 DEF vars, network
<1> QED  BY <1>2, <1>3, <1>4, <1>5, <1>6, <1>7, <1>8, WhoSends

(* No copy of a row, however old, says that this account has a session that *)
(* another has: so neither a click on the list nor an opening that succeeds *)
(* puts another's conversation on the screen.                               *)
LEMMA OwnersStep ==
    ASSUME TypeOK, MarksInv, OwnersInv, [Next]_vars
    PROVE  OwnersInv'
<1> DEFINE StillSays(row, s) == row.status = "ACTIVE" =>
                             session'[s].status \in {"ACTIVE", "ENDED"} /\ session'[s].owner = row.owner
<1>k. \A s \in Sessions : \A row : Truthful(row, s) => StillSays(row, s)
  BY TruthKept
<1>n. \A s \in Sessions : StillSays(NoRow, s) /\ StillSays(RowOf(s), s) /\ StillSays(list[s], s) /\ StillSays(refresh.rows[s], s)
  BY <1>k, RowsAreTruthful DEF OwnersInv
<1>e. events \in Seq(Event)
  BY DEF TypeOK
<1>v. \A i \in DOMAIN events : events[i].session \in Sessions
                                /\ (events[i].kind = "session" => StillSays(events[i].row, events[i].session))
  <2> SUFFICES ASSUME NEW i \in DOMAIN events
               PROVE  events[i].session \in Sessions
                      /\ (events[i].kind = "session" => StillSays(events[i].row, events[i].session))
    OBVIOUS
  <2>1. events[i] \in Event
    BY <1>e
  <2>2. events[i].session \in Sessions
    BY <2>1 DEF Event
  <2> QED  BY <1>k, <2>2 DEF OwnersInv
<1> HIDE DEF StillSays
<1>1. \A s \in Sessions : StillSays(list'[s], s)
  <2> SUFFICES ASSUME NEW s \in Sessions  PROVE StillSays(list'[s], s)
    OBVIOUS
  <2>1. CASE UNCHANGED list
    BY <2>1, <1>n
  <2>2. CASE ListArrives
    BY <2>2, <1>n DEF ListArrives
  <2>3. CASE SessionArrives
    <3> DEFINE e == Head(events)
    <3>1. 1 \in DOMAIN events /\ e = events[1] /\ e.kind = "session"
      BY <1>e, <2>3 DEF SessionArrives
    <3>2. list'[s] = list[s] \/ (s = e.session /\ list'[s] = e.row)
      BY <2>3 DEF SessionArrives, TypeOK
    <3> QED  BY <1>n, <1>v, <3>1, <3>2
  <2> QED  BY <2>1, <2>2, <2>3, WhoWrites DEF Listing, vars, screen
<1>2. \A s \in Sessions : StillSays(refresh'.rows[s], s)
  <2>1. \/ refresh'.rows = refresh.rows
        \/ refresh'.rows = NoRows
        \/ refresh'.rows = [s \in Sessions |-> IF Visible(s) THEN RowOf(s) ELSE NoRow]
    BY RefreshForms
  <2> QED  BY <1>n, <2>1 DEF NoRows
<1>3. \A i \in DOMAIN events' : events'[i].kind = "session" => StillSays(events'[i].row, events'[i].session)
  <2> SUFFICES ASSUME NEW i \in DOMAIN events', events'[i].kind = "session"
               PROVE  StillSays(events'[i].row, events'[i].session)
    OBVIOUS
  <2>1. CASE \E j \in DOMAIN events : events'[i] = events[j]
    BY <1>v, <2>1
  <2>2. ASSUME NEW s \in Sessions, events'[i] = ToldOf(s)  PROVE StillSays(events'[i].row, events'[i].session)
    <3>1. events'[i].session = s /\ events'[i].row.status = session'[s].status
          /\ events'[i].row.owner = session'[s].owner
      BY <2>2 DEF ToldOf
    <3> QED  BY <3>1 DEF StillSays
  <2> QED  BY <2>1, <2>2, EventsStep
<1>o. \A s \in Sessions : Taken(s) => session'[s].status \in {"ACTIVE", "ENDED"}
                                      /\ session'[s].owner = session[s].owner
  BY Onward
<1>4. ASSUME NEW s \in Sessions, opening'[s] = "granted"
      PROVE  session'[s].status \in {"ACTIVE", "ENDED"} /\ session'[s].owner = me
  <2>1. CASE opening[s] = "granted"
    BY <1>o, <2>1 DEF OwnersInv
  <2>2. CASE opening[s] # "granted"
    <3>1. ServeOpen(s)
      <4>1. PICK j \in Sessions : ServeOpen(j) \/ ChooseWaiting(j) \/ opening' = [opening EXCEPT ![j] = "no"]
        <5>1. ~UNCHANGED opening
          BY <1>4, <2>2
        <5> QED  BY <5>1, WhoWrites DEF vars
      <4>2. \E v : opening' = [opening EXCEPT ![j] = v] /\ (v = "granted" => ServeOpen(j))
        BY <4>1 DEF ServeOpen, ChooseWaiting
      <4> QED  BY <1>4, <2>2, <4>2 DEF TypeOK
    <3>2. CASE session[s].status = "WAITING"
      <4>1. Change(s, "ACTIVE", me)
        BY <3>1, <3>2 DEF ServeOpen
      <4>2. session'[s] = [[session[s] EXCEPT !.status = "ACTIVE"] EXCEPT !.owner = me]
        BY <4>1 DEF Change, TypeOK
      <4>3. session[s] \in SessionRows
        BY DEF TypeOK, SessionRows
      <4> QED  BY <4>2, <4>3 DEF SessionRows
    <3>3. CASE session[s].status # "WAITING"
      <4>1. opening' = [opening EXCEPT ![s] =
              IF RowOf(s) = [status |-> "ACTIVE", owner |-> me] THEN "granted" ELSE "refused"]
            /\ session' = session
        BY <3>1, <3>3 DEF ServeOpen
      <4>2. RowOf(s) = [status |-> "ACTIVE", owner |-> me]
        BY <1>4, <4>1 DEF TypeOK
      <4>3. session[s].status = "ACTIVE" /\ session[s].owner = me
        BY <4>2 DEF RowOf
      <4> QED  BY <4>1, <4>3
    <3> QED  BY <3>2, <3>3
  <2> QED  BY <2>1, <2>2
<1>5. ASSUME role' = "AGENT", selected' # None
      PROVE  /\ session'[selected'].status \in {"ACTIVE", "ENDED"}
             /\ session'[selected'].owner = me \/ session'[selected'].status = "ENDED"
  <2>r. role = "AGENT"
    BY <1>5, WhoWrites DEF vars, server
  <2>1. CASE UNCHANGED selected
    <3>1. selected \in Sessions /\ Taken(selected)
          /\ (session[selected].owner = me \/ session[selected].status = "ENDED")
      BY <1>5, <2>1, <2>r DEF OwnersInv, TypeOK
    <3>2. session[selected].status = "ENDED" => session'[selected].status = "ENDED"
      BY <3>1, Onward
    <3> QED  BY <1>o, <2>1, <3>1, <3>2
  <2>2. ASSUME NEW s \in Sessions, Selects(s)
        PROVE  /\ session'[selected'].status \in {"ACTIVE", "ENDED"}
               /\ session'[selected'].owner = me \/ session'[selected'].status = "ENDED"
    <3>1. selected' = s
      BY <2>2 DEF Selects, Choose, Opened, Select
    <3>2. CASE Choose(s)
      <4>1. list[s].status = "ACTIVE" /\ list[s].owner = me
        BY <2>r, <3>2 DEF Choose, Current, WaitingIn, MineIn
      <4> QED  BY <1>o, <3>1, <4>1 DEF OwnersInv, Truthful
    <3>3. CASE Opened(s)
      BY <1>o, <3>1, <3>3 DEF Opened, OwnersInv
    <3> QED  BY <2>2, <3>2, <3>3 DEF Selects
  <2>3. (\E s \in Sessions : Selects(s)) \/ UNCHANGED selected
    BY <1>5, WhoWrites DEF vars, screen
  <2> QED  BY <2>1, <2>2, <2>3
<1> QED  BY <1>1, <1>2, <1>3, <1>4, <1>5 DEF OwnersInv, Truthful, Taken, StillSays

-----------------------------------------------------------------------------
(* Badges.                                                                 *)

(* The badges stay a function of the sessions, whatever writes them.        *)
LEMMA BadgeForm ==
    ASSUME TypeOK, [Next]_vars
    PROVE  badge' = [s \in Sessions |-> badge'[s]]
<1> DEFINE Goal == badge' = [s \in Sessions |-> badge'[s]]
<1>t. /\ badge = [s \in Sessions |-> badge[s]]
      /\ refresh.counts = [s \in Sessions |-> refresh.counts[s]]
  BY DEF TypeOK
<1>1. ASSUME NEW j, NEW v, badge' = [badge EXCEPT ![j] = v]  PROVE Goal
  BY <1>t, <1>1
<1>2. ASSUME UNCHANGED badge  PROVE Goal
  BY <1>t, <1>2
<1>3. ASSUME ListArrives  PROVE Goal
  BY <1>t, <1>3 DEF ListArrives, Synchronized
<1>4. ASSUME NEW s \in Sessions, Elsewhere(s) \/ Opening(s)  PROVE Goal
  <2>1. UNCHANGED badge \/ MarkRead(s)
    BY <1>4 DEF Elsewhere, Opening, GuestStarts, GuestWrites, Ends, ReadElsewhere, OpenedElsewhere,
                ServeOpen, Opened, NotOpened, Select, screen
  <2> QED  BY <1>1, <1>2, <2>1 DEF MarkRead
<1>5. ASSUME NEW r \in reads, Serve(r) \/ ReadFails(r)  PROVE Goal
  BY <1>2, <1>5 DEF Serve, StampRead, StoreRead, ReadFails, screen
<1>6. ASSUME Poll \/ Count \/ RefreshFails \/ Reconnect \/ (\E s \in Sessions : JoinServed(s))  PROVE Goal
  BY <1>2, <1>6 DEF Poll, Count, RefreshFails, Reconnect, JoinServed, screen
<1>7. ASSUME Agent  PROVE Goal
  <2>1. UNCHANGED badge \/ \E j : badge' = [badge EXCEPT ![j] = 0]
    BY <1>7 DEF Agent, Choose, ChooseWaiting, Deselect, LookAway, LookBack, Select, MarkRead, screen
  <2> QED  BY <1>1, <1>2, <2>1
<1>8. ASSUME SessionArrives \/ ReadArrives  PROVE Goal
  BY <1>1, <1>2, <1>8 DEF SessionArrives, ReadArrives
<1>9. ASSUME MessageArrives  PROVE Goal
  <2> DEFINE j == Head(events).session
  <2>1. (CASE j \notin active -> UNCHANGED <<badge, reads>>
           [] j \in active /\ Viewing(j) -> MarkRead(j)
           [] OTHER -> badge' = [badge EXCEPT ![j] = @ + 1] /\ UNCHANGED reads)
    BY <1>9 DEF MessageArrives
  <2> HIDE DEF j
  <2>2. UNCHANGED badge \/ MarkRead(j) \/ badge' = [badge EXCEPT ![j] = @ + 1]
    BY <2>1
  <2> QED  BY <1>1, <1>2, <2>2 DEF MarkRead
<1>10. ASSUME UNCHANGED vars  PROVE Goal
  BY <1>2, <1>10 DEF vars, screen
<1> QED  BY <1>3, <1>4, <1>5, <1>6, <1>7, <1>8, <1>9, <1>10 DEF Next, Deliver

(* How a badge changes, with what is pending: a badge grows only by a       *)
(* message that comes, or by the server's count taking its place.           *)
LEMMA WhoCounts ==
    ASSUME TypeOK, Next, NEW s \in Sessions
    PROVE  \/ /\ badge'[s] \in {0, badge[s]}
              /\ Cardinality(Pending(events', s)) <= Cardinality(Pending(events, s))
           \/ /\ badge'[s] = badge[s] /\ GuestWrites(s)
              /\ Cardinality(Pending(events', s)) <= Cardinality(Pending(events, s)) + 1
           \/ /\ badge'[s] = badge[s] + 1 /\ UNCHANGED session
              /\ Cardinality(Pending(events', s)) + 1 = Cardinality(Pending(events, s))
           \/ ListArrives /\ badge'[s] = refresh.counts[s]
<1> DEFINE P == Cardinality(Pending(events, s))
           Q == Cardinality(Pending(events', s))
           Less == badge'[s] \in {0, badge[s]} /\ Q <= P
           Goal == \/ Less
                   \/ badge'[s] = badge[s] /\ GuestWrites(s) /\ Q <= P + 1
                   \/ badge'[s] = badge[s] + 1 /\ UNCHANGED session /\ Q + 1 = P
                   \/ ListArrives /\ badge'[s] = refresh.counts[s]
<1>t. badge \in [Sessions -> Int] /\ events \in Seq(Event) /\ P \in Nat /\ refresh.counts \in [Sessions -> Int]
  <2>1. badge \in [Sessions -> 0 .. 2 * MaxMessages] /\ events \in Seq(Event)
        /\ refresh.counts \in [Sessions -> 0 .. MaxMessages]
    BY DEF TypeOK
  <2>2. 0 .. 2 * MaxMessages \subseteq Int /\ 0 .. MaxMessages \subseteq Int
    BY DeskAssumption
  <2> QED  BY <2>1, <2>2, PendingFinite
<1>e. \A j \in Sessions : /\ [kind |-> "message", session |-> j] \in Event
                          /\ [kind |-> "read", session |-> j] \in Event
  BY DEF Event
<1>q. /\ UNCHANGED events => Q = P
      /\ events' = <<>> => Q = 0
      /\ events # <<>> /\ events' = Tail(events) => Q <= P
      /\ \A e \in Event : events' = Append(events, e) =>
           Q = P + (IF e.kind = "message" /\ e.session = s THEN 1 ELSE 0)
  <2>1. UNCHANGED events => Q = P
    OBVIOUS
  <2>2. ASSUME events' = <<>>  PROVE Q = 0
    <3>1. Pending(events', s) = {}
      BY <2>2 DEF Pending
    <3> QED  BY <3>1, FS_EmptySet
  <2>3. ASSUME events # <<>>, events' = Tail(events)  PROVE Q <= P
    <3>1. events' \in Seq(Event)
      BY <1>t, <2>3
    <3>2. Q \in Nat
      BY <3>1, PendingFinite
    <3> QED  BY <1>t, <2>3, <3>2, PendingTail
  <2>4. \A e \in Event : events' = Append(events, e) =>
          Q = P + (IF e.kind = "message" /\ e.session = s THEN 1 ELSE 0)
    BY <1>t, PendingAppend
  <2> QED  BY <2>1, <2>2, <2>3, <2>4
<1> HIDE DEF P, Q
<1>r. ASSUME NEW e \in Event, events' = Append(events, e), e.kind # "message"
      PROVE  Q = P
  <2>1. Q = P + (IF e.kind = "message" /\ e.session = s THEN 1 ELSE 0)
    BY <1>q, <1>r
  <2> QED  BY <1>t, <1>r, <2>1
<1>b. \A j \in Sessions : badge' = [badge EXCEPT ![j] = 0] => badge'[s] \in {0, badge[s]}
  BY <1>t
<1>1. ASSUME UNCHANGED badge \/ \E j \in Sessions : badge' = [badge EXCEPT ![j] = 0],
             Q <= P
      PROVE  Goal
  BY <1>t, <1>b, <1>1
<1>s. UNCHANGED events => Q <= P
  BY <1>t, <1>q
<1>2. ASSUME NEW j \in Sessions, Elsewhere(j)  PROVE Goal
  <2>1. UNCHANGED badge
    BY <1>2 DEF Elsewhere, GuestStarts, GuestWrites, Ends, ReadElsewhere, OpenedElsewhere, screen
  <2>2. CASE GuestWrites(j)
    <3>1. Q = P \/ (j = s /\ Q = P + 1)
      <4> DEFINE e == [kind |-> "message", session |-> j]
      <4>1. e \in Event /\ e.kind = "message" /\ e.session = j
        BY <1>e
      <4>2. UNCHANGED events \/ events' = Append(events, e)
        BY <2>2 DEF GuestWrites
      <4> HIDE DEF e
      <4>3. CASE events' = Append(events, e)
        <5>1. Q = P + (IF e.kind = "message" /\ e.session = s THEN 1 ELSE 0)
          BY <1>q, <4>1, <4>3
        <5> QED  BY <1>t, <4>1, <5>1
      <4> QED  BY <1>q, <4>2, <4>3
    <3> QED  BY <1>t, <2>1, <2>2, <3>1
  <2>3. CASE GuestStarts(j)
    BY <1>1, <1>s, <2>1, <2>3 DEF GuestStarts, network
  <2>4. CASE ReadElsewhere(j)
    <3>1. events' = Append(events, [kind |-> "read", session |-> j])
      BY <2>4 DEF ReadElsewhere, Publish
    <3>2. Q = P
      <4>1. [kind |-> "read", session |-> j].kind # "message"
        OBVIOUS
      <4> QED  BY <1>e, <1>r, <3>1, <4>1
    <3> QED  BY <1>1, <1>t, <2>1, <3>2
  <2>5. ASSUME NEW status \in Statuses, NEW owner \in Owners, Change(j, status, owner)  PROVE Goal
    <3>1. [SessionEvent(j) EXCEPT !.row = [status |-> status, owner |-> owner]] \in Event
          /\ [SessionEvent(j) EXCEPT !.row = [status |-> status, owner |-> owner]].kind = "session"
      BY DEF SessionEvent, Event, Row
    <3>2. events' = Append(events, [SessionEvent(j) EXCEPT !.row = [status |-> status, owner |-> owner]])
      BY <2>5 DEF Change, Publish
    <3>3. Q = P
      BY <1>r, <3>1, <3>2
    <3> QED  BY <1>1, <1>t, <2>1, <3>3
  <2>6. CASE Ends(j)
    <3>1. session[j].owner \in Owners
      BY DEF TypeOK
    <3> QED  BY <2>5, <2>6, <3>1 DEF Ends, Statuses
  <2>7. CASE \E a \in Agents : OpenedElsewhere(j, a)
    BY <2>5, <2>7 DEF OpenedElsewhere, Statuses, Owners
  <2> QED  BY <1>2, <2>2, <2>3, <2>4, <2>6, <2>7 DEF Elsewhere
<1>3. ASSUME NEW j \in Sessions, Opening(j)  PROVE Goal
  <2>1. CASE ServeOpen(j)
    <3>1. UNCHANGED badge
      BY <2>1 DEF ServeOpen, screen
    <3>2. CASE UNCHANGED events
      BY <1>1, <1>s, <3>1, <3>2
    <3>3. CASE Change(j, "ACTIVE", me)
      <4>1. [SessionEvent(j) EXCEPT !.row = [status |-> "ACTIVE", owner |-> me]] \in Event
            /\ [SessionEvent(j) EXCEPT !.row = [status |-> "ACTIVE", owner |-> me]].kind = "session"
        BY DeskAssumption DEF SessionEvent, Event, Row, Statuses, Owners
      <4>2. events' = Append(events, [SessionEvent(j) EXCEPT !.row = [status |-> "ACTIVE", owner |-> me]])
        BY <3>3 DEF Change, Publish
      <4>3. Q = P
        BY <1>r, <4>1, <4>2
      <4> QED  BY <1>1, <1>t, <3>1, <4>3
    <3> QED  BY <2>1, <3>2, <3>3 DEF ServeOpen
  <2>2. CASE Opened(j)
    BY <1>1, <1>s, <2>2 DEF Opened, Select, MarkRead, network
  <2>3. CASE NotOpened(j)
    BY <1>1, <1>s, <2>3 DEF NotOpened, network, screen
  <2> QED  BY <1>3, <2>1, <2>2, <2>3 DEF Opening
<1>4. ASSUME NEW r \in reads, Serve(r) \/ ReadFails(r)  PROVE Goal
  <2>1. CASE StampRead(r) \/ ReadFails(r)
    BY <1>1, <1>s, <2>1 DEF StampRead, ReadFails, network, screen
  <2>2. CASE StoreRead(r)
    <3>1. r.session \in Sessions
      BY DEF TypeOK
    <3>2. events' = Append(events, [kind |-> "read", session |-> r.session])
      BY <2>2 DEF StoreRead, Publish
    <3>3. Q = P
      <4>1. [kind |-> "read", session |-> r.session].kind # "message"
        OBVIOUS
      <4> QED  BY <1>e, <1>r, <3>1, <3>2, <4>1
    <3> QED  BY <1>1, <1>t, <2>2, <3>3 DEF StoreRead, screen
  <2> QED  BY <1>4, <2>1, <2>2 DEF Serve
<1>5. ASSUME Poll \/ Count \/ RefreshFails  PROVE Goal
  BY <1>1, <1>s, <1>5 DEF Poll, Count, RefreshFails, network, screen
<1>6. ASSUME ListArrives  PROVE Goal
  BY <1>t, <1>6 DEF ListArrives, Synchronized
<1>7. ASSUME Agent  PROVE Goal
  <2>1. UNCHANGED events
    BY <1>7 DEF Agent, Choose, ChooseWaiting, Deselect, LookAway, LookBack, network
  <2>2. UNCHANGED badge \/ \E j \in Sessions : badge' = [badge EXCEPT ![j] = 0]
    BY <1>7 DEF Agent, Choose, ChooseWaiting, Deselect, LookAway, LookBack, Select, MarkRead, screen, TypeOK
  <2> QED  BY <1>1, <1>s, <2>1, <2>2
<1>8. ASSUME SessionArrives \/ ReadArrives  PROVE Goal
  <2>1. events # <<>> /\ events' = Tail(events)
    BY <1>8 DEF SessionArrives, ReadArrives
  <2>2. Head(events).session \in Sessions
    <3>1. Head(events) \in Event
      BY <1>t, <2>1
    <3> QED  BY <3>1 DEF Event
  <2> QED  BY <1>1, <1>q, <1>8, <2>1, <2>2 DEF SessionArrives, ReadArrives
<1>9. ASSUME MessageArrives  PROVE Goal
  <2> DEFINE j == Head(events).session
  <2>1. events # <<>> /\ events' = Tail(events) /\ Head(events).kind = "message" /\ UNCHANGED session
    BY <1>9 DEF MessageArrives, server
  <2>2. j \in Sessions
    <3>1. Head(events) \in Event
      BY <1>t, <2>1
    <3> QED  BY <3>1 DEF Event
  <2>3. (CASE j \notin active -> UNCHANGED <<badge, reads>>
           [] j \in active /\ Viewing(j) -> MarkRead(j)
           [] OTHER -> badge' = [badge EXCEPT ![j] = @ + 1] /\ UNCHANGED reads)
    BY <1>9 DEF MessageArrives
  <2>4. P = Cardinality(Pending(events', s)) + (IF j = s THEN 1 ELSE 0)
    BY <1>t, <2>1, PendingTail DEF P
  <2>5. Cardinality(Pending(events', s)) = Q
    BY DEF Q
  <2> HIDE DEF j
  <2>6. UNCHANGED badge \/ MarkRead(j) \/ badge' = [badge EXCEPT ![j] = @ + 1]
    BY <2>3
  <2>7. CASE UNCHANGED badge \/ MarkRead(j)
    BY <1>1, <1>q, <2>1, <2>2, <2>7 DEF MarkRead
  <2>8. CASE badge' = [badge EXCEPT ![j] = @ + 1]
    <3>1. badge'[s] = IF j = s THEN badge[s] + 1 ELSE badge[s]
      BY <1>t, <2>2, <2>8
    <3>2. Q <= P
      BY <1>q, <2>1
    <3>3. j = s => Q + 1 = P
      BY <2>4, <2>5
    <3> QED  BY <2>1, <3>1, <3>2, <3>3
  <2> QED  BY <2>6, <2>7, <2>8
<1>10. ASSUME Reconnect  PROVE Goal
  <2>1. Q <= P
    BY <1>t, <1>q, <1>10 DEF Reconnect
  <2> QED  BY <1>1, <1>10, <2>1 DEF Reconnect, screen
<1>12. ASSUME NEW j \in Sessions, JoinServed(j)  PROVE Goal
  BY <1>1, <1>s, <1>12 DEF JoinServed, screen
<1>11. Goal
  BY <1>2, <1>3, <1>4, <1>5, <1>6, <1>7, <1>8, <1>9, <1>10, <1>12 DEF Next, Deliver
<1> QED  BY <1>11 DEF P, Q

(* So a message is counted once by the page and once by the server.         *)
LEMMA BadgesStep ==
    ASSUME TypeOK, MarksInv, BadgesInv, [Next]_vars
    PROVE  BadgesInv' /\ badge' \in [Sessions -> 0 .. 2 * MaxMessages]
<1>1. ASSUME NEW s \in Sessions
      PROVE  /\ refresh'.counts[s] <= AtLeastOne(session'[s].messages)
             /\ Cardinality(Pending(events', s)) <= session'[s].messages
             /\ badge'[s] + Cardinality(Pending(events', s)) <=
                  IF session'[s].messages = 0 THEN 1 ELSE 2 * session'[s].messages
             /\ badge'[s] \in 0 .. 2 * MaxMessages
  <2> DEFINE P == Cardinality(Pending(events, s))
             Q == Cardinality(Pending(events', s))
             n == session[s].messages
             m == session'[s].messages
             b == badge[s]
             c == badge'[s]
             Cap(k) == IF k = 0 THEN 1 ELSE 2 * k
  <2>t. /\ n \in 0 .. MaxMessages /\ m \in 0 .. MaxMessages /\ MaxMessages \in Nat \ {0}
        /\ b \in 0 .. 2 * MaxMessages /\ P \in Nat /\ Q \in Nat
        /\ refresh.counts[s] \in 0 .. MaxMessages
    <3>1. session[s] \in SessionRows /\ session'[s] \in SessionRows
      BY Onward DEF TypeOK, SessionRows
    <3>2. events \in Seq(Event) /\ events' \in Seq(Event)
      BY EventsStep DEF TypeOK
    <3>3. P \in Nat /\ Q \in Nat
      BY <3>2, PendingFinite
    <3>4. b \in 0 .. 2 * MaxMessages /\ refresh.counts[s] \in 0 .. MaxMessages
      BY DEF TypeOK
    <3>5. n \in 0 .. MaxMessages /\ m \in 0 .. MaxMessages
      BY <3>1 DEF SessionRows
    <3> QED  BY <3>3, <3>4, <3>5, DeskAssumption
  <2>i. refresh.counts[s] <= AtLeastOne(n) /\ P <= n /\ b + P <= Cap(n)
    BY DEF BadgesInv
  <2>m. m = n \/ (GuestWrites(s) /\ m = n + 1)
    BY Onward
  <2>1. refresh'.counts[s] <= AtLeastOne(m)
    <3>1. refresh'.counts[s] = refresh.counts[s] \/ refresh'.counts[s] = 0
          \/ (UNCHANGED session /\ \E status : refresh'.counts[s] = Unread(s, status))
      BY RefreshForms DEF NoCounts, server
    <3>2. \A status : Unread(s, status) <= AtLeastOne(n)
      BY UnreadCount
    <3> QED  BY <2>t, <2>i, <2>m, <3>1, <3>2 DEF AtLeastOne
  <2>w. \/ c \in {0, b} /\ Q <= P
        \/ c = b /\ GuestWrites(s) /\ Q <= P + 1
        \/ c = b + 1 /\ m = n /\ Q + 1 = P
        \/ c = refresh.counts[s] /\ m = n /\ Q = P
    <3>1. CASE UNCHANGED vars
      BY <2>t, <3>1 DEF vars, screen, network
    <3>2. CASE Next
      <4>1. ListArrives => m = n /\ Q = P
        BY DEF ListArrives, server
      <4> QED  BY <3>2, <4>1, WhoCounts
    <3> QED  BY <3>1, <3>2
  <2>g. GuestWrites(s) => m = n + 1
    <3>1. session[s] \in SessionRows
      BY DEF TypeOK, SessionRows
    <3>2. GuestWrites(s) => session'[s] = [session[s] EXCEPT !.messages = session[s].messages + 1]
      BY DEF GuestWrites, TypeOK
    <3> QED  BY <3>1, <3>2 DEF SessionRows
  <2> HIDE DEF P, Q, n, m, b, c
  <2>2. Q <= m
    BY <2>t, <2>i, <2>m, <2>w, <2>g
  <2>3. c + Q <= Cap(m) /\ c \in Nat
    BY <2>t, <2>i, <2>m, <2>w, <2>g DEF AtLeastOne
  <2>4. c \in 0 .. 2 * MaxMessages
    BY <2>t, <2>3
  <2> QED  BY <2>1, <2>2, <2>3, <2>4 DEF P, Q, n, m, b, c
<1>2. badge' \in [Sessions -> 0 .. 2 * MaxMessages]
  <2>1. badge' = [s \in Sessions |-> badge'[s]]
    BY BadgeForm
  <2>2. \A s \in Sessions : badge'[s] \in 0 .. 2 * MaxMessages
    BY <1>1
  <2> QED  BY <2>1, <2>2
<1> QED  BY <1>1, <1>2 DEF BadgesInv

-----------------------------------------------------------------------------
(* New sessions.                                                           *)

(* A session is new once: a list that does not show it any more was read    *)
(* after it was taken, and so is every later one (findNewWaitingSessions).  *)
LEMMA KnownStep ==
    ASSUME TypeOK, MarksInv, KnownInv, [Next]_vars
    PROVE  KnownInv' /\ announced' \in [Sessions -> Nat]
<1>t. /\ announced \in [Sessions -> Nat] /\ refresh.rows \in [Sessions -> Row]
      /\ session \in [Sessions -> SessionRows]
  BY DEF TypeOK, SessionRows
<1>w. ListArrives \/ UNCHANGED <<known, announced>>
  BY WhoWrites DEF vars, screen
<1>1. announced' \in [Sessions -> Nat]
  BY <1>t, <1>w DEF ListArrives
<1>2. ASSUME NEW s \in Sessions
      PROVE  /\ announced'[s] <= 1
             /\ announced'[s] = 1 => known' # None
             /\ refresh'.rows[s].status = "WAITING" => session'[s].status # "absent"
             /\ announced'[s] = 1 \/ (known' # None /\ s \in known') =>
                  /\ session'[s].status # "absent"
                  /\ refresh'.phase # "idle" /\ refresh'.rows[s].status # "WAITING" =>
                       session'[s].status \in {"ACTIVE", "ENDED"}
             /\ announced'[s] = 1 /\ s \notin known' =>
                  /\ session'[s].status \in {"ACTIVE", "ENDED"}
                  /\ refresh'.phase # "idle" => refresh'.rows[s].status # "WAITING"
  <2>i. /\ announced[s] <= 1
        /\ announced[s] = 1 => known # None
        /\ refresh.rows[s].status = "WAITING" => session[s].status # "absent"
        /\ announced[s] = 1 \/ (known # None /\ s \in known) =>
             /\ session[s].status # "absent"
             /\ refresh.phase # "idle" /\ refresh.rows[s].status # "WAITING" => Taken(s)
        /\ announced[s] = 1 /\ s \notin known =>
             /\ Taken(s)
             /\ refresh.phase # "idle" => refresh.rows[s].status # "WAITING"
    BY DEF KnownInv
  <2>o. /\ Taken(s) => session'[s].status \in {"ACTIVE", "ENDED"}
        /\ session[s].status # "absent" => session'[s].status # "absent"
    BY Onward
  <2>1. CASE ListArrives
    <3>1. /\ refresh.phase = "counted" /\ refresh'.phase = "idle" /\ refresh'.rows[s].status = "absent"
          /\ UNCHANGED session
          /\ known' = WaitingIn(refresh.rows)
          /\ announced'[s] = announced[s] + (IF s \in NewWaiting(refresh.rows) THEN 1 ELSE 0)
      BY <2>1 DEF ListArrives, Idle, NoRows, NoRow, server
    <3>2. known' # None
      BY <3>1, DeskAssumption DEF WaitingIn
    <3>3. s \in known' <=> refresh.rows[s].status = "WAITING"
      BY <3>1 DEF WaitingIn
    <3>4. s \in NewWaiting(refresh.rows) => known # None /\ s \notin known /\ s \in known'
      BY <3>1 DEF NewWaiting
    <3>5. announced[s] = 1 => s \notin NewWaiting(refresh.rows)
      BY <2>i, <3>1, <3>3, <3>4
    <3>6. announced'[s] <= 1
      BY <1>t, <2>i, <3>1, <3>5
    <3>7. announced'[s] = 1 => announced[s] = 1 \/ s \in known'
      BY <1>t, <3>1, <3>4
    <3> QED  BY <2>i, <3>1, <3>2, <3>3, <3>6, <3>7 DEF Taken
  <2>2. ASSUME UNCHANGED <<known, announced>>, UNCHANGED refresh
        PROVE  /\ announced'[s] <= 1
               /\ announced'[s] = 1 => known' # None
               /\ refresh'.rows[s].status = "WAITING" => session'[s].status # "absent"
               /\ announced'[s] = 1 \/ (known' # None /\ s \in known') =>
                    /\ session'[s].status # "absent"
                    /\ refresh'.phase # "idle" /\ refresh'.rows[s].status # "WAITING" =>
                         session'[s].status \in {"ACTIVE", "ENDED"}
               /\ announced'[s] = 1 /\ s \notin known' =>
                    /\ session'[s].status \in {"ACTIVE", "ENDED"}
                    /\ refresh'.phase # "idle" => refresh'.rows[s].status # "WAITING"
    BY <2>2, <2>i, <2>o
  <2>3. CASE UNCHANGED <<known, announced>> /\ refresh' = Idle
    <3>1. refresh'.phase = "idle" /\ refresh'.rows[s].status = "absent"
      BY <2>3 DEF Idle, NoRows, NoRow
    <3> QED  BY <2>3, <2>i, <2>o, <3>1
  <2>4. CASE UNCHANGED <<known, announced>> /\ UNCHANGED server /\ refresh' = Listed
    <3>1. refresh'.rows[s] = IF Visible(s) THEN RowOf(s) ELSE NoRow
      BY <2>4, RefreshForms DEF Listed
    <3>2. session[s].status \in Statuses /\ UNCHANGED session
      BY <1>t, <2>4 DEF SessionRows, server
    <3>3. refresh'.rows[s].status = "WAITING" <=> session[s].status = "WAITING"
      BY <3>1, <3>2, RowsAreTruthful DEF Visible, Open
    <3>4. session[s].status \notin {"absent", "WAITING"} => Taken(s)
      BY <3>2 DEF Statuses, Taken
    <3> QED  BY <2>4, <2>i, <2>o, <3>2, <3>3, <3>4 DEF Taken
  <2>5. CASE UNCHANGED <<known, announced>> /\ refresh'.rows = refresh.rows /\ refresh.phase = "listed"
    BY <2>5, <2>i, <2>o
  <2> QED  BY <1>w, <2>1, <2>2, <2>3, <2>4, <2>5, RefreshForms
<1> QED  BY <1>1, <1>2 DEF KnownInv, Taken

-----------------------------------------------------------------------------
(* Types, and the theorems.                                                *)

(* The rest of the page's state.                                           *)
LEMMA ScreenTypes ==
    ASSUME TypeOK, [Next]_vars
    PROVE  /\ list' \in [Sessions -> Row]
           /\ known' = None \/ known' \subseteq Sessions
           /\ active' \subseteq Sessions
           /\ opening' \in [Sessions -> {"no", "asked", "granted", "refused"}]
           /\ selected' \in Sessions \cup {None}
           /\ role' \in {"AGENT", "ADMIN"}
<1>1. list' \in [Sessions -> Row]
  <2>1. CASE SessionArrives
    <3> DEFINE e == Head(events)
    <3>1. e \in Event /\ e.kind = "session"
      BY <2>1 DEF SessionArrives, TypeOK
    <3>2. e.row \in Row
      BY <3>1 DEF Event
    <3>3. list' = list \/ list' = [list EXCEPT ![e.session] = e.row]
      BY <2>1 DEF SessionArrives
    <3> QED  BY <3>2, <3>3 DEF TypeOK
  <2>2. CASE ListArrives \/ UNCHANGED list
    BY <2>2 DEF ListArrives, TypeOK
  <2> QED  BY <2>1, <2>2, WhoWrites DEF Listing, vars, screen
<1>2. /\ known' = None \/ known' \subseteq Sessions
      /\ active' \subseteq Sessions
  <2>1. CASE ListArrives
    BY <2>1 DEF ListArrives, WaitingIn, MineIn
  <2>2. CASE UNCHANGED <<known, active>>
    BY <2>2 DEF TypeOK
  <2> QED  BY <2>1, <2>2, WhoWrites DEF vars, screen
<1>3. opening' \in [Sessions -> {"no", "asked", "granted", "refused"}]
  <2>t. opening \in [Sessions -> {"no", "asked", "granted", "refused"}]
    BY DEF TypeOK
  <2>1. ASSUME NEW s \in Sessions, NEW phase \in {"no", "asked", "granted", "refused"},
               opening' = [opening EXCEPT ![s] = phase]
        PROVE  opening' \in [Sessions -> {"no", "asked", "granted", "refused"}]
    BY <2>t, <2>1
  <2>2. ASSUME NEW s \in Sessions, ServeOpen(s) \/ ChooseWaiting(s)
        PROVE  \E phase \in {"no", "asked", "granted", "refused"} : opening' = [opening EXCEPT ![s] = phase]
    BY <2>2 DEF ServeOpen, ChooseWaiting
  <2>3. CASE UNCHANGED opening
    BY <2>t, <2>3
  <2> QED  BY <2>1, <2>2, <2>3, WhoWrites DEF vars
<1>4. selected' \in Sessions \cup {None}
  BY WhoWrites DEF Selects, Choose, Opened, Select, TypeOK, vars, screen
<1>5. role' \in {"AGENT", "ADMIN"}
  BY WhoWrites DEF TypeOK, vars, server
<1> QED  BY <1>1, <1>2, <1>3, <1>4, <1>5

(* The socket's joins and rooms, the window, and the faults.               *)
LEMMA OtherTypes ==
    ASSUME TypeOK, [Next]_vars
    PROVE  joins' \subseteq Sessions /\ rooms' \subseteq Sessions /\ looking' \in BOOLEAN /\ faults' \in 0 .. MaxFaults
<1> DEFINE Goal == joins' \subseteq Sessions /\ rooms' \subseteq Sessions /\ looking' \in BOOLEAN /\ faults' \in 0 .. MaxFaults
<1>1. ASSUME UNCHANGED <<joins, rooms, looking, faults>>  PROVE Goal
  BY <1>1 DEF TypeOK
<1>f. ASSUME UNCHANGED <<joins, rooms, looking>>, faults < MaxFaults, faults' = faults + 1  PROVE Goal
  BY <1>f, DeskAssumption DEF TypeOK
<1>2. ASSUME NEW s \in Sessions, Elsewhere(s)  PROVE Goal
  BY <1>1, <1>2 DEF Elsewhere, GuestStarts, GuestWrites, Ends, ReadElsewhere, OpenedElsewhere, network, screen
<1>3. ASSUME NEW s \in Sessions, Opening(s)  PROVE Goal
  <2>1. CASE ServeOpen(s) \/ Opened(s)
    BY <1>1, <2>1 DEF ServeOpen, Opened, network, screen
  <2>2. CASE NotOpened(s)
    BY <1>1, <1>f, <2>2 DEF NotOpened, network, screen
  <2> QED  BY <1>3, <2>1, <2>2 DEF Opening
<1>4. ASSUME NEW r \in reads, Serve(r) \/ ReadFails(r)  PROVE Goal
  BY <1>1, <1>f, <1>4 DEF Serve, StampRead, StoreRead, ReadFails, network, screen
<1>5. ASSUME Poll \/ Count \/ RefreshFails  PROVE Goal
  BY <1>1, <1>5 DEF Poll, Count, RefreshFails, network, screen
<1>6. ASSUME ListArrives  PROVE Goal
  BY <1>6 DEF ListArrives, MineIn, TypeOK
<1>7. ASSUME Agent  PROVE Goal
  BY <1>7 DEF Agent, Choose, ChooseWaiting, Deselect, LookAway, LookBack, network, screen, TypeOK
<1>8. ASSUME Deliver  PROVE Goal
  BY <1>1, <1>8 DEF Deliver, SessionArrives, ReadArrives, MessageArrives
<1>9. ASSUME NEW s \in Sessions, JoinServed(s)  PROVE Goal
  BY <1>9 DEF JoinServed, screen, TypeOK
<1>10. ASSUME Reconnect  PROVE Goal
  BY <1>10, DeskAssumption DEF Reconnect, screen, TypeOK
<1>11. ASSUME UNCHANGED vars  PROVE Goal
  BY <1>1, <1>11 DEF vars, network, screen
<1> QED  BY <1>2, <1>3, <1>4, <1>5, <1>6, <1>7, <1>8, <1>9, <1>10, <1>11 DEF Next

(* Together they are inductive.                                            *)
LEMMA DeskStep == ASSUME DeskInv, [Next]_vars  PROVE DeskInv'
<1>1. TypeOK /\ OwnersInv /\ MarksInv /\ BadgesInv /\ KnownInv
  BY DEF DeskInv
<1>2. session' \in [Sessions -> SessionRows]
  <2>1. session' = [s \in Sessions |-> session'[s]]
    <3> DEFINE Goal == session' = [s \in Sessions |-> session'[s]]
    <3>t. session = [s \in Sessions |-> session[s]]
      BY <1>1 DEF TypeOK
    <3>1. ASSUME UNCHANGED session  PROVE Goal
      BY <3>t, <3>1
    <3>2. ASSUME NEW s, NEW status, NEW owner, Change(s, status, owner)  PROVE Goal
      BY <3>t, <3>2 DEF Change
    <3>3. ASSUME NEW s, NEW v, session' = [session EXCEPT ![s].read = v]  PROVE Goal
      BY <3>t, <3>3
    <3>4. ASSUME NEW s, GuestStarts(s) \/ GuestWrites(s)  PROVE Goal
      BY <3>t, <3>4 DEF GuestStarts, GuestWrites
    <3>5. ASSUME NEW s \in Sessions,
                 \/ Ends(s) \/ ReadElsewhere(s)
                 \/ ServeOpen(s) \/ \E a \in Agents : OpenedElsewhere(s, a)
          PROVE  Goal
      BY <3>1, <3>2, <3>3, <3>5 DEF Ends, ReadElsewhere, ServeOpen, OpenedElsewhere
    <3>6. ASSUME NEW r \in reads, StoreRead(r)  PROVE Goal
      BY <3>3, <3>6 DEF StoreRead
    <3>7. ASSUME Next  PROVE Goal
      BY <1>1, <3>1, <3>4, <3>5, <3>6, <3>7, WhoWrites DEF Server
    <3> QED  BY <1>1, <3>1, <3>7 DEF vars, server
  <2>2. \A s \in Sessions : session'[s] \in SessionRows
    BY <1>1, Onward
  <2> QED  BY <2>1, <2>2
<1>3. TypeOK'
  <2>1. /\ refresh' \in Refreshes
        /\ reads' \subseteq [session : Sessions, stamp : {None} \cup 0 .. MaxMessages]
        /\ events' \in Seq(Event) /\ Len(events') <= MaxEvents
        /\ badge' \in [Sessions -> 0 .. 2 * MaxMessages]
        /\ announced' \in [Sessions -> Nat]
    BY <1>1, RefreshForms, MarksStep, EventsStep, BadgesStep, KnownStep
  <2> QED  BY <1>1, <1>2, <2>1, ScreenTypes, OtherTypes DEF TypeOK, SessionRows, Refreshes
<1> QED  BY <1>1, <1>3, OwnersStep, MarksStep, BadgesStep, KnownStep DEF DeskInv

(* The invariant holds throughout.                                         *)
LEMMA DeskInvariant == Spec => []DeskInv
<1>1. Init => DeskInv
  <2> SUFFICES ASSUME Init  PROVE DeskInv
    OBVIOUS
  <2>r. NoRow \in Row /\ 0 \in 0 .. MaxMessages /\ 0 \in 0 .. 2 * MaxMessages /\ 0 \in 0 .. MaxFaults
        /\ <<>> \in Seq(Event) /\ Len(<<>>) = 0 /\ 0 <= MaxEvents
    BY DeskAssumption DEF NoRow, Row, Statuses, Owners
  <2>1. TypeOK
    <3>1. Idle \in Refreshes
      BY <2>r DEF Idle, Refreshes, NoRows, NoCounts
    <3>2. NoRows \in [Sessions -> Row] /\ NoCounts \in [Sessions -> 0 .. 2 * MaxMessages]
          /\ NoCounts \in [Sessions -> Nat]
      BY <2>r DEF NoRows, NoCounts
    <3>3. session \in [Sessions -> SessionRows]
      BY <2>r DEF Init, SessionRows, Statuses, Owners
    <3> QED  BY <2>r, <3>1, <3>2, <3>3 DEF Init, TypeOK, SessionRows, Refreshes
  <2>2. Idle.rows = NoRows /\ Idle.phase = "idle" /\ Idle.counts = NoCounts
    BY DEF Idle
  <2>3. OwnersInv
    BY <2>2, RowsAreTruthful DEF Init, OwnersInv, NoRows
  <2>4. MarksInv
    BY DEF Init, MarksInv
  <2>5. BadgesInv
    <3>1. \A s \in Sessions : Pending(<<>>, s) = {}
      BY DEF Pending
    <3>2. \A s \in Sessions : Cardinality(Pending(events, s)) = 0
      BY <3>1, FS_EmptySet DEF Init
    <3>3. \A s \in Sessions : /\ session[s].messages = 0 /\ badge[s] = 0
                              /\ refresh.counts[s] = 0
      BY <2>2 DEF Init, NoCounts
    <3> QED  BY <3>2, <3>3 DEF BadgesInv, AtLeastOne
  <2>6. KnownInv
    BY <2>2 DEF Init, KnownInv, NoRows, NoRow, NoCounts
  <2> QED  BY <2>1, <2>3, <2>4, <2>5, <2>6 DEF DeskInv
<1> QED  BY <1>1, DeskStep, PTL DEF Spec

(* The page's state keeps its types; in particular no badge shows more than *)
(* twice the guest's messages, and no mark is ahead of them.                *)
THEOREM DeskTypes == Spec => []TypeOK
<1>1. DeskInv => TypeOK
  BY DEF DeskInv
<1> QED  BY <1>1, DeskInvariant, PTL

(* No screen of an agent shows another's conversation (choose, list, open). *)
THEOREM OwnConversations == Spec => []OnlyOwnConversations
<1>1. DeskInv => OnlyOwnConversations
  BY DEF DeskInv, OwnersInv, OnlyOwnConversations
<1> QED  BY <1>1, DeskInvariant, PTL

(* No session is announced twice: the safety half of                        *)
(* NewSessionIsAnnouncedOnce.                                               *)
THEOREM NoneAnnouncedTwice == Spec => [](\A s \in Sessions : announced[s] <= 1)
<1>1. DeskInv => \A s \in Sessions : announced[s] <= 1
  BY DEF DeskInv, KnownInv
<1> QED  BY <1>1, DeskInvariant, PTL

-----------------------------------------------------------------------------
(* What the page hears.                                                    *)

\* Every session whose messages the page counts has its room joined or asked for;
\* joined and asked for are sessions that are taken, and, like every message on its
\* way, the account's own, unless it is an administrator's.
HeardInv ==
    /\ active \subseteq rooms \cup joins
    /\ \A s \in rooms \cup joins : Taken(s) /\ MayJoin(s)
    /\ \A i \in DOMAIN events :
         events[i].kind = "message" => Taken(events[i].session) /\ MayJoin(events[i].session)

(* A session joined is nobody else's afterwards: only a waiting one is      *)
(* opened, and only a session of the account, or any for an administrator,  *)
(* is joined (authorizeRealtime).                                                  *)
LEMMA JoinedStays ==
    ASSUME TypeOK, MarksInv, [Next]_vars, NEW s \in Sessions, Taken(s), MayJoin(s)
    PROVE  Taken(s)' /\ MayJoin(s)'
<1>1. session'[s].status \in {"ACTIVE", "ENDED"} /\ session'[s].owner = session[s].owner
  BY Onward
<1>2. role' = role
  BY WhoWrites DEF vars, server
<1> QED  BY <1>1, <1>2 DEF Taken, MayJoin

(* The rooms are asked for where the list comes, and again after a          *)
(* reconnection, and joined by the gateway; nothing else writes them.       *)
LEMMA WhoJoins ==
    ASSUME [Next]_vars
    PROVE  \/ ListArrives \/ Reconnect \/ UNCHANGED <<joins, rooms, active>>
           \/ \E s \in Sessions : JoinServed(s)
<1>1. ASSUME NEW s \in Sessions, Elsewhere(s) PROVE UNCHANGED <<joins, rooms, active>>
  BY <1>1 DEF Elsewhere, GuestStarts, GuestWrites, Ends, ReadElsewhere, OpenedElsewhere, network, screen
<1>2. ASSUME NEW s \in Sessions, Opening(s) PROVE UNCHANGED <<joins, rooms, active>>
  BY <1>2 DEF Opening, ServeOpen, Opened, NotOpened, network, screen
<1>3. ASSUME NEW r \in reads, Serve(r) \/ ReadFails(r) PROVE UNCHANGED <<joins, rooms, active>>
  BY <1>3 DEF Serve, StampRead, StoreRead, ReadFails, network, screen
<1>4. CASE Poll \/ Count \/ RefreshFails
  BY <1>4 DEF Poll, Count, RefreshFails, network, screen
<1>5. CASE Agent
  BY <1>5 DEF Agent, Choose, ChooseWaiting, Deselect, LookAway, LookBack, network, screen
<1>6. CASE Deliver
  BY <1>6 DEF Deliver, SessionArrives, ReadArrives, MessageArrives
<1>7. CASE UNCHANGED vars
  BY <1>7 DEF vars, network, screen
<1>8. CASE \E s \in Sessions : JoinServed(s)
  BY <1>8
<1> QED  BY <1>1, <1>2, <1>3, <1>4, <1>5, <1>6, <1>7, <1>8 DEF Next

(* A message comes to the queue from a session whose room is joined, and    *)
(* from nowhere else.                                                       *)
LEMMA MessagesCome ==
    ASSUME TypeOK, [Next]_vars, NEW i \in DOMAIN events', events'[i].kind = "message"
    PROVE  \/ \E j \in DOMAIN events : events'[i] = events[j]
           \/ \E s \in rooms : events'[i] = [kind |-> "message", session |-> s]
<1>t. events \in Seq(Event)
  BY DEF TypeOK
<1>1. ASSUME NEW e, events' = Append(events, e), e = events'[i] => \E s \in rooms : e = [kind |-> "message", session |-> s]
      PROVE  \/ \E j \in DOMAIN events : events'[i] = events[j]
             \/ \E s \in rooms : events'[i] = [kind |-> "message", session |-> s]
  <2>1. /\ DOMAIN events' = 1 .. Len(events) + 1 /\ Len(events) \in Nat
        /\ DOMAIN events = 1 .. Len(events)
        /\ events'[Len(events) + 1] = e
        /\ \A j \in 1 .. Len(events) : events'[j] = events[j]
    BY <1>t, <1>1
  <2> QED  BY <1>1, <2>1
<1>2. ASSUME NEW s \in Sessions, GuestWrites(s)
      PROVE  \/ UNCHANGED events
             \/ s \in rooms /\ events' = Append(events, [kind |-> "message", session |-> s])
  BY <1>2 DEF GuestWrites
<1>3. ASSUME NEW s, events' = Append(events, ToldOf(s)) \/ events' = Append(events, [kind |-> "read", session |-> s])
      PROVE  \E e : events' = Append(events, e) /\ e.kind # "message"
  BY <1>3 DEF ToldOf
<1>4. CASE events # <<>> /\ events' = Tail(events)
  <2>1. /\ DOMAIN events' = 1 .. Len(events) - 1 /\ Len(events) \in Nat \ {0}
        /\ DOMAIN events = 1 .. Len(events)
        /\ \A j \in 1 .. Len(events) - 1 : events'[j] = events[j + 1]
    BY <1>t, <1>4
  <2> QED  BY <2>1
<1>5. CASE events' = <<>>
  BY <1>5
<1>6. CASE UNCHANGED events
  BY <1>6
<1>7. CASE \E s \in Sessions : GuestWrites(s)
  BY <1>1, <1>2, <1>6, <1>7
<1>8. CASE \E s \in Sessions : \/ events' = Append(events, ToldOf(s))
                              \/ events' = Append(events, [kind |-> "read", session |-> s])
  BY <1>1, <1>3, <1>8
<1> QED  BY <1>4, <1>5, <1>6, <1>7, <1>8, WhoSends DEF vars, network

(* The list, whose rows are truthful, brings only sessions of the account;  *)
(* and a reconnection asks again for what the page counts.                  *)
LEMMA HeardStep ==
    ASSUME TypeOK, MarksInv, OwnersInv, HeardInv, [Next]_vars
    PROVE  HeardInv'
<1>r. role' = role
  BY WhoWrites DEF vars, server
<1>s. active \subseteq Sessions /\ joins \cup rooms \subseteq Sessions /\ events \in Seq(Event)
  BY DEF TypeOK
<1>1. active' \subseteq rooms' \cup joins' /\ \A s \in rooms' \cup joins' : Taken(s) /\ MayJoin(s)
  <2>1. CASE ListArrives
    <3>1. /\ active' = MineIn(refresh.rows)
          /\ joins' = joins \cup (active' \ rooms) /\ rooms' = rooms
      BY <2>1 DEF ListArrives
    <3>2. ASSUME NEW s \in active' PROVE Taken(s) /\ MayJoin(s)
      BY <3>1, <3>2 DEF MineIn, OwnersInv, Truthful, MayJoin
    <3> QED  BY <3>1, <3>2 DEF HeardInv
  <2>2. CASE Reconnect
    <3>1. rooms' = {} /\ joins' = active /\ active' = active
      BY <2>2 DEF Reconnect, screen
    <3> QED  BY <3>1 DEF HeardInv
  <2>3. ASSUME NEW s \in Sessions, JoinServed(s)
        PROVE  active' \subseteq rooms' \cup joins' /\ \A o \in rooms' \cup joins' : Taken(o) /\ MayJoin(o)
    <3>1. MayJoin(s) /\ s \in joins
      BY <2>3 DEF JoinServed, HeardInv
    <3>2. joins' = joins \ {s} /\ rooms' = rooms \cup {s} /\ active' = active
      BY <2>3, <3>1 DEF JoinServed, screen
    <3> QED  BY <3>1, <3>2 DEF HeardInv
  <2> QED  BY <2>1, <2>2, <2>3, WhoJoins DEF HeardInv
<1>2. rooms' \cup joins' \subseteq Sessions
  BY OtherTypes
<1>3. \A s \in rooms' \cup joins' : Taken(s)' /\ MayJoin(s)'
  BY <1>1, <1>2, JoinedStays
<1> DEFINE Own(s) == /\ session'[s].status \in {"ACTIVE", "ENDED"}
                     /\ role' = "ADMIN" \/ session'[s].owner = me
<1>o. \A s \in Sessions : Taken(s) /\ MayJoin(s) => Own(s)
  BY JoinedStays DEF Taken, MayJoin
<1>4. ASSUME NEW i \in DOMAIN events', events'[i].kind = "message"
      PROVE  Own(events'[i].session)
  <2> HIDE DEF Own
  <2>1. ASSUME NEW j \in DOMAIN events, events'[i] = events[j]
        PROVE  Own(events'[i].session)
    <3>1. events[j] \in Event
      BY <1>s
    <3>2. events[j].session \in Sessions
      BY <3>1 DEF Event
    <3>3. Taken(events[j].session) /\ MayJoin(events[j].session)
      BY <1>4, <2>1 DEF HeardInv
    <3> QED  BY <1>o, <2>1, <3>2, <3>3
  <2>2. ASSUME NEW s \in rooms, events'[i] = [kind |-> "message", session |-> s]
        PROVE  Own(events'[i].session)
    <3>1. Own(s)
      BY <1>o, <1>s DEF HeardInv
    <3> QED  BY <2>2, <3>1
  <2> QED  BY <1>4, <2>1, <2>2, MessagesCome
<1> QED  BY <1>1, <1>3, <1>4 DEF HeardInv, Taken, MayJoin

(* Whatever events, lists and reconnections come in which order, while the  *)
(* socket is connected: of every session whose messages the page counts, it *)
(* is in the room or has asked to join it; what it has asked for is granted *)
(* whenever the gateway gets to it, though the list it was asked for after  *)
(* may be old by then;                                                      *)
(* and no message of another agent's session is sent to an agent's page     *)
(* (refresh, joinAssignedSessions, authorizeRealtime, the gateway's rooms).  *)
THEOREM HearsItsOwn ==
    Spec => [](/\ active \subseteq rooms \cup joins
               /\ \A s \in joins : MayJoin(s)
               /\ role = "AGENT" =>
                    \A i \in DOMAIN events : events[i].kind = "message" =>
                        session[events[i].session].owner = me)
<1> DEFINE Own == /\ active \subseteq rooms \cup joins
                  /\ \A s \in joins : MayJoin(s)
                  /\ role = "AGENT" =>
                       \A i \in DOMAIN events : events[i].kind = "message" =>
                           session[events[i].session].owner = me
<1>1. Init => HeardInv
  BY DEF Init, HeardInv
<1>2. DeskInv /\ HeardInv /\ [Next]_vars => HeardInv'
  BY HeardStep DEF DeskInv
<1>3. HeardInv => Own
  BY DEF HeardInv, MayJoin
<1> QED  BY <1>1, <1>2, <1>3, DeskInvariant, PTL DEF Spec

-----------------------------------------------------------------------------
(* The server of this module and the one of ChatSessions.                  *)

\* A session as SessionLifecycle has it: each in a room of its own, for rooms and
\* windows are left out here; which of the two ends it came to, the page does
\* not tell apart.
ContractStatus(status) ==
    CASE status = "absent" -> "UNUSED" [] status = "ENDED" -> "CLOSED" [] OTHER -> status
ContractRow(s, row) ==
    [room |-> IF row.status = "absent" THEN None ELSE s, status |-> ContractStatus(row.status),
     agent |-> row.owner, timed |-> FALSE]
ContractRows == [s \in Sessions |-> ContractRow(s, session[s])]
Contract == INSTANCE SessionLifecycle WITH session <- ContractRows, Rooms <- Sessions

\* Nobody has a session that is not opened.
FreeInv == \A s \in Sessions : session[s].status \in {"absent", "WAITING"} => session[s].owner = None

\* One row moves as the contract allows, and no other.
RowMoves(s) ==
    /\ \A o \in Sessions \ {s} : session'[o].status = session[o].status /\ session'[o].owner = session[o].owner
    /\ \/ session'[s].status = session[s].status /\ session'[s].owner = session[s].owner
       \/ session[s].status = "absent" /\ session'[s].status = "WAITING" /\ session'[s].owner = session[s].owner
       \/ session[s].status = "WAITING" /\ session'[s].status = "ACTIVE" /\ session'[s].owner \in Agents
       \/ Open(s) /\ session'[s].status = "ENDED" /\ session'[s].owner = session[s].owner

(* Every statement of the server moves one row, one step on.                *)
LEMMA ServerMoves ==
    ASSUME TypeOK, [Next]_vars
    PROVE  UNCHANGED session \/ \E s \in Sessions : RowMoves(s)
<1>t. session \in [Sessions -> SessionRows]
  BY DEF TypeOK, SessionRows
<1>1. ASSUME NEW s \in Sessions, NEW status, NEW owner, Change(s, status, owner),
             \/ session[s].status = "WAITING" /\ status = "ACTIVE" /\ owner \in Agents
             \/ Open(s) /\ status = "ENDED" /\ owner = session[s].owner
      PROVE  RowMoves(s)
  <2>1. session'[s] = [[session[s] EXCEPT !.status = status] EXCEPT !.owner = owner]
        /\ \A o \in Sessions \ {s} : session'[o] = session[o]
    BY <1>t, <1>1 DEF Change
  <2>2. session[s] \in SessionRows
    BY <1>t
  <2>3. session'[s].status = status /\ session'[s].owner = owner
    BY <2>1, <2>2 DEF SessionRows
  <2> QED  BY <1>1, <2>1, <2>3 DEF RowMoves
<1>2. ASSUME NEW s \in Sessions, NEW v, session' = [session EXCEPT ![s].read = v]
      PROVE  RowMoves(s)
  <2>1. session'[s] = [session[s] EXCEPT !.read = v] /\ \A o \in Sessions \ {s} : session'[o] = session[o]
    BY <1>t, <1>2
  <2>2. session[s] \in SessionRows
    BY <1>t
  <2>3. session'[s].status = session[s].status /\ session'[s].owner = session[s].owner
    BY <2>1, <2>2 DEF SessionRows
  <2> QED  BY <2>1, <2>3 DEF RowMoves
<1>3. ASSUME NEW s \in Sessions, GuestWrites(s) PROVE RowMoves(s)
  <2>1. session'[s] = [session[s] EXCEPT !.messages = session[s].messages + 1]
        /\ \A o \in Sessions \ {s} : session'[o] = session[o]
    BY <1>t, <1>3 DEF GuestWrites
  <2>2. session[s] \in SessionRows
    BY <1>t
  <2>3. session'[s].status = session[s].status /\ session'[s].owner = session[s].owner
    BY <2>1, <2>2 DEF SessionRows
  <2> QED  BY <2>1, <2>3 DEF RowMoves
<1>4. ASSUME NEW s \in Sessions, GuestStarts(s) PROVE RowMoves(s)
  <2>1. session'[s] = [session[s] EXCEPT !.status = "WAITING"] /\ session[s].status = "absent"
        /\ \A o \in Sessions \ {s} : session'[o] = session[o]
    BY <1>t, <1>4 DEF GuestStarts
  <2>2. session[s] \in SessionRows
    BY <1>t
  <2>3. session'[s].status = "WAITING" /\ session'[s].owner = session[s].owner
    BY <2>1, <2>2 DEF SessionRows
  <2> QED  BY <2>1, <2>3 DEF RowMoves
<1>5. ASSUME NEW s \in Sessions, Ends(s) \/ ReadElsewhere(s) PROVE RowMoves(s)
  BY <1>1, <1>2, <1>5 DEF Ends, ReadElsewhere
<1>6. ASSUME NEW s \in Sessions, ServeOpen(s) \/ \E a \in Agents : OpenedElsewhere(s, a)
      PROVE  UNCHANGED session \/ RowMoves(s)
  BY <1>1, <1>6, DeskAssumption DEF ServeOpen, OpenedElsewhere
<1>7. ASSUME NEW r \in reads, StoreRead(r) PROVE \E s \in Sessions : RowMoves(s)
  <2>1. r.session \in Sessions
    BY DEF TypeOK
  <2> QED  BY <1>2, <1>7, <2>1 DEF StoreRead
<1>8. CASE UNCHANGED vars
  BY <1>8 DEF vars, server
<1> QED  BY <1>3, <1>4, <1>5, <1>6, <1>7, <1>8, WhoWrites DEF Server

(* Whether a session is free stays with its status.                         *)
LEMMA FreeStep ==
    ASSUME TypeOK, FreeInv, [Next]_vars
    PROVE  FreeInv'
<1> SUFFICES ASSUME NEW o \in Sessions, session'[o].status \in {"absent", "WAITING"}
             PROVE  session'[o].owner = None
  BY DEF FreeInv
<1>1. ASSUME NEW s \in Sessions, RowMoves(s) PROVE session'[o].owner = None
  <2>1. CASE o # s
    BY <1>1, <2>1 DEF RowMoves, FreeInv
  <2>2. CASE o = s
    BY <1>1, <2>2 DEF RowMoves, FreeInv
  <2> QED  BY <2>1, <2>2
<1> QED  BY <1>1, ServerMoves DEF FreeInv

(* One row's move is one action of the contract.                            *)
LEMMA MovesRefine ==
    ASSUME TypeOK, FreeInv, NEW s \in Sessions, RowMoves(s)
    PROVE  [Contract!Next]_ContractRows
<1> DEFINE old == ContractRow(s, session[s])
           new == ContractRow(s, session'[s])
<1>t. /\ session[s].status \in Statuses
      /\ session[s].owner \in Owners
  BY DEF TypeOK
<1>n. None \notin Sessions /\ None \notin Agents
  BY DeskAssumption
<1>1. ContractRows' = [ContractRows EXCEPT ![s] = new]
  <2>1. \A o \in Sessions \ {s} : ContractRow(o, session'[o]) = ContractRow(o, session[o])
    BY DEF RowMoves, ContractRow
  <2> HIDE DEF new
  <2>2. ContractRows' = [o \in Sessions |-> ContractRow(o, session'[o])]
    BY DEF ContractRows, ContractRow
  <2>3. ContractRow(s, session'[s]) = new
    BY DEF new
  <2> QED  BY <2>1, <2>2, <2>3 DEF ContractRows
<1>2. ContractRows[s] = old /\ ContractRows \in [Sessions -> {ContractRow(o, session[o]) : o \in Sessions}]
  BY DEF ContractRows
<1>3. CASE session'[s].status = session[s].status /\ session'[s].owner = session[s].owner
  <2>1. new = old
    BY <1>3 DEF ContractRow
  <2>2. ContractRows' = ContractRows
    BY <1>1, <1>2, <2>1
  <2> QED  BY <2>2
<1> DEFINE no == old.timed
<1>o. /\ old.room = (IF session[s].status = "absent" THEN None ELSE s)
      /\ old.status = ContractStatus(session[s].status) /\ old.agent = session[s].owner
      /\ old = [room |-> old.room, status |-> old.status, agent |-> old.agent, timed |-> no]
  BY DEF ContractRow
<1>w. /\ new.room = (IF session'[s].status = "absent" THEN None ELSE s)
      /\ new = [room |-> new.room, status |-> ContractStatus(session'[s].status), agent |-> session'[s].owner,
                timed |-> no]
  BY DEF ContractRow
<1>f. Contract!Nothing("WAITING") = [room |-> None, status |-> "WAITING", agent |-> None, timed |-> no]
  BY DEF ContractRow, Contract!Nothing
<1> HIDE DEF old, new, no
<1>4. CASE session[s].status = "absent" /\ session'[s].status = "WAITING" /\ session'[s].owner = session[s].owner
  <2>1. session[s].owner = None
    BY <1>4 DEF FreeInv
  <2>2. old.status = "UNUSED"
    BY <1>o, <1>4 DEF ContractStatus
  <2>3. new = [room |-> s, status |-> "WAITING", agent |-> None, timed |-> no]
    BY <1>w, <1>4, <2>1 DEF ContractStatus
  <2>4. [Contract!Nothing("WAITING") EXCEPT !.room = s] = new
    <3> DEFINE fresh == Contract!Nothing("WAITING")
    <3>1. fresh = [room |-> None, status |-> "WAITING", agent |-> None, timed |-> no]
      BY <1>f
    <3> HIDE DEF fresh
    <3> DEFINE Rows == [room : {None, s}, status : {"WAITING"}, agent : {None}, timed : {no}]
               row == [fresh EXCEPT !.room = s]
    <3>2. fresh \in Rows
      BY <3>1
    <3>3. row \in Rows /\ row.room = s
      BY <3>2
    <3> HIDE DEF row
    <3>4. row = [room |-> s, status |-> "WAITING", agent |-> None, timed |-> no]
      BY <3>3
    <3> QED  BY <2>3, <3>4 DEF row, fresh
  <2>5. Contract!OpenIn(s) = {}
    <3> SUFFICES ASSUME NEW o \in Sessions, ContractRows[o].room = s, ContractRows[o].status \in Contract!Open
                 PROVE  FALSE
      BY DEF Contract!OpenIn
    <3>1. ContractRows[o].room \in {None, o}
      BY DEF ContractRows, ContractRow
    <3>2. o = s
      BY <1>n, <3>1
    <3> QED  BY <1>2, <2>2, <3>2 DEF Contract!Open
  <2>6. Contract!Create(s, s)
    BY <1>1, <1>2, <2>2, <2>4, <2>5 DEF Contract!Create
  <2> QED  BY <2>6 DEF Contract!Next
<1>5. CASE session[s].status = "WAITING" /\ session'[s].status = "ACTIVE" /\ session'[s].owner \in Agents
  <2>1. old.status = "WAITING" /\ old.agent = None /\ old.room = s
    BY <1>o, <1>5 DEF ContractStatus, FreeInv
  <2>2. new = [room |-> s, status |-> "ACTIVE", agent |-> session'[s].owner, timed |-> no]
    BY <1>w, <1>5 DEF ContractStatus
  <2>3. [old EXCEPT !.status = "ACTIVE", !.agent = session'[s].owner] = new
    <3>1. old = [room |-> s, status |-> "WAITING", agent |-> None, timed |-> no]
      BY <1>o, <2>1
    <3> DEFINE a == session'[s].owner
               Rows == [room : {s}, status : {"WAITING", "ACTIVE"}, agent : {None, a}, timed : {no}]
               row == [old EXCEPT !.status = "ACTIVE", !.agent = a]
    <3> HIDE DEF a
    <3>2. old \in Rows
      BY <3>1
    <3>3. row \in Rows /\ row.status = "ACTIVE" /\ row.agent = a
      BY <3>2
    <3> HIDE DEF row
    <3>4. row = [room |-> s, status |-> "ACTIVE", agent |-> a, timed |-> no]
      BY <3>3
    <3> QED  BY <2>2, <3>4 DEF row, a
  <2>4. Contract!Assign(s, session'[s].owner)
    <3>1. ContractRows' = [ContractRows EXCEPT ![s] = [[ContractRows[s] EXCEPT !.status = "ACTIVE"]
                                                          EXCEPT !.agent = session'[s].owner]]
      BY <1>1, <1>2, <2>3
    <3>2. ContractRows' = [ContractRows EXCEPT ![s].status = "ACTIVE", ![s].agent = session'[s].owner]
      BY <1>2, <3>1
    <3> QED  BY <1>2, <2>1, <3>2 DEF Contract!Assign
  <2> QED  BY <1>5, <2>4 DEF Contract!Next
<1>6. CASE Open(s) /\ session'[s].status = "ENDED" /\ session'[s].owner = session[s].owner
  <2>1. old.status \in {"WAITING", "ACTIVE"} /\ old.room = s
    BY <1>o, <1>6 DEF ContractStatus, Open
  <2>2. new = [room |-> s, status |-> "CLOSED", agent |-> session[s].owner, timed |-> no]
    BY <1>w, <1>6 DEF ContractStatus
  <2>3. [old EXCEPT !.status = "CLOSED"] = new
    <3>1. old = [room |-> s, status |-> old.status, agent |-> session[s].owner, timed |-> no]
      BY <1>o, <2>1
    <3> DEFINE a == session[s].owner
               Rows == [room : {s}, status : {"WAITING", "ACTIVE", "CLOSED"}, agent : {a}, timed : {no}]
               row == [old EXCEPT !.status = "CLOSED"]
    <3> HIDE DEF a
    <3>2. old \in Rows
      BY <2>1, <3>1 DEF a
    <3>3. row \in Rows /\ row.status = "CLOSED"
      BY <3>2
    <3> HIDE DEF row
    <3>4. row = [room |-> s, status |-> "CLOSED", agent |-> a, timed |-> no]
      BY <3>3
    <3> QED  BY <2>2, <3>4 DEF row, a
  <2>4. Contract!End(s, "CLOSED")
    BY <1>1, <1>2, <2>1, <2>3 DEF Contract!End, Contract!Open, Contract!Terminal
  <2> QED  BY <2>4 DEF Contract!Next, Contract!Terminal
<1> QED  BY <1>3, <1>4, <1>5, <1>6 DEF RowMoves

(* The server that the page is checked against does to a session only what  *)
(* ChatSessions is proved to do (LifecycleKept): it is created waiting,     *)
(* opened once for one agent, and ended for good.                           *)
THEOREM DeskServerKeepsContract == Spec => Contract!Spec
<1>1. Init => FreeInv /\ Contract!Init
  <2> SUFFICES ASSUME Init PROVE FreeInv /\ Contract!Init
    OBVIOUS
  <2>1. \A s \in Sessions : session[s].status = "absent" /\ session[s].owner = None
    BY DEF Init
  <2>2. \A s \in Sessions : ContractRow(s, session[s]) = Contract!Nothing("UNUSED")
    BY <2>1 DEF ContractRow, ContractStatus, Contract!Nothing
  <2>3. ContractRows = [s \in Sessions |-> Contract!Nothing("UNUSED")]
    BY <2>2 DEF ContractRows
  <2>4. Contract!Nothing("UNUSED") \in Contract!View /\ Contract!Nothing("UNUSED").status = "UNUSED"
    BY DEF Contract!Nothing, Contract!View, Contract!Open, Contract!Terminal
  <2>5. Contract!Init
    BY <2>3, <2>4 DEF Contract!Init, Contract!Open
  <2> QED  BY <2>1, <2>5 DEF FreeInv
<1>2. DeskInv /\ FreeInv /\ [Next]_vars => FreeInv' /\ [Contract!Next]_ContractRows
  <2> SUFFICES ASSUME DeskInv, FreeInv, [Next]_vars
               PROVE  FreeInv' /\ [Contract!Next]_ContractRows
    OBVIOUS
  <2>1. TypeOK
    BY DEF DeskInv
  <2>2. CASE UNCHANGED session
    <3>1. FreeInv'
      BY <2>2 DEF FreeInv
    <3>2. ContractRows' = ContractRows
      BY <2>2 DEF ContractRows, ContractRow
    <3> QED  BY <3>1, <3>2
  <2> QED  BY <2>1, <2>2, FreeStep, ServerMoves, MovesRefine
<1> QED  BY <1>1, <1>2, DeskInvariant, PTL DEF Spec, Contract!Spec
===============================================================================
