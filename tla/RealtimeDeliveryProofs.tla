------------------------ MODULE RealtimeDeliveryProofs ------------------------
(***************************************************************************)
(* What a page shows is stored and of its consultation, and what is stored *)
(* while it stands reaches it: for every number of pages, consultations    *)
(* and messages, and any pattern of broken connections and restarts.       *)
(***************************************************************************)
EXTENDS RealtimeDelivery, TLAPS

\* Stored messages stay stored, and a socket that is still connected belongs to
\* the consultation its page shows.
MessagesInv ==
    \A m \in Messages :
        /\ m \in store => msg[m].stage \in {"stored", "over"}
        /\ msg[m].stage = "stored" => m \in store
        /\ msg[m].alive => /\ msg[m].from \in Pages
                           /\ msg[m].session = page[msg[m].from].session

\* A message may be shown to whom asks for the session.
Fits(m, session) == m \in store /\ msg[m].session = session

\* Nothing else is on the screen, nor on its way to it.
ScreensInv ==
    \A p \in Pages : \A m \in page[p].shown \cup Range(wire[p]) : Fits(m, page[p].session)

\* Each mount of a page asks for its history once; what it gets is of the session
\* it asked for, and a page that has its history waits for no other.
AsksInv ==
    /\ \A ask \in asks :
         /\ ask.mount <= page[ask.page].mounts
         /\ \A m \in ask.answer : Fits(m, ask.session)
         /\ Active(ask) => /\ ask.session = page[ask.page].session
                           /\ ~page[ask.page].loaded
    /\ \A a, b \in asks : a.page = b.page /\ a.mount = b.mount => a = b

\* What is owed to a page is of its consultation, and on its way.
OwedInv ==
    \A p \in Pages : \A m \in owed[p] :
        /\ Fits(m, page[p].session)
        /\ p \notin broken => /\ Steady(p)
                              /\ \/ m \in page[p].shown \/ m \in Range(wire[p])
                                 \/ msg[m].stage = "stored"

DeliveryInv == TypeOK /\ MessagesInv /\ ScreensInv /\ AsksInv /\ OwedInv

-----------------------------------------------------------------------------
(* Lemmas about the operators.                                             *)

(* What is appended to a page's socket, and what is taken from it.         *)
LEMMA AppendRange ==
    ASSUME NEW S, NEW seq \in Seq(S), NEW e \in S
    PROVE  Append(seq, e) \in Seq(S) /\ Range(Append(seq, e)) = Range(seq) \cup {e}
<1> DEFINE longer == Append(seq, e)
<1>1. longer \in Seq(S) /\ Len(longer) = Len(seq) + 1 /\ Len(seq) \in Nat
  OBVIOUS
<1>2. (\A i \in 1 .. Len(seq) : longer[i] = seq[i]) /\ longer[Len(seq) + 1] = e
  OBVIOUS
<1>3. DOMAIN longer = 1 .. Len(seq) + 1 /\ DOMAIN seq = 1 .. Len(seq)
  BY <1>1
<1> HIDE DEF longer
<1>4. DOMAIN longer = DOMAIN seq \cup {Len(seq) + 1}
  BY <1>1, <1>3
<1>5. Range(longer) = {longer[i] : i \in DOMAIN seq} \cup {e}
  BY <1>2, <1>4 DEF Range
<1>6. {longer[i] : i \in DOMAIN seq} = {seq[i] : i \in DOMAIN seq}
  BY <1>2, <1>3
<1> QED  BY <1>1, <1>5, <1>6 DEF Range, longer

LEMMA HeadAndTail ==
    ASSUME NEW S, NEW seq \in Seq(S), seq # <<>>
    PROVE  /\ Head(seq) \in S /\ Tail(seq) \in Seq(S)
           /\ Range(seq) = {Head(seq)} \cup Range(Tail(seq))
<1> DEFINE rest == Tail(seq)
<1>1. Head(seq) = seq[1] /\ Head(seq) \in S /\ rest \in Seq(S) /\ Len(seq) \in Nat \ {0}
  OBVIOUS
<1>2. Len(rest) = Len(seq) - 1 /\ \A i \in 1 .. Len(seq) - 1 : rest[i] = seq[i + 1]
  OBVIOUS
<1>3. DOMAIN rest = 1 .. Len(seq) - 1 /\ DOMAIN seq = 1 .. Len(seq)
  BY <1>1, <1>2
<1> HIDE DEF rest
<1>4. ASSUME NEW x \in Range(seq)  PROVE x = seq[1] \/ x \in Range(rest)
  <2>1. PICK i \in 1 .. Len(seq) : x = seq[i]
    BY <1>3 DEF Range
  <2>2. CASE i # 1
    <3>1. i - 1 \in 1 .. Len(seq) - 1 /\ (i - 1) + 1 = i
      BY <1>1, <2>2
    <3>2. rest[i - 1] = x /\ i - 1 \in DOMAIN rest
      BY <1>2, <1>3, <2>1, <3>1
    <3> QED  BY <3>2 DEF Range
  <2> QED  BY <2>1, <2>2
<1>5. ASSUME NEW x \in Range(rest)  PROVE x \in Range(seq)
  <2>1. PICK i \in 1 .. Len(seq) - 1 : x = rest[i]
    BY <1>3 DEF Range
  <2>2. x = seq[i + 1] /\ i + 1 \in 1 .. Len(seq)
    BY <1>1, <1>2, <2>1
  <2> QED  BY <1>3, <2>2 DEF Range
<1>6. seq[1] \in Range(seq)
  BY <1>1, <1>3 DEF Range
<1> QED  BY <1>1, <1>4, <1>5, <1>6 DEF rest

(* A page whose socket goes takes the messages it was still sending with it, *)
(* and changes nothing else about them: only their socket is gone.          *)
LEMMA HangupKeeps ==
    ASSUME NEW gone, NEW m \in Messages, msg[m] \in Msg
    PROVE  /\ Hangup(gone)[m] \in Msg
           /\ Hangup(gone)[m].stage = msg[m].stage
                \/ (msg[m].stage = "emitted" /\ Hangup(gone)[m].stage = "over")
           /\ msg[m].stage # "emitted" =>
                Hangup(gone)[m].session = msg[m].session /\ Hangup(gone)[m].from = msg[m].from
           /\ Hangup(gone)[m].stage = "emitted" => Hangup(gone)[m].from = msg[m].from
           /\ Hangup(gone)[m].alive => Hangup(gone)[m] = msg[m] /\ msg[m].from \notin gone
<1> DEFINE row == Hangup(gone)[m]
<1>1. row = CASE msg[m].from \notin gone -> msg[m]
             [] msg[m].from \in gone /\ msg[m].stage = "emitted" -> Lost
             [] OTHER -> [msg[m] EXCEPT !.alive = FALSE]
  BY DEF Hangup
<1>2. Lost \in Msg /\ Lost.stage = "over" /\ ~Lost.alive
  BY DEF Lost, NoMsg, Msg, Stages
<1>3. CASE msg[m].from \notin gone
  <2>1. row = msg[m]  BY <1>1, <1>3, Zenon
  <2> QED  BY <2>1, <1>3
<1>4. CASE msg[m].from \in gone /\ msg[m].stage = "emitted"
  <2>1. row = Lost  BY <1>1, <1>4, Zenon
  <2> QED  BY <2>1, <1>2, <1>4 DEF Msg, Stages
<1>5. CASE msg[m].from \in gone /\ msg[m].stage # "emitted"
  <2>1. row = [msg[m] EXCEPT !.alive = FALSE]  BY <1>1, <1>5, Zenon
  <2> QED  BY <2>1, <1>5 DEF Msg
<1> QED  BY <1>3, <1>4, <1>5

(* A restart ends every message that is under way, and keeps the rest.      *)
LEMMA RestartKeeps ==
    ASSUME Restart, NEW m \in Messages, msg[m] \in Msg, msg \in [Messages -> Msg]
    PROVE  /\ msg'[m] \in Msg
           /\ msg'[m].stage \in {"unsent", "over"}
           /\ msg[m].stage \in {"stored", "over"} =>
                msg'[m].stage = "over" /\ msg'[m].session = msg[m].session
           /\ msg'[m].alive => msg'[m] = msg[m]
<1>1. msg'[m] = CASE msg[m].stage \in {"emitted", "received"} -> Lost
                  [] msg[m].stage = "stored" -> [msg[m] EXCEPT !.stage = "over", !.alive = FALSE]
                  [] OTHER -> msg[m]
  BY DEF Restart
<1>2. Lost \in Msg /\ Lost.stage = "over" /\ ~Lost.alive
  BY DEF Lost, NoMsg, Msg, Stages
<1>3. CASE msg[m].stage \in {"emitted", "received"}
  <2>1. msg[m].stage # "stored"  BY <1>3
  <2>2. msg'[m] = Lost  BY <1>1, <1>3, <2>1, Zenon
  <2> QED  BY <2>2, <1>2, <1>3 DEF Msg, Stages
<1>4. CASE msg[m].stage = "stored"
  <2>1. msg[m].stage \notin {"emitted", "received"}  BY <1>4
  <2>2. msg'[m] = [msg[m] EXCEPT !.stage = "over", !.alive = FALSE]  BY <1>1, <1>4, <2>1, Zenon
  <2> QED  BY <2>2, <1>4 DEF Msg, Stages
<1>5. CASE msg[m].stage \notin {"emitted", "received"} /\ msg[m].stage # "stored"
  <2>1. msg'[m] = msg[m]  BY <1>1, <1>5, Zenon
  <2> QED  BY <2>1, <1>5 DEF Msg, Stages
<1> QED  BY <1>3, <1>4, <1>5

-----------------------------------------------------------------------------
(* Types.                                                                  *)

(* A page's row and a message's row, with one field changed.               *)
LEMMA RowTypes ==
    /\ \A row \in Page : \A link \in {"closed", "connecting", "up", "joined"} :
         [row EXCEPT !.link = link] \in Page
    /\ \A row \in Page : \A ms \in SUBSET Messages : [row EXCEPT !.shown = ms] \in Page
    /\ \A row \in Page : [row EXCEPT !.loaded = TRUE] \in Page
    /\ \A row \in Msg : \A stage \in Stages :
         [row EXCEPT !.stage = stage] \in Msg /\ [row EXCEPT !.stage = stage, !.alive = FALSE] \in Msg
<1>1. \A row \in Page : \A link \in {"closed", "connecting", "up", "joined"} :
        [row EXCEPT !.link = link] \in Page
  BY DEF Page
<1>2. \A row \in Page : \A ms \in SUBSET Messages : [row EXCEPT !.shown = ms] \in Page
  BY DEF Page
<1>3. \A row \in Page : [row EXCEPT !.loaded = TRUE] \in Page
  BY DEF Page
<1>4. \A row \in Msg : \A stage \in Stages : [row EXCEPT !.stage = stage] \in Msg
  BY DEF Msg
<1>5. \A row \in Msg : \A stage \in Stages : [row EXCEPT !.stage = stage, !.alive = FALSE] \in Msg
  BY DEF Msg
<1> QED  BY <1>1, <1>2, <1>3, <1>4, <1>5

(* Whatever hangs up, the messages keep their type.                        *)
LEMMA HangupTypes ==
    ASSUME TypeOK, NEW gone, msg' = Hangup(gone)
    PROVE  /\ msg' \in [Messages -> Msg]
           /\ \A m \in Messages : msg'[m].stage \in {"emitted", "received", "stored"} => msg'[m].from # None
<1>1. msg' = [m \in Messages |-> Hangup(gone)[m]]
  BY DEF Hangup
<1>2. \A m \in Messages : Hangup(gone)[m] \in Msg
  BY HangupKeeps DEF TypeOK
<1>3. ASSUME NEW m \in Messages, Hangup(gone)[m].stage \in {"emitted", "received", "stored"}
      PROVE  Hangup(gone)[m].from # None
  <2>1. msg[m] \in Msg
    BY DEF TypeOK
  <2> QED  BY <1>3, <2>1, HangupKeeps DEF TypeOK
<1> QED  BY <1>1, <1>2, <1>3

(* When connections break, the pages' state keeps its type.                *)
LEMMA BrokenTypes ==
    ASSUME TypeOK, NEW gone \in SUBSET Pages, Broken(gone)
    PROVE  /\ page' \in [Pages -> Page] /\ wire' \in [Pages -> Seq(Messages)]
           /\ drops' \in 0 .. MaxDrops /\ broken' \subseteq Pages
<1>1. page' \in [Pages -> Page]
  <2>1. \A p \in Pages : page[p] \in Page /\ [page[p] EXCEPT !.link = "connecting"] \in Page
    BY RowTypes DEF TypeOK
  <2> QED  BY <2>1 DEF Broken
<1>2. wire' \in [Pages -> Seq(Messages)]
  BY DEF Broken, TypeOK
<1>3. drops' \in 0 .. MaxDrops /\ broken' \subseteq Pages
  BY DeliveryAssumption DEF Broken, TypeOK
<1> QED  BY <1>1, <1>2, <1>3

(* Every step of a page keeps the types.                                   *)
LEMMA PageTypes ==
    ASSUME TypeOK, NEW p \in Pages, PageStep(p)
    PROVE  TypeOK'
<1>1. ASSUME NEW s \in Sessions, Mount(p, s)  PROVE TypeOK'
  <2>1. msg' \in [Messages -> Msg] /\ \A m \in Messages :
          msg'[m].stage \in {"emitted", "received", "stored"} => msg'[m].from # None
    BY <1>1, HangupTypes DEF Mount
  <2>2. page' \in [Pages -> Page]
    BY <1>1 DEF Mount, TypeOK, Page
  <2>3. asks' \subseteq Asks
    <3> DEFINE ask == [page |-> p, mount |-> page[p].mounts + 1, session |-> s,
                       served |-> FALSE, answer |-> {}]
    <3>1. page[p].mounts \in Nat
      BY DEF TypeOK, Page
    <3>2. ask \in Asks
      BY <3>1 DEF Asks
    <3> QED  BY <1>1, <3>2 DEF Mount, TypeOK
  <2>4. wire' \in [Pages -> Seq(Messages)] /\ owed' \in [Pages -> SUBSET Messages]
    BY <1>1 DEF Mount, TypeOK
  <2> QED  BY <1>1, <2>1, <2>2, <2>3, <2>4 DEF Mount, TypeOK
<1>2. CASE Connect(p) \/ Join(p)
  <2>1. page' \in [Pages -> Page]
    <3>1. page[p] \in Page
      BY DEF TypeOK
    <3>2. /\ [page[p] EXCEPT !.link = "up"] \in Page
          /\ [page[p] EXCEPT !.link = "joined"] \in Page
      BY <3>1, RowTypes
    <3>3. \/ page' = [page EXCEPT ![p] = [page[p] EXCEPT !.link = "up"]]
          \/ page' = [page EXCEPT ![p] = [page[p] EXCEPT !.link = "joined"]]
      BY <1>2 DEF Connect, Join
    <3> QED  BY <3>2, <3>3 DEF TypeOK
  <2> QED  BY <1>2, <2>1 DEF Connect, Join, TypeOK, ghosts
<1>3. CASE Drop(p)
  <2>1. msg' \in [Messages -> Msg] /\ \A m \in Messages :
          msg'[m].stage \in {"emitted", "received", "stored"} => msg'[m].from # None
    BY <1>3, HangupTypes DEF Drop
  <2>2. /\ page' \in [Pages -> Page] /\ wire' \in [Pages -> Seq(Messages)]
        /\ drops' \in 0 .. MaxDrops /\ broken' \subseteq Pages
    BY <1>3, BrokenTypes DEF Drop
  <2> QED  BY <1>3, <2>1, <2>2 DEF Drop, TypeOK
<1>4. CASE Receive(p)
  <2>1. wire[p] \in Seq(Messages) /\ wire[p] # <<>>
    BY <1>4 DEF Receive, TypeOK
  <2>2. Head(wire[p]) \in Messages /\ Tail(wire[p]) \in Seq(Messages)
    BY <2>1, HeadAndTail
  <2>3. page' \in [Pages -> Page]
    BY <1>4, <2>2 DEF Receive, TypeOK, Page
  <2>4. wire' \in [Pages -> Seq(Messages)]
    BY <1>4, <2>2 DEF Receive, TypeOK
  <2> QED  BY <1>4, <2>3, <2>4 DEF Receive, TypeOK, ghosts
<1> QED  BY <1>1, <1>2, <1>3, <1>4 DEF PageStep

(* Every step of a message keeps the types.                                *)
LEMMA MessageTypes ==
    ASSUME TypeOK, NEW m \in Messages, MessageStep(m)
    PROVE  TypeOK'
<1>1. CASE Handle(m)
  <2>1. msg' \in [Messages -> Msg] /\ \A n \in Messages :
          msg'[n].stage \in {"emitted", "received", "stored"} => msg'[n].from # None
    BY <1>1 DEF Handle, TypeOK, Msg, Stages
  <2> QED  BY <1>1, <2>1 DEF Handle, TypeOK, ghosts
<1>2. CASE Save(m)
  <2>1. Lost \in Msg /\ Lost.stage = "over"
    BY DEF Lost, NoMsg, Msg, Stages
  <2>2. msg' = [msg EXCEPT ![m].stage = "stored"] \/ msg' = [msg EXCEPT ![m] = Lost]
    BY <1>2 DEF Save
  <2>3. msg' \in [Messages -> Msg] /\ \A n \in Messages :
          msg'[n].stage \in {"emitted", "received", "stored"} => msg'[n].from # None
    <3>1. msg[m] \in Msg /\ msg[m].stage = "received" /\ msg[m].from # None
      BY <1>2 DEF Save, TypeOK
    <3>2. [msg[m] EXCEPT !.stage = "stored"] \in Msg /\ [msg[m] EXCEPT !.stage = "stored"].from = msg[m].from
      BY <3>1, RowTypes DEF Msg, Stages
    <3>3. CASE msg' = [msg EXCEPT ![m] = [msg[m] EXCEPT !.stage = "stored"]]
      BY <3>1, <3>2, <3>3 DEF TypeOK
    <3>4. CASE msg' = [msg EXCEPT ![m] = Lost]
      BY <3>1, <2>1, <3>4 DEF TypeOK
    <3> QED  BY <2>2, <3>3, <3>4
  <2>4. store' \subseteq Messages
    BY <1>2 DEF Save, TypeOK
  <2>5. owed' \in [Pages -> SUBSET Messages]
    <3>1. \A q \in Pages : owed[q] \in SUBSET Messages /\ owed[q] \cup {m} \in SUBSET Messages
      BY DEF TypeOK
    <3>2. CASE owed' = owed
      BY <3>2 DEF TypeOK
    <3>3. CASE owed' = [q \in Pages |-> IF page[q].session = msg[m].session /\ (Steady(q) \/ q \in broken)
                                        THEN owed[q] \cup {m} ELSE owed[q]]
      BY <3>1, <3>3
    <3> QED  BY <1>2, <3>2, <3>3 DEF Save
  <2> QED  BY <1>2, <2>3, <2>4, <2>5 DEF Save, TypeOK
<1>3. CASE Emit(m)
  <2>1. msg' \in [Messages -> Msg] /\ \A n \in Messages :
          msg'[n].stage \in {"emitted", "received", "stored"} => msg'[n].from # None
    <3>1. msg[m] \in Msg
      BY DEF TypeOK
    <3>2. [msg[m] EXCEPT !.stage = "over", !.alive = FALSE] \in Msg
      BY <3>1, RowTypes DEF Stages
    <3>3. [msg[m] EXCEPT !.stage = "over", !.alive = FALSE].stage = "over"
      BY <3>1 DEF Msg
    <3>4. msg' = [msg EXCEPT ![m] = [msg[m] EXCEPT !.stage = "over", !.alive = FALSE]]
      BY <1>3, <3>1 DEF Emit, TypeOK, Msg
    <3> QED  BY <3>2, <3>3, <3>4 DEF TypeOK
  <2>2. \A q \in Pages : wire[q] \in Seq(Messages) /\ Append(wire[q], m) \in Seq(Messages)
    BY AppendRange DEF TypeOK
  <2>3. wire' \in [Pages -> Seq(Messages)]
    BY <1>3, <2>2 DEF Emit
  <2> QED  BY <1>3, <2>1, <2>3 DEF Emit, TypeOK, ghosts
<1>4. ASSUME NEW p \in Pages, Send(p, m)  PROVE TypeOK'
  <2>1. [stage |-> "emitted", from |-> p, alive |-> TRUE, session |-> page[p].session] \in Msg /\ p # None
    BY DeliveryAssumption DEF TypeOK, Page, Msg, Stages
  <2>2. msg' \in [Messages -> Msg] /\ \A n \in Messages :
          msg'[n].stage \in {"emitted", "received", "stored"} => msg'[n].from # None
    BY <1>4, <2>1 DEF Send, TypeOK
  <2> QED  BY <1>4, <2>2 DEF Send, TypeOK, ghosts
<1> QED  BY <1>1, <1>2, <1>3, <1>4 DEF MessageStep

(* Every other step keeps the types.                                       *)
LEMMA OtherTypes ==
    ASSUME TypeOK, Restart \/ (\E ask \in asks : AskStep(ask))
    PROVE  TypeOK'
<1>1. ASSUME NEW ask \in asks, ServeHistory(ask)  PROVE TypeOK'
  <2>1. Of(ask.session) \in SUBSET Messages /\ ask \in Asks
    BY DEF TypeOK, Of
  <2>2. asks' \subseteq Asks
    BY <1>1, <2>1 DEF ServeHistory, TypeOK, Asks
  <2> QED  BY <1>1, <2>2 DEF ServeHistory, TypeOK, ghosts
<1>2. ASSUME NEW ask \in asks, HistoryArrives(ask)  PROVE TypeOK'
  <2>1. ask \in Asks
    BY DEF TypeOK
  <2>2. page' \in [Pages -> Page]
    <3>1. ask.page \in Pages /\ ask.answer \in SUBSET Messages
      BY <2>1 DEF Asks
    <3>2. page[ask.page] \in Page
      BY <3>1 DEF TypeOK
    <3>3. [page[ask.page] EXCEPT !.shown = ask.answer] \in Page
      BY <3>1, <3>2, RowTypes
    <3>4. [page[ask.page] EXCEPT !.shown = ask.answer, !.loaded = TRUE] \in Page
      BY <3>3, RowTypes
    <3>5. page' = page \/ page' = [page EXCEPT ![ask.page] =
                                     [page[ask.page] EXCEPT !.shown = ask.answer, !.loaded = TRUE]]
      BY <1>2, <3>1 DEF HistoryArrives, TypeOK
    <3> QED  BY <3>4, <3>5 DEF TypeOK
  <2> QED  BY <1>2, <2>2 DEF HistoryArrives, TypeOK, ghosts
<1>3. CASE Restart
  <2>1. /\ page' \in [Pages -> Page] /\ wire' \in [Pages -> Seq(Messages)]
        /\ drops' \in 0 .. MaxDrops /\ broken' \subseteq Pages
    BY <1>3, BrokenTypes DEF Restart
  <2>2. \A m \in Messages : msg'[m] \in Msg /\ msg'[m].stage \in {"unsent", "over"}
    BY <1>3, RestartKeeps DEF TypeOK
  <2>3. msg' \in [Messages -> Msg]
    <3>1. \E f : msg' = [m \in Messages |-> f[m]]
      <4>1. msg' = [m \in Messages |-> msg'[m]]
        BY <1>3 DEF Restart
      <4> QED  BY <4>1
    <3> QED  BY <2>2, <3>1
  <2> QED  BY <1>3, <2>1, <2>2, <2>3 DEF Restart, TypeOK
<1> QED  BY <1>1, <1>2, <1>3 DEF AskStep

(* The state of the delivery keeps its types.                              *)
LEMMA NextTypes == ASSUME TypeOK, [Next]_vars  PROVE TypeOK'
<1>1. CASE UNCHANGED vars
  BY <1>1 DEF TypeOK, vars
<1> QED  BY <1>1, PageTypes, MessageTypes, OtherTypes DEF Next

-----------------------------------------------------------------------------
(* What the steps leave alone.                                             *)

(* A page whose connection breaks keeps all but its link.                  *)
LEMMA BrokenKeeps ==
    ASSUME TypeOK, NEW gone \in SUBSET Pages, Broken(gone), NEW q \in Pages
    PROVE  /\ page'[q].session = page[q].session /\ page'[q].mounts = page[q].mounts
           /\ page'[q].loaded = page[q].loaded /\ page'[q].shown = page[q].shown
           /\ Range(wire'[q]) \subseteq Range(wire[q])
           /\ q \notin gone => page'[q] = page[q] /\ wire'[q] = wire[q]
           /\ q \in broken' <=> q \in broken \/ (q \in gone /\ Steady(q))
<1>1. page[q] \in Page /\ wire[q] \in Seq(Messages)
  BY DEF TypeOK
<1>2. page'[q] = page[q] \/ (q \in gone /\ page'[q] = [page[q] EXCEPT !.link = "connecting"])
  BY DEF Broken
<1>3. (q \in gone /\ wire'[q] = <<>>) \/ wire'[q] = wire[q]
  BY DEF Broken
<1>4. Range(<<>>) = {}
  BY DEF Range
<1>5. q \notin gone => page'[q] = page[q] /\ wire'[q] = wire[q]
  BY DEF Broken
<1>6. q \in broken' <=> q \in broken \/ (q \in gone /\ Steady(q))
  BY DEF Broken
<1> QED  BY <1>1, <1>2, <1>3, <1>4, <1>5, <1>6 DEF Page

(* A stored message stays stored, in its consultation: no step moves it to  *)
(* another, or takes it out (save, handleMessage).                          *)
LEMMA StoredStays ==
    ASSUME TypeOK, MessagesInv, [Next]_vars, NEW m \in store
    PROVE  m \in store' /\ msg'[m].session = msg[m].session
<1>1. m \in Messages /\ msg[m] \in Msg /\ msg[m].stage \in {"stored", "over"}
  BY DEF TypeOK, MessagesInv
<1>2. ASSUME NEW gone, msg' = Hangup(gone), store' = store
      PROVE  m \in store' /\ msg'[m].session = msg[m].session
  BY <1>1, <1>2, HangupKeeps
<1>3. ASSUME NEW n \in Messages, Handle(n) \/ Save(n) \/ (\E p \in Pages : Send(p, n))
      PROVE  m \in store' /\ msg'[m].session = msg[m].session
  <2>1. n # m
    BY <1>1, <1>3 DEF Handle, Save, Send
  <2>2. msg'[m] = msg[m] /\ m \in store'
    BY <1>1, <1>3, <2>1 DEF Handle, Save, Send, TypeOK
  <2> QED  BY <2>2
<1>4. ASSUME NEW n \in Messages, Emit(n)
      PROVE  m \in store' /\ msg'[m].session = msg[m].session
  BY <1>1, <1>4 DEF Emit, TypeOK, Msg
<1>5. CASE Restart
  <2>1. msg'[m].session = msg[m].session
    BY <1>1, <1>5, RestartKeeps DEF TypeOK
  <2> QED  BY <1>5, <2>1 DEF Restart
<1>6. CASE UNCHANGED <<store, msg>>
  BY <1>6
<1>7. ASSUME NEW p \in Pages, PageStep(p)
      PROVE  m \in store' /\ msg'[m].session = msg[m].session
  <2>1. \/ \E s \in Sessions : Mount(p, s)
        \/ Drop(p) \/ UNCHANGED <<store, msg>>
    BY <1>7 DEF PageStep, Connect, Join, Receive
  <2>2. (msg' = Hangup({p}) /\ store' = store) \/ UNCHANGED <<store, msg>>
    BY <2>1 DEF Mount, Drop
  <2> QED  BY <2>2, <1>2, <1>6
<1>8. ASSUME NEW ask \in asks, AskStep(ask)
      PROVE  m \in store' /\ msg'[m].session = msg[m].session
  BY <1>6, <1>8 DEF AskStep, ServeHistory, HistoryArrives
<1>9. CASE UNCHANGED vars
  BY <1>6, <1>9 DEF vars
<1> QED  BY <1>3, <1>4, <1>5, <1>7, <1>8, <1>9 DEF Next, MessageStep

(* The rows of the other pages, and what the row of a page that is set up,  *)
(* joins, or gets its history becomes.                                      *)
LEMMA PageRows ==
    ASSUME TypeOK, NEW p \in Pages
    PROVE  /\ \A s \in Sessions : Mount(p, s) =>
                /\ page'[p].session = s /\ page'[p].mounts = page[p].mounts + 1
                /\ page'[p].shown = {} /\ ~page'[p].loaded
                /\ wire'[p] = <<>> /\ owed'[p] = {} /\ p \notin broken'
                /\ \A q \in Pages \ {p} : /\ page'[q] = page[q] /\ wire'[q] = wire[q]
                                          /\ owed'[q] = owed[q] /\ (q \in broken' <=> q \in broken)
           /\ Connect(p) \/ Join(p) =>
                /\ page'[p].session = page[p].session /\ page'[p].mounts = page[p].mounts
                /\ page'[p].loaded = page[p].loaded /\ page'[p].shown = page[p].shown
                /\ \A q \in Pages \ {p} : page'[q] = page[q]
           /\ Receive(p) =>
                /\ page'[p].session = page[p].session /\ page'[p].mounts = page[p].mounts
                /\ page'[p].loaded = page[p].loaded /\ page'[p].link = page[p].link
                /\ Head(wire[p]) \in Range(wire[p]) /\ page'[p].shown = page[p].shown \cup {Head(wire[p])}
                /\ Range(wire[p]) = {Head(wire[p])} \cup Range(wire'[p])
                /\ \A q \in Pages \ {p} : page'[q] = page[q] /\ wire'[q] = wire[q]
<1>1. page[p] \in Page /\ wire[p] \in Seq(Messages)
  BY DEF TypeOK
<1>2. ASSUME NEW s \in Sessions, Mount(p, s)
      PROVE  /\ page'[p].session = s /\ page'[p].mounts = page[p].mounts + 1
             /\ page'[p].shown = {} /\ ~page'[p].loaded
             /\ wire'[p] = <<>> /\ owed'[p] = {} /\ p \notin broken'
             /\ \A q \in Pages \ {p} : /\ page'[q] = page[q] /\ wire'[q] = wire[q]
                                       /\ owed'[q] = owed[q] /\ (q \in broken' <=> q \in broken)
  BY <1>1, <1>2 DEF Mount, TypeOK
<1>3. ASSUME Connect(p) \/ Join(p)
      PROVE  /\ page'[p].session = page[p].session /\ page'[p].mounts = page[p].mounts
             /\ page'[p].loaded = page[p].loaded /\ page'[p].shown = page[p].shown
             /\ \A q \in Pages \ {p} : page'[q] = page[q]
  <2>1. \/ page' = [page EXCEPT ![p] = [page[p] EXCEPT !.link = "up"]]
        \/ page' = [page EXCEPT ![p] = [page[p] EXCEPT !.link = "joined"]]
    BY <1>3 DEF Connect, Join
  <2>2. \/ page'[p] = [page[p] EXCEPT !.link = "up"]
        \/ page'[p] = [page[p] EXCEPT !.link = "joined"]
    BY <2>1 DEF TypeOK
  <2>3. \A q \in Pages \ {p} : page'[q] = page[q]
    BY <2>1 DEF TypeOK
  <2>4. /\ page'[p].session = page[p].session /\ page'[p].mounts = page[p].mounts
        /\ page'[p].loaded = page[p].loaded /\ page'[p].shown = page[p].shown
    BY <1>1, <2>2 DEF Page
  <2> QED  BY <2>3, <2>4
<1>4. ASSUME Receive(p)
      PROVE  /\ page'[p].session = page[p].session /\ page'[p].mounts = page[p].mounts
             /\ page'[p].loaded = page[p].loaded /\ page'[p].link = page[p].link
             /\ Head(wire[p]) \in Range(wire[p]) /\ page'[p].shown = page[p].shown \cup {Head(wire[p])}
             /\ Range(wire[p]) = {Head(wire[p])} \cup Range(wire'[p])
             /\ \A q \in Pages \ {p} : page'[q] = page[q] /\ wire'[q] = wire[q]
  <2>1. Range(wire[p]) = {Head(wire[p])} \cup Range(Tail(wire[p]))
    BY <1>1, <1>4, HeadAndTail DEF Receive
  <2>2. wire'[p] = Tail(wire[p]) /\ \A q \in Pages \ {p} : page'[q] = page[q] /\ wire'[q] = wire[q]
    BY <1>4 DEF Receive, TypeOK
  <2>3. page'[p] = [page[p] EXCEPT !.shown = page[p].shown \cup {Head(wire[p])}]
    BY <1>4 DEF Receive, TypeOK
  <2>4. /\ page'[p].session = page[p].session /\ page'[p].mounts = page[p].mounts
        /\ page'[p].loaded = page[p].loaded /\ page'[p].link = page[p].link
        /\ page'[p].shown = page[p].shown \cup {Head(wire[p])}
    BY <1>1, <2>3 DEF Page
  <2> QED  BY <2>1, <2>2, <2>4
<1> QED  BY <1>2, <1>3, <1>4

(* The history is shown by the page that asked for it last, and by no other. *)
LEMMA HistoryRows ==
    ASSUME TypeOK, NEW ask \in asks, HistoryArrives(ask)
    PROVE  /\ \A q \in Pages : /\ page'[q].session = page[q].session
                               /\ page'[q].mounts = page[q].mounts
                               /\ page'[q].link = page[q].link
           /\ Active(ask) => page'[ask.page].shown = ask.answer /\ page'[ask.page].loaded
           /\ \A q \in Pages : ~(Active(ask) /\ q = ask.page) => page'[q] = page[q]
<1>1. ask.page \in Pages /\ ask.answer \in SUBSET Messages /\ \A q \in Pages : page[q] \in Page
  BY DEF TypeOK, Asks
<1>2. CASE ~Active(ask)
  BY <1>2 DEF HistoryArrives
<1>3. CASE Active(ask)
  <2> DEFINE row == [[page[ask.page] EXCEPT !.shown = ask.answer] EXCEPT !.loaded = TRUE]
  <2>1. page' = [page EXCEPT ![ask.page] = row]
    BY <1>1, <1>3 DEF HistoryArrives, TypeOK
  <2>2. /\ row.session = page[ask.page].session /\ row.mounts = page[ask.page].mounts
        /\ row.link = page[ask.page].link /\ row.shown = ask.answer /\ row.loaded
    BY <1>1 DEF Page
  <2> HIDE DEF row
  <2>3. page'[ask.page] = row /\ \A q \in Pages : q # ask.page => page'[q] = page[q]
    BY <1>1, <2>1 DEF TypeOK
  <2> QED  BY <1>1, <1>3, <2>2, <2>3
<1> QED  BY <1>2, <1>3

(* Only the messages of the page that has a new socket lose theirs; what is *)
(* stored is stored, and the session of a message whose socket stands is    *)
(* that of the page it came from.                                           *)
LEMMA MessagesStep ==
    ASSUME TypeOK, MessagesInv, [Next]_vars
    PROVE  MessagesInv'
<1> SUFFICES ASSUME NEW m \in Messages
             PROVE  /\ m \in store' => msg'[m].stage \in {"stored", "over"}
                    /\ msg'[m].stage = "stored" => m \in store'
                    /\ msg'[m].alive => /\ msg'[m].from \in Pages
                                        /\ msg'[m].session = page'[msg'[m].from].session
  BY DEF MessagesInv
<1>t. msg[m] \in Msg /\ \A q \in Pages : page[q] \in Page
  BY DEF TypeOK
<1>i. /\ m \in store => msg[m].stage \in {"stored", "over"}
      /\ msg[m].stage = "stored" => m \in store
      /\ msg[m].alive => msg[m].from \in Pages /\ msg[m].session = page[msg[m].from].session
  BY DEF MessagesInv
<1> DEFINE Kept == \A q \in Pages : page'[q].session = page[q].session
           Goal == /\ m \in store' => msg'[m].stage \in {"stored", "over"}
                   /\ msg'[m].stage = "stored" => m \in store'
                   /\ msg'[m].alive => /\ msg'[m].from \in Pages
                                       /\ msg'[m].session = page'[msg'[m].from].session
<1>1. ASSUME NEW p \in Pages, msg' = Hangup({p}), store' = store,
             \A q \in Pages \ {p} : page'[q].session = page[q].session
      PROVE  Goal
  <2>1. /\ msg'[m].stage = msg[m].stage \/ (msg[m].stage = "emitted" /\ msg'[m].stage = "over")
        /\ msg'[m].alive => msg'[m] = msg[m] /\ msg[m].from # p
    BY <1>t, <1>1, HangupKeeps
  <2> QED  BY <1>1, <1>i, <2>1
<1>2. CASE UNCHANGED <<store, msg>> /\ Kept
  BY <1>2, <1>i
<1>3. ASSUME NEW p \in Pages, PageStep(p)
      PROVE  Goal
  <2>1. ASSUME NEW s \in Sessions, Mount(p, s)  PROVE Goal
    <3>1. \A q \in Pages \ {p} : page'[q] = page[q]
      BY <2>1, PageRows
    <3>2. msg' = Hangup({p}) /\ store' = store
      BY <2>1 DEF Mount
    <3> QED  BY <1>1, <3>1, <3>2
  <2>2. CASE Connect(p) \/ Join(p) \/ Receive(p)
    <3>1. UNCHANGED <<store, msg>>
      BY <2>2 DEF Connect, Join, Receive
    <3>2. Kept
      BY <2>2, PageRows
    <3> QED  BY <1>2, <3>1, <3>2
  <2>3. CASE Drop(p)
    BY <1>1, <2>3, BrokenKeeps DEF Drop
  <2> QED  BY <1>3, <2>1, <2>2, <2>3 DEF PageStep
<1>4. ASSUME NEW n \in Messages, MessageStep(n)
      PROVE  Goal
  <2>k. page' = page
    BY <1>4 DEF MessageStep, Handle, Save, Emit, Send
  <2>1. CASE n # m
    <3>1. msg'[m] = msg[m] /\ (m \in store' <=> m \in store)
      BY <1>4, <2>1 DEF MessageStep, Handle, Save, Emit, Send, TypeOK
    <3> QED  BY <1>i, <2>k, <3>1
  <2>2. CASE n = m /\ Handle(m)
    <3>1. msg'[m] = [msg[m] EXCEPT !.stage = "received"] /\ msg[m].stage = "emitted" /\ store' = store
      BY <2>2 DEF Handle, TypeOK
    <3> QED  BY <1>t, <1>i, <2>k, <3>1 DEF Msg
  <2>3. CASE n = m /\ Save(m)
    <3>1. \/ msg'[m] = [msg[m] EXCEPT !.stage = "stored"] /\ store' = store \cup {m}
          \/ msg'[m] = Lost /\ store' = store
      BY <2>3 DEF Save, TypeOK
    <3>2. msg[m].stage = "received"
      BY <2>3 DEF Save
    <3>3. Lost.stage = "over" /\ ~Lost.alive
      BY DEF Lost, NoMsg
    <3>4. CASE msg'[m] = [msg[m] EXCEPT !.stage = "stored"] /\ store' = store \cup {m}
      <4>1. /\ msg'[m].stage = "stored" /\ msg'[m].alive = msg[m].alive
            /\ msg'[m].from = msg[m].from /\ msg'[m].session = msg[m].session
        BY <1>t, <3>4 DEF Msg
      <4> QED  BY <1>i, <2>k, <3>4, <4>1
    <3> QED  BY <1>i, <3>1, <3>2, <3>3, <3>4
  <2>4. CASE n = m /\ Emit(m)
    <3>1. msg'[m] = [[msg[m] EXCEPT !.stage = "over"] EXCEPT !.alive = FALSE] /\ store' = store
      BY <2>4 DEF Emit, TypeOK
    <3>2. msg'[m].stage = "over" /\ ~msg'[m].alive
      BY <1>t, <3>1 DEF Msg
    <3> QED  BY <3>1, <3>2
  <2>5. ASSUME NEW p \in Pages, Send(p, m)  PROVE Goal
    <3>1. msg'[m] = [stage |-> "emitted", from |-> p, alive |-> TRUE, session |-> page[p].session]
      BY <2>5 DEF Send, TypeOK
    <3>2. msg[m].stage = "unsent" /\ store' = store
      BY <2>5 DEF Send
    <3> QED  BY <1>i, <2>k, <3>1, <3>2
  <2> QED  BY <1>4, <2>1, <2>2, <2>3, <2>4, <2>5 DEF MessageStep
<1>5. ASSUME NEW ask \in asks, AskStep(ask)
      PROVE  Goal
  <2>1. UNCHANGED <<store, msg>>
    BY <1>5 DEF AskStep, ServeHistory, HistoryArrives
  <2>2. Kept
    BY <1>5, HistoryRows DEF AskStep, ServeHistory
  <2> QED  BY <1>2, <2>1, <2>2
<1>6. CASE Restart
  <2>1. /\ msg'[m].stage \in {"unsent", "over"}
        /\ msg[m].stage \in {"stored", "over"} => msg'[m].stage = "over"
        /\ msg'[m].alive => msg'[m] = msg[m]
    BY <1>t, <1>6, RestartKeeps DEF TypeOK
  <2>2. Kept /\ store' = store
    BY <1>6, BrokenKeeps DEF Restart
  <2> QED  BY <1>i, <2>1, <2>2
<1>7. CASE UNCHANGED vars
  BY <1>2, <1>7 DEF vars
<1> QED  BY <1>3, <1>4, <1>5, <1>6, <1>7 DEF Next

(* The screens: what is broadcast goes to the room of the message's session, *)
(* the sender's own answer to a socket of that session, and the answer of    *)
(* the history to the choice it was asked for.                               *)
LEMMA ScreensStep ==
    ASSUME TypeOK, MessagesInv, ScreensInv, AsksInv, [Next]_vars
    PROVE  ScreensInv'
<1> SUFFICES ASSUME NEW q \in Pages, NEW m \in page'[q].shown \cup Range(wire'[q])
             PROVE  m \in store' /\ msg'[m].session = page'[q].session
  BY DEF ScreensInv, Fits
<1> DEFINE Goal == m \in store' /\ msg'[m].session = page'[q].session
<1>t. page[q] \in Page /\ wire[q] \in Seq(Messages) /\ Range(<<>>) = {}
  BY DEF TypeOK, Range
<1>1. ASSUME m \in store, msg[m].session = page'[q].session
      PROVE  Goal
  BY <1>1, StoredStays
<1>2. ASSUME page'[q].shown \cup Range(wire'[q]) \subseteq page[q].shown \cup Range(wire[q]),
             page'[q].session = page[q].session
      PROVE  Goal
  <2>1. Fits(m, page[q].session)
    BY <1>2 DEF ScreensInv
  <2> QED  BY <1>1, <1>2, <2>1 DEF Fits
<1>3. ASSUME NEW p \in Pages, PageStep(p)
      PROVE  Goal
  <2>1. ASSUME NEW s \in Sessions, Mount(p, s)  PROVE Goal
    <3>1. CASE q = p
      <4>1. page'[q].shown = {} /\ wire'[q] = <<>>
        BY <2>1, <3>1, PageRows
      <4> QED  BY <1>t, <4>1
    <3>2. CASE q # p
      <4>1. page'[q] = page[q] /\ wire'[q] = wire[q]
        BY <2>1, <3>2, PageRows
      <4> QED  BY <1>2, <4>1
    <3> QED  BY <3>1, <3>2
  <2>2. CASE Connect(p) \/ Join(p)
    <3>1. page'[q].session = page[q].session /\ page'[q].shown = page[q].shown
      BY <2>2, PageRows
    <3>2. wire' = wire
      BY <2>2 DEF Connect, Join
    <3> QED  BY <1>2, <3>1, <3>2
  <2>3. CASE Receive(p)
    <3>1. page'[q].session = page[q].session
      BY <2>3, PageRows
    <3>2. page'[q].shown \cup Range(wire'[q]) \subseteq page[q].shown \cup Range(wire[q])
      BY <2>3, PageRows
    <3> QED  BY <1>2, <3>1, <3>2
  <2>4. CASE Drop(p)
    <3>1. /\ page'[q].session = page[q].session /\ page'[q].shown = page[q].shown
          /\ Range(wire'[q]) \subseteq Range(wire[q])
      BY <2>4, BrokenKeeps DEF Drop
    <3> QED  BY <1>2, <3>1
  <2> QED  BY <1>3, <2>1, <2>2, <2>3, <2>4 DEF PageStep
<1>4. ASSUME NEW n \in Messages, MessageStep(n)
      PROVE  Goal
  <2>k. page' = page
    BY <1>4 DEF MessageStep, Handle, Save, Emit, Send
  <2>1. CASE wire' = wire
    BY <1>2, <2>k, <2>1
  <2>2. CASE Emit(n)
    <3>1. wire'[q] = IF q \in Receivers(n) THEN Append(wire[q], n) ELSE wire[q]
      BY <2>2 DEF Emit
    <3>2. CASE q \notin Receivers(n)
      BY <1>2, <2>k, <3>1, <3>2
    <3>3. CASE q \in Receivers(n)
      <4>1. Range(wire'[q]) = Range(wire[q]) \cup {n}
        BY <1>t, <3>1, <3>3, AppendRange
      <4>2. n \in store /\ msg[n].session = page[q].session
        BY <2>2, <3>3 DEF Emit, Receivers, Members, MessagesInv
      <4>3. CASE m = n
        BY <1>1, <2>k, <4>2, <4>3
      <4>4. CASE m # n
        <5>1. Fits(m, page[q].session)
          BY <2>k, <4>1, <4>4 DEF ScreensInv
        <5> QED  BY <1>1, <2>k, <5>1 DEF Fits
      <4> QED  BY <4>3, <4>4
    <3> QED  BY <3>2, <3>3
  <2> QED  BY <1>4, <2>1, <2>2 DEF MessageStep, Handle, Save, Send
<1>5. ASSUME NEW ask \in asks, ServeHistory(ask)
      PROVE  Goal
  BY <1>2, <1>5 DEF ServeHistory
<1>6. ASSUME NEW ask \in asks, HistoryArrives(ask)
      PROVE  Goal
  <2>k. wire' = wire
    BY <1>6 DEF HistoryArrives
  <2>1. CASE Active(ask) /\ q = ask.page
    <3>1. page'[q].shown = ask.answer /\ page'[q].session = page[q].session
      BY <1>6, <2>1, HistoryRows
    <3>2. ask.session = page[q].session /\ \A n \in ask.answer : Fits(n, ask.session)
      BY <2>1 DEF AsksInv
    <3>3. Fits(m, page[q].session)
      BY <2>k, <3>1, <3>2 DEF ScreensInv
    <3> QED  BY <1>1, <3>1, <3>3 DEF Fits
  <2>2. CASE ~(Active(ask) /\ q = ask.page)
    <3>1. page'[q] = page[q]
      BY <1>6, <2>2, HistoryRows
    <3> QED  BY <1>2, <2>k, <3>1
  <2> QED  BY <2>1, <2>2
<1>7. CASE Restart
  <2>1. /\ page'[q].session = page[q].session /\ page'[q].shown = page[q].shown
        /\ Range(wire'[q]) \subseteq Range(wire[q])
    BY <1>7, BrokenKeeps DEF Restart
  <2> QED  BY <1>2, <2>1
<1>8. CASE UNCHANGED vars
  BY <1>2, <1>8 DEF vars
<1> QED  BY <1>3, <1>4, <1>5, <1>6, <1>7, <1>8 DEF Next, AskStep

(* The requests: a page that is set up anew has asked with a number of its   *)
(* own, which no answer under way carries, and has nothing on its screen     *)
(* until the answer with that number comes.                                  *)
LEMMA AsksStep ==
    ASSUME TypeOK, MessagesInv, AsksInv, [Next]_vars
    PROVE  AsksInv'
<1> DEFINE Fine(a) == /\ a.mount <= page'[a.page].mounts
                      /\ \A m \in a.answer : m \in store' /\ msg'[m].session = a.session
                      /\ a.mount = page'[a.page].mounts => /\ a.session = page'[a.page].session
                                                           /\ ~page'[a.page].loaded
           Goal == /\ \A a \in asks' : Fine(a)
                   /\ \A a, b \in asks' : a.page = b.page /\ a.mount = b.mount => a = b
<1> SUFFICES Goal
  BY DEF AsksInv, Fits, Active
<1>t. \A a \in asks : a \in Asks
  BY DEF TypeOK
<1>i. /\ \A a \in asks : \A m \in a.answer : m \in store' /\ msg'[m].session = a.session
      /\ \A a, b \in asks : a.page = b.page /\ a.mount = b.mount => a = b
      /\ \A a \in asks : /\ a.page \in Pages /\ a.mount \in Nat
                         /\ a.mount <= page[a.page].mounts
                         /\ Active(a) => a.session = page[a.page].session /\ ~page[a.page].loaded
  <2>1. ASSUME NEW a \in asks, NEW m \in a.answer
        PROVE  m \in store' /\ msg'[m].session = a.session
    <3>1. Fits(m, a.session)
      BY DEF AsksInv
    <3>2. m \in store
      BY <3>1 DEF Fits
    <3>3. m \in store' /\ msg'[m].session = msg[m].session
      BY <3>2, StoredStays
    <3> QED  BY <3>1, <3>3 DEF Fits
  <2> QED  BY <1>t, <2>1 DEF AsksInv, Asks
<1>1. ASSUME asks' \subseteq asks,
             \A q \in Pages : /\ page'[q].session = page[q].session /\ page'[q].mounts = page[q].mounts
                              /\ page'[q].loaded = page[q].loaded
      PROVE  Goal
  BY <1>i, <1>1 DEF Active
<1>2. ASSUME NEW p \in Pages, NEW s \in Sessions, Mount(p, s)
      PROVE  Goal
  <2> DEFINE new == [page |-> p, mount |-> page[p].mounts + 1, session |-> s,
                     served |-> FALSE, answer |-> {}]
  <2>1. asks' = asks \cup {new}
    BY <1>2 DEF Mount
  <2>2. /\ new.page = p /\ new.mount = page[p].mounts + 1 /\ new.session = s /\ new.answer = {}
        /\ page[p].mounts \in Nat
    BY DEF TypeOK, Page
  <2> HIDE DEF new
  <2>3. /\ page'[p].session = s /\ page'[p].mounts = page[p].mounts + 1 /\ ~page'[p].loaded
        /\ \A q \in Pages \ {p} : page'[q] = page[q]
    BY <1>2, PageRows
  <2>4. Fine(new)
    BY <2>2, <2>3
  <2>5. ASSUME NEW a \in asks  PROVE Fine(a) /\ ~(a.page = p /\ a.mount = new.mount)
    <3>1. CASE a.page = p
      BY <1>i, <2>2, <2>3, <3>1
    <3>2. CASE a.page # p
      BY <1>i, <2>3, <3>2 DEF Active
    <3> QED  BY <3>1, <3>2
  <2> QED  BY <1>i, <2>1, <2>2, <2>4, <2>5
<1>3. ASSUME NEW ask \in asks, ServeHistory(ask)
      PROVE  Goal
  <2> DEFINE new == [[ask EXCEPT !.served = TRUE] EXCEPT !.answer = Of(ask.session)]
  <2>1. asks' = (asks \ {ask}) \cup {new} /\ UNCHANGED <<store, msg, page>>
    BY <1>3 DEF ServeHistory
  <2>2. /\ new.page = ask.page /\ new.mount = ask.mount /\ new.session = ask.session
        /\ new.answer = Of(ask.session)
    BY <1>t DEF Asks
  <2> HIDE DEF new
  <2>3. Fine(new)
    BY <1>i, <2>1, <2>2 DEF Of, Active
  <2>4. \A a \in asks : Fine(a)
    BY <1>i, <2>1 DEF Active
  <2> QED  BY <1>i, <2>1, <2>2, <2>3, <2>4
<1>4. ASSUME NEW ask \in asks, HistoryArrives(ask)
      PROVE  Goal
  <2>1. asks' = asks \ {ask}
    BY <1>4 DEF HistoryArrives
  <2>2. ASSUME NEW a \in asks'  PROVE Fine(a)
    <3>1. a \in asks /\ a # ask
      BY <2>1
    <3>2. page'[a.page].session = page[a.page].session /\ page'[a.page].mounts = page[a.page].mounts
      BY <1>i, <1>4, <3>1, HistoryRows
    <3>3. CASE a.mount = page[a.page].mounts
      <4>1. ~(Active(ask) /\ a.page = ask.page)
        BY <1>i, <3>1, <3>3 DEF Active
      <4>2. page'[a.page] = page[a.page]
        BY <1>i, <1>4, <3>1, <4>1, HistoryRows
      <4> QED  BY <1>i, <3>1, <4>2 DEF Active
    <3>4. CASE a.mount # page[a.page].mounts
      BY <1>i, <3>1, <3>2, <3>4
    <3> QED  BY <3>3, <3>4
  <2> QED  BY <1>i, <2>1, <2>2
<1>5. ASSUME NEW p \in Pages, Connect(p) \/ Join(p) \/ Receive(p)
      PROVE  Goal
  <2>1. asks' = asks
    BY <1>5 DEF Connect, Join, Receive
  <2>2. \A q \in Pages : /\ page'[q].session = page[q].session /\ page'[q].mounts = page[q].mounts
                         /\ page'[q].loaded = page[q].loaded
    BY <1>5, PageRows
  <2> QED  BY <1>1, <2>1, <2>2
<1>6. CASE Restart \/ \E p \in Pages : Drop(p)
  <2>1. asks' \subseteq asks
    BY <1>6 DEF Restart, Drop
  <2>2. PICK gone \in SUBSET Pages : Broken(gone)
    BY <1>6 DEF Restart, Drop
  <2>3. \A q \in Pages : /\ page'[q].session = page[q].session /\ page'[q].mounts = page[q].mounts
                         /\ page'[q].loaded = page[q].loaded
    BY <2>2, BrokenKeeps
  <2> QED  BY <1>1, <2>1, <2>3
<1>7. ASSUME NEW n \in Messages, MessageStep(n)
      PROVE  Goal
  <2>1. UNCHANGED <<page, asks>>
    BY <1>7 DEF MessageStep, Handle, Save, Emit, Send
  <2> QED  BY <1>1, <2>1
<1>8. CASE UNCHANGED vars
  BY <1>1, <1>8 DEF vars
<1> QED  BY <1>2, <1>3, <1>4, <1>5, <1>6, <1>7, <1>8 DEF Next, PageStep, AskStep

(* What is owed: a page that stands does not ask for its history again, so   *)
(* that no answer wipes its screen; a page that loses its connection is      *)
(* broken from then on; and the broadcast reaches every page in the room.    *)
LEMMA OwedStep ==
    ASSUME TypeOK, MessagesInv, AsksInv, OwedInv, [Next]_vars
    PROVE  OwedInv'
<1> SUFFICES ASSUME NEW q \in Pages, NEW m \in owed'[q]
             PROVE  /\ m \in store' /\ msg'[m].session = page'[q].session
                    /\ q \notin broken' =>
                         /\ page'[q].link = "joined" /\ page'[q].loaded
                         /\ \/ m \in page'[q].shown \/ m \in Range(wire'[q])
                            \/ msg'[m].stage = "stored"
  BY DEF OwedInv, Fits, Steady
<1> DEFINE Fine == m \in store' /\ msg'[m].session = page'[q].session
           Coming == q \notin broken' =>
                       /\ page'[q].link = "joined" /\ page'[q].loaded
                       /\ \/ m \in page'[q].shown \/ m \in Range(wire'[q])
                          \/ msg'[m].stage = "stored"
           Goal == Fine /\ Coming
<1>t. page[q] \in Page /\ wire[q] \in Seq(Messages)
  BY DEF TypeOK
<1>1. ASSUME m \in owed[q], page'[q].session = page[q].session
      PROVE  /\ Fine /\ m \in Messages /\ msg[m] \in Msg
             /\ m \in store /\ msg[m].stage \in {"stored", "over"}
             /\ q \notin broken =>
                  /\ page[q].link = "joined" /\ page[q].loaded
                  /\ \/ m \in page[q].shown \/ m \in Range(wire[q])
                     \/ msg[m].stage = "stored"
  <2>1. m \in store /\ msg[m].session = page[q].session
    BY <1>1 DEF OwedInv, Fits
  <2>2. Fine
    BY <1>1, <2>1, StoredStays
  <2>3. m \in Messages /\ msg[m] \in Msg /\ msg[m].stage \in {"stored", "over"}
    BY <2>1 DEF TypeOK, MessagesInv
  <2> QED  BY <1>1, <2>1, <2>2, <2>3 DEF OwedInv, Steady
<1>2. ASSUME m \in owed[q], page'[q] = page[q], wire'[q] = wire[q],
             msg'[m].stage = msg[m].stage, q \in broken => q \in broken'
      PROVE  Goal
  BY <1>1, <1>2
<1>3. ASSUME NEW p \in Pages, PageStep(p)
      PROVE  Goal
  <2>1. ASSUME NEW s \in Sessions, Mount(p, s)  PROVE Goal
    <3>1. q # p
      BY <2>1, PageRows
    <3>2. page'[q] = page[q] /\ wire'[q] = wire[q] /\ owed'[q] = owed[q] /\ (q \in broken' <=> q \in broken)
      BY <2>1, <3>1, PageRows
    <3>3. msg[m] \in Msg /\ m \in Messages /\ msg[m].stage \in {"stored", "over"}
      BY <1>1, <3>2
    <3>4. msg'[m].stage = msg[m].stage
      BY <2>1, <3>3, HangupKeeps DEF Mount
    <3> QED  BY <1>2, <3>2, <3>4
  <2>2. CASE Connect(p) \/ Join(p)
    <3>1. UNCHANGED <<store, msg, wire, owed, broken>>
      BY <2>2 DEF Connect, Join, ghosts
    <3>2. CASE q # p
      BY <1>2, <2>2, <3>1, <3>2, PageRows
    <3>3. CASE q = p
      <4>1. page'[q].session = page[q].session
        BY <2>2, <3>3, PageRows
      <4>2. Fine /\ q \in broken
        BY <1>1, <2>2, <3>1, <3>3, <4>1 DEF Connect, Join
      <4> QED  BY <3>1, <4>2
    <3> QED  BY <3>2, <3>3
  <2>3. CASE Receive(p)
    <3>1. UNCHANGED <<store, msg, owed, broken>>
      BY <2>3 DEF Receive, ghosts
    <3>2. CASE q # p
      BY <1>2, <2>3, <3>1, <3>2, PageRows
    <3>3. CASE q = p
      <4>1. /\ page'[q].session = page[q].session
            /\ page'[q].loaded = page[q].loaded /\ page'[q].link = page[q].link
            /\ page'[q].shown = page[q].shown \cup {Head(wire[q])}
            /\ Range(wire[q]) = {Head(wire[q])} \cup Range(wire'[q])
        BY <2>3, <3>3, PageRows
      <4> QED  BY <1>1, <3>1, <4>1
    <3> QED  BY <3>2, <3>3
  <2>4. CASE Drop(p)
    <3>1. msg' = Hangup({p}) /\ owed' = owed /\ Broken({p})
      BY <2>4 DEF Drop
    <3>2. /\ page'[q].session = page[q].session
          /\ q # p => page'[q] = page[q] /\ wire'[q] = wire[q]
          /\ q \in broken' <=> q \in broken \/ (q = p /\ Steady(q))
      BY <3>1, BrokenKeeps
    <3>3. msg[m] \in Msg /\ m \in Messages /\ msg[m].stage \in {"stored", "over"}
      BY <1>1, <3>1, <3>2
    <3>4. msg'[m].stage = msg[m].stage
      BY <3>1, <3>3, HangupKeeps
    <3>5. CASE q # p
      BY <1>2, <3>1, <3>2, <3>4, <3>5
    <3>6. CASE q = p
      BY <1>1, <3>1, <3>2, <3>6 DEF Steady
    <3> QED  BY <3>5, <3>6
  <2> QED  BY <1>3, <2>1, <2>2, <2>3, <2>4 DEF PageStep
<1>4. ASSUME NEW n \in Messages, Handle(n) \/ \E p \in Pages : Send(p, n)
      PROVE  Goal
  <2>1. UNCHANGED <<store, page, wire, owed, broken>>
    BY <1>4 DEF Handle, Send, ghosts
  <2>2. m \in Messages /\ msg[m].stage \in {"stored", "over"}
    BY <1>1, <2>1
  <2>3. n # m
    BY <1>4, <2>2 DEF Handle, Send
  <2>4. msg'[m] = msg[m]
    BY <1>4, <2>2, <2>3 DEF Handle, Send, TypeOK
  <2> QED  BY <1>2, <2>1, <2>4
<1>5. ASSUME NEW n \in Messages, Save(n)
      PROVE  Goal
  <2>1. UNCHANGED <<page, wire, broken>> /\ msg[n].stage = "received"
    BY <1>5 DEF Save
  <2>2. CASE m \in owed[q]
    <3>1. m \in Messages /\ msg[m].stage \in {"stored", "over"}
      BY <1>1, <2>1, <2>2
    <3>2. msg'[m] = msg[m]
      BY <1>5, <2>1, <3>1 DEF Save, TypeOK
    <3> QED  BY <1>2, <2>1, <2>2, <3>2
  <2>3. CASE m \notin owed[q]
    <3>1. /\ store' = store \cup {n} /\ msg' = [msg EXCEPT ![n].stage = "stored"]
          /\ m = n /\ page[q].session = msg[n].session /\ (Steady(q) \/ q \in broken)
      BY <1>5, <2>3 DEF Save
    <3>2. msg[n] \in Msg /\ msg'[n] = [msg[n] EXCEPT !.stage = "stored"]
      BY <3>1 DEF TypeOK
    <3>3. msg'[n].stage = "stored" /\ msg'[n].session = msg[n].session
      BY <3>2 DEF Msg
    <3> QED  BY <2>1, <3>1, <3>3 DEF Steady
  <2> QED  BY <2>2, <2>3
<1>6. ASSUME NEW n \in Messages, Emit(n)
      PROVE  Goal
  <2>1. UNCHANGED <<store, page, owed, broken>>
    BY <1>6 DEF Emit, ghosts
  <2>2. wire'[q] = IF q \in Receivers(n) THEN Append(wire[q], n) ELSE wire[q]
    BY <1>6 DEF Emit
  <2>3. Range(wire[q]) \subseteq Range(wire'[q]) /\ (q \in Receivers(n) => n \in Range(wire'[q]))
    BY <1>t, <2>2, AppendRange
  <2>4. m # n => msg'[m] = msg[m]
    BY <1>1, <1>6, <2>1 DEF Emit, TypeOK
  <2>5. q \notin broken /\ m = n => q \in Receivers(n)
    BY <1>1, <2>1 DEF Receivers, Members, OwedInv, Fits
  <2> QED  BY <1>1, <2>1, <2>3, <2>4, <2>5
<1>7. ASSUME NEW ask \in asks, ServeHistory(ask)
      PROVE  Goal
  BY <1>2, <1>7 DEF ServeHistory, ghosts
<1>8. ASSUME NEW ask \in asks, HistoryArrives(ask)
      PROVE  Goal
  <2>1. UNCHANGED <<store, msg, wire, owed, broken>>
    BY <1>8 DEF HistoryArrives, ghosts
  <2>2. CASE ~(Active(ask) /\ q = ask.page)
    BY <1>2, <1>8, <2>1, <2>2, HistoryRows
  <2>3. CASE Active(ask) /\ q = ask.page
    <3>1. ~page[q].loaded
      BY <2>3 DEF AsksInv
    <3>2. page'[q].session = page[q].session
      BY <1>8, HistoryRows
    <3> QED  BY <1>1, <2>1, <3>1, <3>2
  <2> QED  BY <2>2, <2>3
<1>9. CASE Restart
  <2>1. Broken(Pages) /\ owed' = owed
    BY <1>9 DEF Restart
  <2>2. /\ page'[q].session = page[q].session
        /\ q \in broken' <=> q \in broken \/ Steady(q)
    BY <2>1, BrokenKeeps
  <2> QED  BY <1>1, <2>1, <2>2 DEF Steady
<1>10. CASE UNCHANGED vars
  BY <1>2, <1>10 DEF vars
<1> QED  BY <1>3, <1>4, <1>5, <1>6, <1>7, <1>8, <1>9, <1>10 DEF Next, MessageStep, AskStep

-----------------------------------------------------------------------------
(* The theorems.                                                           *)

(* The invariant holds at the start and in every step.                     *)
LEMMA DeliveryInvariant == Spec => []DeliveryInv
<1>1. Init => DeliveryInv
  <2> SUFFICES ASSUME Init  PROVE DeliveryInv
    OBVIOUS
  <2>1. TypeOK
    <3>1. NoMsg \in Msg /\ NoMsg.stage = "unsent"
      BY DEF NoMsg, Msg, Stages
    <3>2. NoPage \in Page
      BY DEF NoPage, Page
    <3> QED  BY <3>1, <3>2, DeliveryAssumption DEF Init, TypeOK
  <2>2. MessagesInv
    BY DEF Init, MessagesInv, NoMsg
  <2>3. ScreensInv
    BY DEF Init, ScreensInv, NoPage, Range
  <2>4. AsksInv /\ OwedInv
    BY DEF Init, AsksInv, OwedInv
  <2> QED  BY <2>1, <2>2, <2>3, <2>4 DEF DeliveryInv
<1>2. DeliveryInv /\ [Next]_vars => DeliveryInv'
  BY NextTypes, MessagesStep, ScreensStep, AsksStep, OwedStep DEF DeliveryInv
<1> QED  BY <1>1, <1>2, PTL DEF Spec

(* Whatever breaks or restarts, the state keeps its types; every message    *)
(* the gateway is handling came from a page.                                *)
THEOREM DeliveryTypes == Spec => []TypeOK
<1>1. DeliveryInv => TypeOK
  BY DEF DeliveryInv
<1> QED  BY <1>1, DeliveryInvariant, PTL

(* No screen shows a message that is not stored, or one of another          *)
(* consultation (renderHistory, mergeMessage, the room of the gateway).     *)
THEOREM ScreensHold == Spec => []ScreenShowsOwnMessages
<1>1. DeliveryInv => ScreenShowsOwnMessages
  BY DEF DeliveryInv, ScreensInv, Fits, ScreenShowsOwnMessages
<1> QED  BY <1>1, DeliveryInvariant, PTL

(* What is stored while a page stands is on its screen, on its way, or      *)
(* about to be sent to it: the safety half of SteadyPagesMissNothing.       *)
THEOREM NothingIsMissed == Spec => []OwedIsOnItsWay
<1>1. DeliveryInv => OwedIsOnItsWay
  BY DEF DeliveryInv, OwedInv, OwedIsOnItsWay
<1> QED  BY <1>1, DeliveryInvariant, PTL

(* Once its history is on the screen, a page takes nothing off it again     *)
(* until it is set up anew: neither a late answer to an earlier mount, nor  *)
(* a connection that breaks and comes back, nor a restart of the server     *)
(* (active in the effect's cleanup, mergeMessage).                          *)
ShownStays ==
    [][\A p \in Pages :
         page[p].loaded /\ page'[p].mounts = page[p].mounts =>
             page'[p].loaded /\ page[p].shown \subseteq page'[p].shown]_vars

(* The screen of a page that has its history.                               *)
LEMMA StepShows ==
    ASSUME DeliveryInv, Next, NEW q \in Pages, page[q].loaded, page'[q].mounts = page[q].mounts
    PROVE  page'[q].loaded /\ page[q].shown \subseteq page'[q].shown
<1> DEFINE Goal == page'[q].loaded /\ page[q].shown \subseteq page'[q].shown
<1>t. TypeOK /\ AsksInv /\ page[q] \in Page
  BY DEF DeliveryInv, TypeOK
<1>1. CASE page'[q] = page[q]
  BY <1>1
<1>2. ASSUME NEW m \in Messages, MessageStep(m) PROVE Goal
  <2>1. UNCHANGED page
    BY <1>2 DEF MessageStep, Handle, Save, Emit, Send
  <2> QED  BY <2>1
<1>3. ASSUME NEW p \in Pages, NEW s \in Sessions, Mount(p, s) PROVE Goal
  <2>1. CASE p = q
    <3>1. page'[q].mounts = page[q].mounts + 1 /\ page[q].mounts \in Nat
      BY <1>3, <1>t, <2>1, PageRows DEF Page
    <3> QED  BY <3>1
  <2>2. CASE p # q
    BY <1>3, <1>t, <2>2, PageRows
  <2> QED  BY <2>1, <2>2
<1>4. ASSUME NEW p \in Pages, Connect(p) \/ Join(p) \/ Receive(p) PROVE Goal
  BY <1>4, <1>t, PageRows
<1>5. ASSUME NEW gone \in SUBSET Pages, Broken(gone) PROVE Goal
  BY <1>5, <1>t, BrokenKeeps
<1>6. ASSUME NEW p \in Pages, Drop(p) PROVE Goal
  BY <1>5, <1>6 DEF Drop
<1>7. CASE Restart
  BY <1>5, <1>7 DEF Restart
<1>8. ASSUME NEW ask \in asks, ServeHistory(ask) PROVE Goal
  BY <1>8 DEF ServeHistory
<1>9. ASSUME NEW ask \in asks, HistoryArrives(ask) PROVE Goal
  <2>1. ~(Active(ask) /\ q = ask.page)
    BY <1>t DEF AsksInv
  <2> QED  BY <1>9, <1>t, <2>1, HistoryRows
<1> QED  BY <1>2, <1>3, <1>4, <1>6, <1>7, <1>8, <1>9 DEF Next, PageStep, AskStep

(* The property, from the invariant that a page with its history waits for  *)
(* no other.                                                                *)
THEOREM NothingIsTakenOff == Spec => ShownStays
<1>1. DeliveryInv /\ [Next]_vars =>
        [\A p \in Pages :
           page[p].loaded /\ page'[p].mounts = page[p].mounts =>
               page'[p].loaded /\ page[p].shown \subseteq page'[p].shown]_vars
  <2>1. ASSUME DeliveryInv, Next, NEW p \in Pages, page[p].loaded, page'[p].mounts = page[p].mounts
        PROVE  page'[p].loaded /\ page[p].shown \subseteq page'[p].shown
    BY <2>1, StepShows
  <2> QED  BY <2>1
<1> QED  BY <1>1, DeliveryInvariant, PTL DEF Spec, ShownStays
===============================================================================
