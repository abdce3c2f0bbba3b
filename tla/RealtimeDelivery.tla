-------------------------- MODULE RealtimeDelivery --------------------------
(***************************************************************************)
(* How the messages of a consultation reach the screens: the history that  *)
(* a page reads once by REST, the socket that joins the consultation's     *)
(* room, and the gateway that answers the sender and broadcasts to the     *)
(* room once a message is stored.  A page is the guest's chat or the       *)
(* agent's conversation panel; both are the same program in this respect.  *)
(* Connections drop and come back, and the server restarts.                *)
(***************************************************************************)
EXTENDS Integers, Sequences, FiniteSets, SequencesExt

CONSTANTS
    Pages,      \* guests' chats and agents' conversation panels
    Sessions,
    Shows,      \* which sessions a page may show: a guest's only its own
    Messages,
    MaxMounts,  \* bound: how often each page is set up
    MaxDrops,   \* bound: how often connections break
    None

ASSUME DeliveryAssumption ==
    /\ None \notin Pages /\ Shows \in [Pages -> SUBSET Sessions]
    /\ MaxMounts \in [Pages -> Nat] /\ MaxDrops \in Nat

VARIABLES
    store,      \* the messages in the database
    msg,        \* each message: where from, which session, how far it has come
    page,       \* what each page shows and waits for
    wire,       \* events on their way to the page's socket
    asks,       \* history requests under way, also of earlier mounts
    drops,
    owed,       \* messages stored since the page was first joined with its history
    broken      \* pages whose connection broke after that

vars == <<store, msg, page, wire, asks, drops, owed, broken>>

ghosts == <<owed, broken>>

Stages == {"unsent", "emitted", "received", "stored", "over"}
Msg == [stage : Stages, from : Pages \cup {None}, session : Sessions \cup {None},
        alive : BOOLEAN]    \* the socket it was sent on is still connected

NoMsg == [stage |-> "unsent", from |-> None, session |-> None, alive |-> FALSE]

Page == [session : Sessions \cup {None}, mounts : Nat, loaded : BOOLEAN,
         link : {"closed", "connecting", "up", "joined"}, shown : SUBSET Messages]
NoPage == [session |-> None, mounts |-> 0, loaded |-> FALSE, link |-> "closed", shown |-> {}]

\* An answer is what the query found, or not there yet.
Asks == [page : Pages, mount : Nat, session : Sessions,
         served : BOOLEAN, answer : SUBSET Messages]

TypeOK ==
    /\ store \subseteq Messages
    /\ msg \in [Messages -> Msg]
    /\ \A m \in Messages : msg[m].stage \in {"emitted", "received", "stored"} => msg[m].from # None
    /\ page \in [Pages -> Page]
    /\ wire \in [Pages -> Seq(Messages)]
    /\ asks \subseteq Asks
    /\ drops \in 0 .. MaxDrops
    /\ owed \in [Pages -> SUBSET Messages]
    /\ broken \subseteq Pages

Init ==
    /\ store = {}
    /\ msg = [m \in Messages |-> NoMsg]
    /\ page = [p \in Pages |-> NoPage]
    /\ wire = [p \in Pages |-> <<>>]
    /\ asks = {}
    /\ drops = 0
    /\ owed = [p \in Pages |-> {}]
    /\ broken = {}

\* The page is in its room and has shown its history.
Steady(p) == page[p].link = "joined" /\ page[p].loaded

Of(s) == {m \in store : msg[m].session = s}

\* A bug: what is lost is left in the queue, without the socket it came from.
StillQueued == [NoMsg EXCEPT !.stage = "emitted"]
Lost == [NoMsg EXCEPT !.stage = "over"]

\* The messages sent on a socket that is gone: what had not reached the server
\* is lost, what had is still handled.
Hangup(gone) ==
    [m \in Messages |->
       CASE msg[m].from \notin gone -> msg[m]
         [] msg[m].from \in gone /\ msg[m].stage = "emitted" -> Lost
         [] OTHER -> [msg[m] EXCEPT !.alive = FALSE]]

-----------------------------------------------------------------------------
(* The page.                                                               *)

\* The effect of the page runs anew, for a session chosen, for a status that
\* has changed, or after a reload: an empty screen, a request for the history,
\* and a new socket; the old one is disconnected.
Mount(p, s) ==
    /\ page[p].mounts < MaxMounts[p] /\ s \in Shows[p]
    /\ page' = [page EXCEPT ![p] =
         [session |-> s, mounts |-> @.mounts + 1, loaded |-> FALSE,
          link |-> "connecting", shown |-> {}]]
    /\ asks' = asks \cup {[page |-> p, mount |-> page[p].mounts + 1, session |-> s,
                           served |-> FALSE, answer |-> {}]}
    /\ wire' = [wire EXCEPT ![p] = <<>>]
    /\ msg' = Hangup({p})
    /\ owed' = [owed EXCEPT ![p] = {}]
    /\ broken' = broken \ {p}
    /\ UNCHANGED <<store, drops>>

\* GET chat-sessions/:id/messages
ServeHistory(ask) ==
    /\ ~ask.served
    /\ asks' = (asks \ {ask}) \cup {[ask EXCEPT !.served = TRUE, !.answer = Of(ask.session)]}
    /\ UNCHANGED <<store, msg, page, wire, drops, ghosts>>

\* A bug: the answer to an earlier mount is shown as well.
AnyMount(ask) == TRUE
\* The cleanup of the effect has set active to false for every earlier mount.
Active(ask) == ask.mount = page[ask.page].mounts

\* The history takes the place of whatever is on the screen.  A request that
\* fails is not repeated: it is as good as never answered.
HistoryArrives(ask) ==
    /\ ask.served
    /\ asks' = asks \ {ask}
    /\ page' = IF Active(ask) THEN [page EXCEPT ![ask.page].shown = ask.answer,
                                                ![ask.page].loaded = TRUE]
                              ELSE page
    /\ UNCHANGED <<store, msg, wire, drops, ghosts>>

\* mergeMessage, for chat:message and chat:message-accepted
Receive(p) ==
    /\ wire[p] # <<>>
    /\ page' = [page EXCEPT ![p].shown = @ \cup {Head(wire[p])}]
    /\ wire' = [wire EXCEPT ![p] = Tail(wire[p])]
    /\ UNCHANGED <<store, msg, asks, drops, ghosts>>

\* send(): what is emitted on a socket that is not connected waits for it.
Send(p, m) ==
    /\ page[p].session # None /\ msg[m].stage = "unsent"
    /\ msg' = [msg EXCEPT ![m] = [stage |-> "emitted", from |-> p, alive |-> TRUE,
                                  session |-> page[p].session]]
    /\ UNCHANGED <<store, page, wire, asks, drops, ghosts>>

-----------------------------------------------------------------------------
(* The gateway.                                                            *)

Connected(p) == page[p].link \in {"up", "joined"}

\* The handshake succeeds: the page's connect handler asks to join.
Connect(p) ==
    /\ page[p].link = "connecting"
    /\ page' = [page EXCEPT ![p].link = "up"]
    /\ UNCHANGED <<store, msg, wire, asks, drops, ghosts>>

\* join: authorizeRealtime, then socket.join.  A page that is refused, or never
\* answered, stays connected without its room: nothing forces this step.
Join(p) ==
    /\ page[p].link = "up"
    /\ page' = [page EXCEPT ![p].link = "joined"]
    /\ UNCHANGED <<store, msg, wire, asks, drops, ghosts>>

\* The connections of some pages break; the sockets try again by themselves.
Broken(gone) ==
    /\ page' = [p \in Pages |->
         IF p \in gone /\ Connected(p) THEN [page[p] EXCEPT !.link = "connecting"] ELSE page[p]]
    /\ wire' = [p \in Pages |-> IF p \in gone THEN <<>> ELSE wire[p]]
    /\ broken' = broken \cup {p \in gone : Steady(p)}
    /\ drops < MaxDrops /\ drops' = drops + 1

Drop(p) ==
    /\ Connected(p) /\ Broken({p})
    /\ msg' = Hangup({p})
    /\ UNCHANGED <<store, asks, owed>>

\* The server stops and starts: what is not stored, or stored and not yet
\* broadcast, goes no further, and no request is answered.
Restart ==
    /\ Broken(Pages)
    /\ msg' = [m \in Messages |->
         CASE msg[m].stage \in {"emitted", "received"} -> Lost
           [] msg[m].stage = "stored" -> [msg[m] EXCEPT !.stage = "over", !.alive = FALSE]
           [] OTHER -> msg[m]]
    /\ asks' = {}
    /\ UNCHANGED <<store, owed>>

\* The message reaches the gateway, which hands it to MessagesService.save.
Handle(m) ==
    /\ msg[m].stage = "emitted" /\ Connected(msg[m].from)
    /\ msg' = [msg EXCEPT ![m].stage = "received"]
    /\ UNCHANGED <<store, page, wire, asks, drops, ghosts>>

\* save() stores the message, or refuses it.
Save(m) ==
    /\ msg[m].stage = "received"
    /\ \/ /\ store' = store \cup {m} /\ msg' = [msg EXCEPT ![m].stage = "stored"]
          /\ owed' = [p \in Pages |-> IF page[p].session = msg[m].session /\ (Steady(p) \/ p \in broken)
                                      THEN owed[p] \cup {m} ELSE owed[p]]
       \/ msg' = [msg EXCEPT ![m] = Lost] /\ UNCHANGED <<store, owed>>
    /\ UNCHANGED <<page, wire, asks, drops, broken>>

\* A bug: the broadcast goes to every page that has joined some room.
EveryRoom(m) == {p \in Pages : page[p].link = "joined"}
\* Whose sockets are in the room of the message's session.
Members(m) == {p \in Pages : page[p].link = "joined" /\ page[p].session = msg[m].session}

\* A bug: the broadcast leaves the sender's room mates of the same connection out.
NoBroadcast(m) == IF msg[m].alive THEN {msg[m].from} ELSE {}
\* accepted to the sender's socket, if that one is still connected, and the
\* message to the others in the room.
Receivers(m) == (IF msg[m].alive THEN {msg[m].from} ELSE {}) \cup Members(m)

\* A bug: the message is broadcast while it is being stored.
EarlyEmit(m) ==
    /\ msg[m].stage \in {"received", "stored"}
    /\ wire' = [p \in Pages |-> IF p \in Receivers(m) THEN Append(wire[p], m) ELSE wire[p]]
    /\ msg' = [msg EXCEPT ![m].stage = "over", ![m].alive = FALSE]
    /\ UNCHANGED <<store, page, asks, drops, ghosts>>
Emit(m) ==
    /\ msg[m].stage = "stored"
    /\ wire' = [p \in Pages |-> IF p \in Receivers(m) THEN Append(wire[p], m) ELSE wire[p]]
    /\ msg' = [msg EXCEPT ![m].stage = "over", ![m].alive = FALSE]
    /\ UNCHANGED <<store, page, asks, drops, ghosts>>

-----------------------------------------------------------------------------
MessageStep(m) == Handle(m) \/ Save(m) \/ Emit(m) \/ (\E p \in Pages : Send(p, m))

PageStep(p) ==
    \/ \E s \in Sessions : Mount(p, s)
    \/ Connect(p) \/ Join(p) \/ Drop(p) \/ Receive(p)

AskStep(ask) == ServeHistory(ask) \/ HistoryArrives(ask)

Next ==
    \/ \E m \in Messages : MessageStep(m)
    \/ \E p \in Pages : PageStep(p)
    \/ \E ask \in asks : AskStep(ask)
    \/ Restart

(* The server goes on with what it has received, and a connection that      *)
(* stands delivers; nothing makes a page connect, or a guest write.         *)
Spec ==
    /\ Init /\ [][Next]_vars
    /\ \A m \in Messages : WF_vars(Save(m)) /\ WF_vars(Emit(m))
    /\ \A p \in Pages : WF_vars(Receive(p))

-----------------------------------------------------------------------------
(* A page shows nothing that is not stored: no message that was refused, or *)
(* lost in a restart between its arrival and its commit, is on any screen.  *)
(* And it shows only its own consultation, though the handler of            *)
(* chat:message does not look at the session of a message and the answer to *)
(* an earlier choice may come after a later one.                            *)
ScreenShowsOwnMessages ==
    \A p \in Pages : \A m \in page[p].shown :
        m \in store /\ msg[m].session = page[p].session

(* Of what is stored while a page stands, joined and with its history shown, *)
(* everything is on the screen, on its way to it, or about to be sent: no    *)
(* late answer of the history takes it away, and the room and the sender's   *)
(* own answer together leave no page out (Server.emit, mergeMessage).        *)
OwedIsOnItsWay ==
    \A p \in Pages \ broken : \A m \in owed[p] :
        m \in page[p].shown \/ m \in Range(wire[p]) \/ msg[m].stage = "stored"

(* A page that is joined and has shown its history when a message is stored *)
(* shows the message, unless its connection breaks or it is set up anew.    *)
SteadyPagesMissNothing ==
    \A p \in Pages, m \in Messages :
        m \in owed[p] /\ p \notin broken ~> (m \in page[p].shown \/ m \notin owed[p] \/ p \in broken)

(* docs/03_User_Flows.md:16: after a connection was lost and is back, the   *)
(* history is read again and the messages missed are restored.              *)
MissedIsRestored ==
    \A p \in Pages :
        (Steady(p) /\ wire[p] = <<>> /\ \A m \in Messages : msg[m].stage # "stored")
            => owed[p] \subseteq page[p].shown
=============================================================================
