----------------------------- MODULE GuestVisit -----------------------------
(***************************************************************************)
(* The guest's side of a consultation: the tabs of one device that share   *)
(* the entry of localStorage for the access key of one room, from reading  *)
(* the QR code to the end of the consultation.  The server's sessions are  *)
(* what ChatSessions makes of them, reduced to their status and deadline;  *)
(* the requests pass the limiter.  Another device of the room may hold the *)
(* open session, answers may be lost, and the socket may be down.          *)
(***************************************************************************)
EXTENDS RateLimiter, Sequences

CONSTANTS
    Tabs,       \* browser tabs of the device
    Sessions,   \* session ids the server may give out
    D,          \* length of a consultation after the first reply
    MaxVisits,  \* bound: how often a tab loads the page
    None

\* The requests whose limits are small enough to be reached: POST verify, POST
\* create, GET of a session, and the messages of a tab's socket.
ASSUME GuestKeys == Keys \subseteq {"verify", "create"} \cup Sessions \cup Tabs

ASSUME GuestAssumption == D \in Nat \ {0} /\ MaxVisits \in Nat /\ None \notin Sessions

VARIABLES
    server,     \* the room's sessions: [status, expiresAt], 0 for no deadline
    roomExists, \* the room and with it its access key
    late,       \* copies of a row that are read and not yet published
    stored,     \* localStorage: the session whose token is kept, or None
    saved,      \* sessions whose token this device has ever kept
    tabs,       \* the state of each tab
    news        \* session events on the way to each tab's socket

serverVars == <<server, roomExists, late>>
vars == <<now, limiterVars, serverVars, stored, saved, tabs, news>>

View == [status : {"none", "WAITING", "ACTIVE", "CLOSED", "EXPIRED"}, expiresAt : 0 .. MaxNow]
NoSession == [status |-> "none", expiresAt |-> 0]

\* The answer to a tab's request: a session, the right to create one, a refusal
\* of the token or key (401, 404), or any other failure (409, 429, no network).
Answers == [kind : {"none", "verified", "session", "gone", "failed"},
            id : Sessions \cup {None}, view : View]
Plain(kind) == [kind |-> kind, id |-> None, view |-> NoSession]
SessionAnswer(s, view) == [kind |-> "session", id |-> s, view |-> view]

Screens == {"closed", "loading", "consent", "ready", "error"}
Tab == [screen : Screens,
        access : Sessions \cup {None},      \* access.session.id and its token
        view   : View,                      \* access.session
        call   : {"", "restore", "verify", "create"},
        answer : Answers,
        up     : BOOLEAN,                   \* the socket is connected and joined
        visits : 0 .. MaxVisits]
ClosedTab == [screen |-> "closed", access |-> None, view |-> NoSession, call |-> "",
              answer |-> Plain("none"), up |-> FALSE, visits |-> 0]

TypeOK ==
    /\ LimiterTypeOK
    /\ server \in [Sessions -> View]
    /\ roomExists \in BOOLEAN
    /\ late \in [Sessions -> SUBSET View]
    /\ stored \in Sessions \cup {None}
    /\ saved \subseteq Sessions
    /\ tabs \in [Tabs -> Tab]
    /\ news \in [Tabs -> Seq(View)]

Init ==
    /\ LimiterInit
    /\ server = [s \in Sessions |-> NoSession]
    /\ roomExists = TRUE
    /\ late = [s \in Sessions |-> {}]
    /\ stored = None
    /\ saved = {}
    /\ tabs = [t \in Tabs |-> ClosedTab]
    /\ news = [t \in Tabs |-> <<>>]

-----------------------------------------------------------------------------
(* The server, as ChatSessions describes it.                               *)

Open(s) == server[s].status \in {"WAITING", "ACTIVE"}
Lapsed(s) == server[s].status = "ACTIVE" /\ server[s].expiresAt \in 1 .. now

Announced(s, view) ==
    [t \in Tabs |-> IF tabs[t].up /\ tabs[t].access = s THEN Append(news[t], view) ELSE news[t]]

\* The row of s becomes view, and who has joined its room is told.
Becomes(s, view) ==
    /\ server' = [server EXCEPT ![s] = view]
    /\ news' = Announced(s, view)
    /\ UNCHANGED late

Unchanged == UNCHANGED <<now, limiterVars, roomExists, stored, saved, tabs>>

\* A tab of this device has the token of s, or will have it.
OfDevice(s) == s \in saved \/ \E t \in Tabs : tabs[t].call = "create" /\ tabs[t].answer.id = s

\* The row of s becomes view, and the handler has read it again to tell of it.  Of a
\* session that is not of this device, none of its tabs hears the event.
BecomesUntold(s, view) ==
    /\ server' = [server EXCEPT ![s] = view]
    /\ late' = IF OfDevice(s) THEN [late EXCEPT ![s] = @ \cup {view}] ELSE late
    /\ UNCHANGED news

\* open(): the update of an unassigned row.
StaffOpens(s) ==
    /\ server[s].status = "WAITING"
    /\ BecomesUntold(s, [server[s] EXCEPT !.status = "ACTIVE"])
    /\ Unchanged

\* save(): the transaction of the agent's first reply.
FirstReply(s) ==
    /\ server[s].status = "ACTIVE" /\ server[s].expiresAt = 0
    /\ now + D <= MaxNow
    /\ BecomesUntold(s, [server[s] EXCEPT !.expiresAt = now + D])
    /\ Unchanged

\* The event carries the row as open() or save() has read it: the session may have
\* moved on since, and that have been told.
CopyTold(s) ==
    /\ \E view \in late[s] :
         /\ news' = Announced(s, view)
         /\ late' = [late EXCEPT ![s] = @ \ {view}]
    /\ UNCHANGED server /\ Unchanged

StaffCloses(s) ==
    /\ Open(s)
    /\ Becomes(s, [server[s] EXCEPT !.status = "CLOSED"])
    /\ Unchanged

Expire(s) ==
    /\ Lapsed(s)
    /\ Becomes(s, [server[s] EXCEPT !.status = "EXPIRED"])
    /\ Unchanged

\* The retention job deletes what has ended.
Retention(s) ==
    /\ server[s].status \in {"CLOSED", "EXPIRED"}
    /\ server' = [server EXCEPT ![s] = NoSession]
    /\ s \in saved      \* an id this device never knew may be given out again
    /\ UNCHANGED <<late, news>> /\ Unchanged

\* An administrator deletes the room with its key and its sessions.
RemoveRoom ==
    /\ roomExists
    /\ roomExists' = FALSE
    /\ server' = [s \in Sessions |-> NoSession]
    /\ UNCHANGED <<late, now, limiterVars, stored, saved, tabs, news>>

NewView == [status |-> "WAITING", expiresAt |-> 0]
\* A bug: the window starts with the session.
WindowAtOnce(s) == [server EXCEPT ![s] = [status |-> "WAITING", expiresAt |-> now + D]]
Created(s) == [server EXCEPT ![s] = NewView]
IsFree(s) == server[s].status = "none" /\ s \notin saved

\* Another device with the key of the room starts a consultation, or a
\* request this device has given up is served late.
RivalStarts(s) ==
    /\ roomExists /\ IsFree(s) /\ ~ \E o \in Sessions : Open(o)
    /\ server' = Created(s)
    /\ UNCHANGED <<late, news>> /\ Unchanged

-----------------------------------------------------------------------------
(* prepare(): the page is loaded.                                          *)

\* The middleware lets the request through, and counts it.
Passes(key) == IF key \in Keys THEN Allowed(key) /\ Allow(key) ELSE UNCHANGED limiterVars

\* handleDisconnect of the tab's socket.
HandleDisconnect(t) == IF t \in Keys THEN Forget(t) ELSE UNCHANGED limiterVars

\* isGuestSessionOpen
IsGuestSessionOpen(view) ==
    \/ view.status = "WAITING"
    \/ view.status = "ACTIVE" /\ (view.expiresAt = 0 \/ view.expiresAt > now)

\* Opening or reloading the page: what was saved is a session as created, and
\* so always passes readStoredGuestAccess.  Without one the consent screen is
\* shown at once.  The tab's former page, its request and its socket are gone.
Visit(t) ==
    /\ tabs[t].visits < MaxVisits
    /\ tabs' = [tabs EXCEPT ![t] =
         [ClosedTab EXCEPT !.visits = tabs[t].visits + 1,
                           !.screen = IF stored = None THEN "consent" ELSE "loading",
                           !.access = stored,
                           !.call = IF stored = None THEN "" ELSE "restore"]]
    /\ news' = [news EXCEPT ![t] = <<>>]
    /\ HandleDisconnect(t)
    /\ UNCHANGED <<now, serverVars, stored, saved>>

Asked(t, call) == tabs[t].call = call /\ tabs[t].answer.kind = "none"
Answer(t, answer) == tabs' = [tabs EXCEPT ![t].answer = answer]
Answered(t, call) == tabs[t].call = call /\ tabs[t].answer.kind # "none"

\* The network fails, before the server has the request or on the way back.
LoseAnswer(t) ==
    /\ tabs[t].call # "" /\ tabs[t].answer.kind # "failed"
    /\ Answer(t, Plain("failed"))
    /\ UNCHANGED <<now, limiterVars, serverVars, stored, saved, news>>

KeyOf(t) == IF tabs[t].call = "restore" THEN tabs[t].access ELSE tabs[t].call

\* The middleware refuses with 429 what exceeds the limit of its key.
RefuseRequest(t) ==
    /\ tabs[t].call # "" /\ Asked(t, tabs[t].call)
    /\ KeyOf(t) \in Keys /\ ~Allowed(KeyOf(t)) /\ Allow(KeyOf(t))
    /\ Answer(t, Plain("failed"))
    /\ UNCHANGED <<now, serverVars, stored, saved, news>>

\* GET chat-sessions/:id, ending a lapsed session on the way (findOrThrow).
GetSession(t) ==
    LET s == tabs[t].access
        found == IF Lapsed(s) THEN [server[s] EXCEPT !.status = "EXPIRED"] ELSE server[s]
    IN  /\ Asked(t, "restore") /\ Passes(s)
        /\ Answer(t, IF found = NoSession THEN Plain("gone") ELSE SessionAnswer(s, found))
        /\ server' = [server EXCEPT ![s] = found]
        /\ news' = IF Lapsed(s) THEN Announced(s, found) ELSE news
        /\ UNCHANGED <<now, roomExists, late, stored, saved>>

\* A bug: any failure of the request discards the token.
ClearOnFailure(t) ==
    LET answer == tabs[t].answer
        open == answer.kind = "session" /\ IsGuestSessionOpen(answer.view)
    IN  /\ Answered(t, "restore")
        /\ tabs' = [tabs EXCEPT ![t] =
             IF open THEN [@ EXCEPT !.screen = "ready", !.view = answer.view, !.call = "", !.answer = Plain("none")]
                     ELSE [ClosedTab EXCEPT !.screen = "consent", !.visits = tabs[t].visits]]
        /\ stored' = IF open THEN stored ELSE None
        /\ UNCHANGED <<now, limiterVars, serverVars, saved, news>>
\* A bug: a session that has ended is taken for one to come back to.
RestoreAny(t) ==
    LET answer == tabs[t].answer
        open == answer.kind = "session"
        gone == answer.kind = "gone"
    IN  /\ Answered(t, "restore")
        /\ tabs' = [tabs EXCEPT ![t] =
             IF open THEN [@ EXCEPT !.screen = "consent", !.call = "", !.answer = Plain("none"), !.access = None]
                     ELSE [ClosedTab EXCEPT !.visits = tabs[t].visits,
                                            !.screen = IF gone THEN "consent" ELSE "error"]]
        /\ stored' = IF gone THEN None ELSE stored
        /\ UNCHANGED <<now, limiterVars, serverVars, saved, news>>

\* prepare() after getSession: an open session is shown; the token of one that
\* has ended or is refused is discarded; any other failure keeps the token.
Restored(t) ==
    LET answer == tabs[t].answer
        open == answer.kind = "session" /\ IsGuestSessionOpen(answer.view)
        gone == answer.kind = "gone"
        ended == answer.kind = "session" /\ ~open
    IN  /\ Answered(t, "restore")
        /\ tabs' = [tabs EXCEPT ![t] =
             IF open THEN [@ EXCEPT !.screen = "ready", !.view = answer.view, !.call = "", !.answer = Plain("none")]
                     ELSE [ClosedTab EXCEPT
                             !.visits = tabs[t].visits,
                             !.screen = IF gone \/ ended THEN "consent" ELSE "error"]]
        /\ stored' = IF gone \/ ended THEN None ELSE stored
        /\ UNCHANGED <<now, limiterVars, serverVars, saved, news>>

-----------------------------------------------------------------------------
(* startConsultation(): verifyAccess, then createSession, then save.       *)

Start(t) ==
    /\ tabs[t].screen = "consent" /\ tabs[t].call = ""
    /\ tabs' = [tabs EXCEPT ![t].call = "verify"]
    /\ UNCHANGED <<now, limiterVars, serverVars, stored, saved, news>>

\* RoomsService.verifyAccess
VerifyAccess(t) ==
    /\ Asked(t, "verify") /\ Passes("verify")
    /\ Answer(t, Plain(IF roomExists THEN "verified" ELSE "gone"))
    /\ UNCHANGED <<now, serverVars, stored, saved, news>>

Verified(t) ==
    /\ Answered(t, "verify") /\ tabs[t].answer.kind = "verified"
    /\ tabs' = [tabs EXCEPT ![t].call = "create", ![t].answer = Plain("none")]
    /\ UNCHANGED <<now, limiterVars, serverVars, stored, saved, news>>

\* ChatSessionsService.create: 401 without the key, 409 when the room has an
\* open session, else a new one.
CreateSession(t) ==
    /\ Asked(t, "create") /\ Passes("create")
    /\ \/ /\ ~roomExists /\ Answer(t, Plain("gone")) /\ UNCHANGED server
       \/ /\ roomExists /\ (\E o \in Sessions : Open(o))
          /\ Answer(t, Plain("failed")) /\ UNCHANGED server
       \/ /\ roomExists /\ ~(\E o \in Sessions : Open(o))
          /\ \E s \in Sessions : IsFree(s) /\ server' = Created(s) /\ Answer(t, SessionAnswer(s, NewView))
    /\ UNCHANGED <<now, roomExists, late, stored, saved, news>>

Started(t) ==
    LET s == tabs[t].answer.id
    IN  /\ Answered(t, "create") /\ tabs[t].answer.kind = "session"
        /\ stored' = s
        /\ saved' = saved \cup {s}
        /\ tabs' = [tabs EXCEPT ![t] = [@ EXCEPT !.screen = "ready", !.access = s, !.call = "",
              !.view = NewView, !.answer = Plain("none")]]
        /\ UNCHANGED <<now, limiterVars, serverVars, news>>

NotStarted(t) ==
    /\ \/ Answered(t, "verify") /\ tabs[t].answer.kind # "verified"
       \/ Answered(t, "create") /\ tabs[t].answer.kind # "session"
    /\ tabs' = [tabs EXCEPT ![t].screen = "error", ![t].call = "", ![t].answer = Plain("none")]
    /\ UNCHANGED <<now, limiterVars, serverVars, stored, saved, news>>

-----------------------------------------------------------------------------
(* The open page: its socket, its session events, and its clock.           *)

\* The socket connects and joins; a session that is gone is refused.  Events
\* published while it was down are not repeated.
Connect(t) ==
    LET s == tabs[t].access
    IN  /\ tabs[t].screen = "ready" /\ ~tabs[t].up
        /\ server[s] # NoSession /\ ~Lapsed(s)
        /\ tabs' = [tabs EXCEPT ![t].up = TRUE]
        /\ UNCHANGED <<now, limiterVars, serverVars, stored, saved, news>>

Disconnect(t) ==
    /\ tabs[t].up
    /\ tabs' = [tabs EXCEPT ![t].up = FALSE]
    /\ news' = [news EXCEPT ![t] = <<>>]
    /\ HandleDisconnect(t)
    /\ UNCHANGED <<now, serverVars, stored, saved>>

\* The page sends a message: the gateway asks the limiter for the socket before
\* anything else (what becomes of the message is in ChatSessions).
Send(t) ==
    /\ tabs[t].up /\ IsGuestSessionOpen(tabs[t].view) /\ t \in Keys
    /\ Allow(t)
    /\ UNCHANGED <<now, serverVars, stored, saved, tabs, news>>

\* chat:session-updated and chat:session-closed
SessionEvent(t) ==
    LET view == Head(news[t])
    IN  /\ news[t] # <<>>
        /\ tabs' = [tabs EXCEPT ![t].view = view]
        /\ stored' = IF view.status \in {"CLOSED", "EXPIRED"} THEN None ELSE stored
        /\ news' = [news EXCEPT ![t] = Tail(news[t])]
        /\ UNCHANGED <<now, limiterVars, serverVars, saved>>

Terminal(t) == tabs[t].view.status \in {"CLOSED", "EXPIRED"}
\* A bug: only what the server calls expired is expired.
NeverExpired(t) == tabs[t].view.status = "ACTIVE" /\ tabs[t].view.expiresAt > MaxNow
ExpiredByClock(t) == tabs[t].view.status = "ACTIVE" /\ tabs[t].view.expiresAt \in 1 .. now

\* The effect on [access, accessKey, now], run again every second: it discards
\* whatever is stored under the access key.
ClockEffect(t) ==
    /\ tabs[t].screen = "ready" /\ (Terminal(t) \/ ExpiredByClock(t))
    /\ stored # None \/ ~Terminal(t)
    /\ stored' = None
    /\ tabs' = [tabs EXCEPT ![t].view.status = IF Terminal(t) THEN @ ELSE "EXPIRED"]
    /\ UNCHANGED <<now, limiterVars, serverVars, saved, news>>

-----------------------------------------------------------------------------
TabStep(t) ==
    \/ Visit(t) \/ LoseAnswer(t) \/ RefuseRequest(t)
    \/ GetSession(t) \/ Restored(t)
    \/ Start(t) \/ VerifyAccess(t) \/ Verified(t) \/ CreateSession(t) \/ Started(t) \/ NotStarted(t)
    \/ Connect(t) \/ Disconnect(t) \/ Send(t) \/ SessionEvent(t) \/ ClockEffect(t)

ServerStep(s) ==
    \/ StaffOpens(s) \/ FirstReply(s) \/ CopyTold(s)
    \/ StaffCloses(s) \/ Expire(s) \/ Retention(s) \/ RivalStarts(s)

Next ==
    \/ Tick /\ UNCHANGED <<limiterVars, serverVars, stored, saved, tabs, news>>
    \/ RemoveRoom
    \/ \E s \in Sessions : ServerStep(s)
    \/ \E t \in Tabs : TabStep(t)

(* Time passes, the server answers or the request fails, and the page      *)
(* handles the answers and its timer: nothing else is owed to the guest.   *)
Spec ==
    /\ Init /\ [][Next]_vars
    /\ WF_vars(Tick /\ UNCHANGED <<limiterVars, serverVars, stored, saved, tabs, news>>)
    /\ \A t \in Tabs :
         /\ WF_vars(GetSession(t) \/ RefuseRequest(t) \/ LoseAnswer(t))
         /\ WF_vars(Restored(t))
         /\ WF_vars(ClockEffect(t))

-----------------------------------------------------------------------------
\* The consultation goes on: it is open, and its deadline has not passed.
Running(s) == Open(s) /\ ~Lapsed(s)

\* The consultation that a page is about: the one it has just been given, or the
\* one it asks for or shows.
Concern(t) == IF tabs[t].call = "create" THEN tabs[t].answer.id ELSE tabs[t].access

(* A consultation this device has started stays reachable from it until it *)
(* ends: whatever requests fail, are refused or are lost, reading the QR   *)
(* code again finds the token, and the guest is not locked out of its own  *)
(* open session by the rule of one open session per room.                  *)
RestorableUntilEnded ==
    \A s \in saved : Running(s) => stored = s

(* The token of a consultation that goes on is lost to no failure, no       *)
(* refusal and no event: only a page of this device that is about another   *)
(* consultation, one already over, puts it out of the store.                *)
OnlyOldPagesForget ==
    [][\A s \in saved : stored = s /\ Running(s) /\ stored' # s =>
         \E t \in Tabs : TabStep(t) /\ Concern(t) \in Sessions \ {s} /\ ~Running(Concern(t))]_vars

(* docs/03_User_Flows.md:19: the device that reads the QR code again comes  *)
(* back to its WAITING or ACTIVE consultation.  For that, while a           *)
(* consultation of this device is open, some token must be stored.          *)
DeviceRemembers ==
    (\E s \in saved : Running(s)) => stored # None

(* A visit that asks for a consultation that has ended forgets its token,  *)
(* so that the guest can start anew, or shows the failure.                 *)
EndedIsForgotten ==
    \A t \in Tabs, s \in Sessions :
        (Asked(t, "restore") /\ stored = s /\ ~Running(s))
            ~> (stored # s \/ tabs[t].screen = "error")

\* Of s, an event without a window may still come to tab t: the one of open().
OpeningUntold(t, s) ==
    LET isOpening(view) == view.status = "ACTIVE" /\ view.expiresAt = 0
    IN  \/ \E view \in late[s] : isOpening(view)
        \/ \E i \in DOMAIN news[t] : isOpening(news[t][i])

KnowsDeadline(t, s) ==
    tabs[t].screen = "ready" /\ tabs[t].access = s /\ tabs[t].view.expiresAt # 0
LeavesToken(t, s) == stored # s \/ tabs[t].screen # "ready"

(* A page that knows the deadline forgets the token once it has passed,    *)
(* also when the socket is down and the server's event never comes; unless *)
(* the event of open(), which has no deadline, is still to come.           *)
DeadlineIsKept ==
    \A t \in Tabs, s \in Sessions :
        KnowsDeadline(t, s) /\ ~OpeningUntold(t, s) ~> LeavesToken(t, s)

(* apps/guest-web/src/main.tsx:71: the browser forgets the token at the    *)
(* deadline even if the server's event is late, so that the next visit is  *)
(* not bound to the old consultation.  But the late event of open() makes a *)
(* page forget the deadline it knows, and when the event of the end is     *)
(* missed, nothing ends the consultation on that page.                     *)
TokenGoneAtDeadline ==
    \A t \in Tabs, s \in Sessions :
        KnowsDeadline(t, s) /\ Running(s) ~> LeavesToken(t, s) \/ server[s] = NoSession

(* The server tells what it has to tell and ends what has lapsed, and the  *)
(* page's socket connects again and hands on its events.                   *)
AttentiveSpec ==
    /\ Spec
    /\ \A s \in Sessions : WF_vars(CopyTold(s)) /\ WF_vars(Expire(s))
    /\ \A t \in Tabs : WF_vars(Connect(t)) /\ WF_vars(SessionEvent(t))
=============================================================================
