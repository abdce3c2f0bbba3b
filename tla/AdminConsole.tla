---------------------------- MODULE AdminConsole ----------------------------
(***************************************************************************)
(* The administrator's two pages: the dashboard of hotels and rooms        *)
(* (AdminPage), which edits them, asks for its lists after every edit and  *)
(* every change of its controls, and is not the only administrator's; and  *)
(* the log of the working page (LogPages), which loses the consultations   *)
(* of what is removed here.  Going from one page to the other unmounts the *)
(* first: the answers it waits for change nothing any more.                *)
(***************************************************************************)
EXTENDS LogPages

CONSTANT MaxEdits   \* bound: edits of the page, and of other administrators

ASSUME ConsoleAssumption == Rooms \subseteq Nat /\ MaxEdits \in Nat

VARIABLES
    hotels, rooms,  \* the database
    route,          \* the page on the screen: "agent" or "admin"
    edit,           \* the edit of the page that is under way
    edits,          \* how many edits there have been, here and elsewhere
    filter, roomPage,   \* roomHotelId and roomPage
    asks,           \* refreshes under way
    shownHotels, shownRooms,
    consoleError,
    asked           \* ghost: what the last refresh asked for

stock == <<hotels, rooms>>
console == <<filter, roomPage, asks, shownHotels, shownRooms, consoleError, asked>>
vars == <<stock, route, edit, edits, console, logVars>>

Kinds == {"addHotel", "removeHotel", "addRoom", "removeRoom", "data"}
Targets == Hotels \cup Rooms \cup {None}
NoEdit == [kind |-> "data", target |-> None, stage |-> "none", filter |-> None, page |-> 1]
NoRooms == [filter |-> None, items |-> <<>>, page |-> 1, pages |-> 1]

TypeOK ==
    /\ LogTypeOK
    /\ hotels \subseteq Hotels /\ rooms \subseteq Rooms
    /\ route \in {"agent", "admin"}
    /\ edit \in [kind : Kinds, target : Targets, filter : Filters, page : 1 .. Cardinality(Rooms) + 1,
                 stage : {"none", "sent", "done", "refused"}]
    /\ edits \in [here : 0 .. MaxEdits, elsewhere : 0 .. MaxEdits]
    /\ filter \in Filters /\ roomPage \in 1 .. Cardinality(Rooms) + 1
    /\ \A a \in asks : a.filter \in Filters /\ a.page \in Nat \ {0}
    /\ shownHotels \subseteq Hotels
    /\ Range(shownRooms.items) \subseteq Rooms /\ shownRooms.page \in 1 .. shownRooms.pages

Ask(f, p) == [latest |-> TRUE, filter |-> f, page |-> p, hotels |-> None, count |-> None, rooms |-> None]

Complete(a) == a.hotels # None /\ a.rooms # None

\* refresh(): every earlier one is outdated.  Those whose answer is on its way
\* are kept; what else is read for them, nothing depends on.
Refresh(f, p, before) ==
    /\ asks' = {[a EXCEPT !.latest = FALSE] : a \in {b \in before : Complete(b)}} \cup {Ask(f, p)}
    /\ asked' = [filter |-> f, page |-> p]

\* The dashboard as it is mounted.
Unmounted == filter' = None /\ roomPage' = 1 /\ shownHotels' = {} /\ shownRooms' = NoRooms /\ consoleError' = FALSE

Init ==
    /\ LogInit
    /\ hotels = Hotels /\ rooms = Rooms
    /\ route = "agent"
    /\ edit = NoEdit /\ edits = [here |-> 0, elsewhere |-> 0]
    /\ filter = None /\ roomPage = 1 /\ asks = {} /\ asked = [filter |-> None, page |-> 1]
    /\ shownHotels = {} /\ shownRooms = NoRooms /\ consoleError = FALSE

-----------------------------------------------------------------------------
(* The server.                                                             *)

There(t) == t = None \/ t \in hotels \cup rooms

\* What AdminService refuses: the name is taken, or nothing is there.
Refused(e) ==
    CASE e.kind = "addHotel" -> e.target \in hotels
      [] e.kind = "addRoom" -> e.target \in rooms \/ RoomHotel[e.target] \notin hotels
      [] OTHER -> ~There(e.target)

\* Removing a hotel or a room removes all below it, the consultations too.
RemoveRooms(gone) ==
    /\ rooms' = rooms \ gone
    /\ done' = Kept(done, {l \in Logs : LogRoom[l] \notin gone})

\* What an edit does.  "data" is an edit of what no list is ordered or counted
\* by: a status, a logo, a welcome message, and the agents' accounts.
Apply(e) ==
    IF Refused(e) THEN UNCHANGED <<stock, done>> ELSE
    CASE e.kind = "addHotel" -> hotels' = hotels \cup {e.target} /\ UNCHANGED <<rooms, done>>
      [] e.kind = "addRoom" -> rooms' = rooms \cup {e.target} /\ UNCHANGED <<hotels, done>>
      [] e.kind = "removeHotel" ->
            hotels' = hotels \ {e.target} /\ RemoveRooms({r \in rooms : RoomHotel[r] = e.target})
      [] e.kind = "removeRoom" -> RemoveRooms({e.target}) /\ UNCHANGED hotels
      [] OTHER -> UNCHANGED <<stock, done>>

\* The edit of the page reaches the server.
Execute ==
    /\ edit.stage = "sent"
    /\ edit' = [edit EXCEPT !.stage = IF Refused(edit) THEN "refused" ELSE "done"]
    /\ Apply(edit)
    /\ UNCHANGED <<route, edits, console, logView, changes>>

\* Another administrator's, whose page may show any of the hotels and rooms.
EditElsewhere(kind, t) ==
    /\ edits.elsewhere < MaxEdits /\ edits' = [edits EXCEPT !.elsewhere = @ + 1]
    /\ \/ kind = "addHotel" /\ t \in Hotels \ hotels
       \/ kind = "removeHotel" /\ t \in hotels
       \/ kind = "addRoom" /\ t \in Rooms \ rooms
       \/ kind = "removeRoom" /\ t \in rooms
    /\ Apply([NoEdit EXCEPT !.kind = kind, !.target = t])
    /\ UNCHANGED <<route, edit, console, logView, changes>>

\* listHotels
ReadHotels(a) ==
    /\ a.hotels = None
    /\ asks' = (asks \ {a}) \cup {[a EXCEPT !.hotels = hotels]}

RoomsFound(f) == {r \in rooms : f = None \/ RoomHotel[r] = f}
RoomsOf(f) == Ascending(RoomsFound(f))

\* A bug: the page asked for is not limited to those there are.
Unlimited(p, pages) == p
\* listRooms: the nearest page there is.
Limited(p, pages) == IF p > pages THEN pages ELSE p

CountRooms(a) ==
    /\ a.count = None
    /\ LET pages == PageCount(Cardinality(RoomsFound(a.filter)))
       IN asks' = (asks \ {a}) \cup
            {[a EXCEPT !.count = [page |-> Limited(a.page, pages), pages |-> pages]]}

\* The rooms of the counted page, those there are by now.
ReadRooms(a) ==
    /\ a.count # None /\ a.rooms = None
    /\ asks' = (asks \ {a}) \cup
         {[a EXCEPT !.rooms = [filter |-> a.filter, items |-> PageOf(RoomsOf(a.filter), a.count.page),
                               page |-> a.count.page, pages |-> a.count.pages]]}

Read(a) ==
    /\ ReadHotels(a) \/ CountRooms(a) \/ ReadRooms(a)
    /\ UNCHANGED <<stock, route, edit, edits, filter, roomPage, shownHotels, shownRooms, consoleError,
                   asked, logVars>>

-----------------------------------------------------------------------------
(* The dashboard.                                                          *)

\* The effect of the controls, when one of them has changed.
ControlsEffect(before) ==
    IF <<filter', roomPage'>> # <<filter, roomPage>> THEN Refresh(filter', roomPage', before)
    ELSE asks' = before /\ UNCHANGED asked

\* A bug: the effect runs after every answer.
AsksAgain(before) == Refresh(filter', roomPage', before)
\* The answer sets the controls, and their effect runs if that changes them.
AfterAnswer(before) == ControlsEffect(before)

\* A bug: an answer to an earlier refresh is shown.
AnyRefresh(a) == TRUE
\* requestId = refreshRequestId.current
Latest(a) == a.latest

\* A bug: the choice of a hotel that is gone stays.
KeptFilter(a) == filter
\* A hotel that is gone is no longer chosen.
NewFilter(a) == IF filter \in a.hotels THEN filter ELSE None

Arrive(a) ==
    /\ Complete(a)
    /\ IF Latest(a)
       THEN /\ shownHotels' = a.hotels /\ shownRooms' = a.rooms
            /\ roomPage' = a.rooms.page /\ filter' = NewFilter(a)
            /\ consoleError' = FALSE
            /\ AfterAnswer(asks \ {a})
       ELSE /\ asks' = asks \ {a}
            /\ UNCHANGED <<filter, roomPage, shownHotels, shownRooms, consoleError, asked>>
    /\ UNCHANGED <<stock, route, edit, edits, logVars>>

Fail(a) ==
    /\ asks' = asks \ {a}
    /\ consoleError' = (consoleError \/ Latest(a))
    /\ UNCHANGED <<stock, route, edit, edits, filter, roomPage, shownHotels, shownRooms, asked, logVars>>

\* The hotel's select; the buttons of the pages.
SetControls(f, p) ==
    /\ route = "admin" /\ Click
    /\ \/ f \in shownHotels \cup {None} /\ p = 1
       \/ f = filter /\ p \in {roomPage - 1, roomPage + 1} /\ p \in 1 .. shownRooms.pages
    /\ filter' = f /\ roomPage' = p
    /\ ControlsEffect(asks)
    /\ UNCHANGED <<stock, route, edit, edits, shownHotels, shownRooms, consoleError, done, logView>>

\* What the forms and buttons of the dashboard offer.
Offered(kind, t) ==
    CASE kind = "addHotel" -> t \in Hotels
      [] kind = "removeHotel" -> t = filter /\ t \in shownHotels
      [] kind = "addRoom" -> t \in Rooms /\ RoomHotel[t] = filter
      [] kind = "removeRoom" -> t \in Range(shownRooms.items)
      [] OTHER -> t = filter

\* A handler sends its request.  What it does after the answer, it does with the
\* controls of this moment, which its closure holds.
Submit(kind, t) ==
    /\ route = "admin" /\ edit.stage = "none"
    /\ edits.here < MaxEdits /\ edits' = [edits EXCEPT !.here = @ + 1]
    /\ Offered(kind, t)
    /\ edit' = [kind |-> kind, target |-> t, stage |-> "sent", filter |-> filter, page |-> roomPage]
    /\ UNCHANGED <<stock, route, console, logVars>>

\* The handler goes on: the removal of the chosen hotel ends the choice, and
\* the lists are asked for; an edit refused, or an answer lost, shows an error.
Answered ==
    /\ edit.stage \in {"done", "refused"}
    /\ edit' = NoEdit
    /\ IF edit.stage = "done" /\ route = "admin"
       THEN /\ filter' = IF edit.kind = "removeHotel" /\ edit.filter = edit.target THEN None ELSE filter
            /\ UNCHANGED <<roomPage, shownHotels, shownRooms, consoleError>>
            /\ IF filter' = filter THEN Refresh(edit.filter, edit.page, asks)
               ELSE Refresh(filter', roomPage, asks \cup {Ask(edit.filter, edit.page)})
       ELSE UNCHANGED console
    /\ UNCHANGED <<stock, route, edits, logVars>>

\* The request of the edit, or its answer, is lost.
EditFails ==
    /\ edit.stage # "none"
    /\ edit' = NoEdit
    /\ UNCHANGED <<stock, route, edits, console, logVars>>

-----------------------------------------------------------------------------
(* The two pages.                                                          *)

GoToDashboard ==
    /\ route = "agent" /\ Click /\ route' = "admin"
    /\ inLog' = FALSE /\ logPage' = 1 /\ logFilter' = None /\ due' = FALSE /\ logAsks' = {}
    /\ logShown' = NoLog /\ loading' = FALSE /\ logError' = FALSE
    /\ Unmounted /\ Refresh(None, 1, {})
    /\ UNCHANGED <<stock, edit, edits, done>>

GoToWork ==
    /\ route = "admin" /\ Click /\ route' = "agent"
    /\ Unmounted /\ asks' = {} /\ asked' = [filter |-> None, page |-> 1]
    /\ UNCHANGED <<stock, edit, edits, done, logView>>

\* A guest's consultation in a room ends.
Ends(l) ==
    /\ LogRoom[l] \in rooms /\ Finish(l)
    /\ UNCHANGED <<stock, route, edit, edits, console>>

OnLog == route = "agent" /\ LogNext /\ UNCHANGED <<stock, route, edit, edits, console>>

AskStep(a) == Read(a) \/ Arrive(a) \/ Fail(a)

Next ==
    \/ OnLog
    \/ \E a \in asks : AskStep(a)
    \/ \E f \in Filters, p \in 1 .. shownRooms.pages : SetControls(f, p)
    \/ \E kind \in Kinds, t \in Targets : Submit(kind, t) \/ EditElsewhere(kind, t)
    \/ Execute \/ Answered \/ EditFails
    \/ GoToDashboard \/ GoToWork
    \/ \E l \in Logs : Ends(l)

(* Requests are answered or fail, and the timer fires.                      *)
Spec ==
    /\ Init /\ [][Next]_vars
    /\ WF_vars(\E a \in asks : AskStep(a)) /\ WF_vars(Answered)
    /\ WF_vars(Execute)
    /\ WF_vars(AskLog /\ OnLog) /\ WF_vars((\E a \in logAsks : LogAnswer(a)) /\ OnLog)

-----------------------------------------------------------------------------
\* The dashboard is on the screen, its last refresh is over and did not fail.
ConsoleAtRest == route = "admin" /\ ~consoleError /\ ~ \E a \in asks : a.latest

(* At rest the dashboard shows the answer of its last refresh, in whichever *)
(* order the answers of several came.                                       *)
DashboardShowsLastAsked ==
    ConsoleAtRest => shownRooms.filter = asked.filter /\ shownRooms.page <= asked.page

(* At rest the hotel chosen is one of those shown, though any administrator *)
(* may have removed it, and the room page is one that there is.             *)
ControlsFitTheLists ==
    ConsoleAtRest => filter \in shownHotels \cup {None} /\ roomPage = shownRooms.page

(* An answer that changes the controls of the dashboard asks again, and     *)
(* this comes to an end; and the log does not stay disabled for a request   *)
(* that nobody waits for any more, nor after one that failed.               *)
LoadingEnds ==
    /\ <>[](~ \E a \in asks : a.latest)
    /\ loading /\ inLog ~> ~loading \/ ~inLog
=============================================================================
