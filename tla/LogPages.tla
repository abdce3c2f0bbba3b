------------------------------ MODULE LogPages ------------------------------
(***************************************************************************)
(* The log of finished consultations on the staff's working page: pages of *)
(* a filtered list that the server reads in two queries, asked for by a    *)
(* page whose filter, page number and view change while requests are under *)
(* way and their answers come back in any order.  The search text, the     *)
(* hotel and the language are filters of one kind; one stands for them.    *)
(***************************************************************************)
EXTENDS Integers, Sequences, FiniteSets, SequencesExt

CONSTANTS
    Hotels, Rooms,
    RoomHotel,      \* the hotel of each room
    Logs,           \* consultations that may end
    LogRoom,        \* and their rooms
    PageSize,       \* SESSION_LOG_PAGE_SIZE and the 20 of listRooms
    MaxChanges,     \* bound: clicks of the user, without those that open the log
    None

ASSUME ListsAssumption ==
    /\ RoomHotel \in [Rooms -> Hotels] /\ LogRoom \in [Logs -> Rooms]
    /\ PageSize \in Nat \ {0} /\ MaxChanges \in Nat /\ None \notin Hotels
    /\ IsFiniteSet(Rooms) /\ IsFiniteSet(Logs)

VARIABLES
    done,       \* the finished consultations, the one active last at the end
    inLog,      \* the view: mode = "log"
    logPage, logFilter,
    due,        \* the timer of the last change runs: 250 ms until its request
    logAsks,    \* requests under way
    logShown,   \* what the list shows, and the page and filter it was read for
    loading, logError,
    changes

logView == <<inLog, logPage, logFilter, due, logAsks, logShown, loading, logError>>
logVars == <<done, logView, changes>>

Filters == Hotels \cup {None}
NoLog == [page |-> 1, filter |-> None, items |-> <<>>, pages |-> 1]

LogTypeOK ==
    /\ done \in Seq(Logs) /\ IsInjective(done)
    /\ {inLog, due, loading, logError} \subseteq BOOLEAN
    /\ logPage \in 1 .. Cardinality(Logs) + 1 /\ logFilter \in Filters
    /\ \A a \in logAsks : a.page \in Nat \ {0} /\ a.filter \in Filters
    /\ logShown.items \in Seq(Logs) /\ logShown.pages \in Nat \ {0}
    /\ changes \in 0 .. MaxChanges

LogInit ==
    /\ done = <<>> /\ changes = 0
    /\ inLog = FALSE /\ logPage = 1 /\ logFilter = None
    /\ due = FALSE /\ logAsks = {} /\ logShown = NoLog
    /\ loading = FALSE /\ logError = FALSE

-----------------------------------------------------------------------------
(* The server.                                                             *)

\* The elements of a set of numbers, the smallest first.
Ascending(S) ==
    CHOOSE s \in [1 .. Cardinality(S) -> S] : \A i, j \in 1 .. Cardinality(S) : i < j => s[i] < s[j]
\* The rows of a list that a condition keeps, in the order of the list.
Kept(list, S) ==
    LET at == Ascending({i \in DOMAIN list : list[i] \in S}) IN [n \in DOMAIN at |-> list[at[n]]]

\* What the query finds, in its order, and how many the count of the same where
\* finds.
Found(f) == {l \in Logs : f = None \/ RoomHotel[LogRoom[l]] = f}
Matching(f) == Kept(Reverse(done), Found(f))
Total(f) == Cardinality({l \in Found(f) : l \in Range(done)})
PageCount(n) == IF n = 0 THEN 1 ELSE (n + PageSize - 1) \div PageSize
PageOf(items, p) ==
    SubSeq(items, (p - 1) * PageSize + 1,
           IF p * PageSize < Len(items) THEN p * PageSize ELSE Len(items))

\* A consultation ends.
Finish(l) ==
    /\ l \notin Range(done)
    /\ done' = Append(done, l)
    /\ UNCHANGED <<logView, changes>>

Step(a, b) == logAsks' = (logAsks \ {a}) \cup {b}

\* list(): the rows of the page first, then the number of all of them.
ReadItems(a) ==
    /\ a.phase = "sent"
    /\ Step(a, [a EXCEPT !.phase = "read", !.items = PageOf(Matching(a.filter), a.page)])

CountPages(a) ==
    /\ a.phase = "read"
    /\ Step(a, [a EXCEPT !.phase = "back", !.pages = PageCount(Total(a.filter))])

\* A server from before the pages returns every row, and listSessionLogs cuts
\* the page out of them.
OldServer(a) ==
    /\ a.phase = "sent"
    /\ Step(a, [a EXCEPT !.phase = "back", !.items = PageOf(Matching(None), a.page),
                         !.pages = PageCount(Total(None))])

Serve(a) ==
    /\ ReadItems(a) \/ CountPages(a) \/ OldServer(a)
    /\ UNCHANGED <<done, inLog, logPage, logFilter, due, logShown, loading, logError, changes>>

-----------------------------------------------------------------------------
(* The page.                                                               *)

Click == changes < MaxChanges /\ changes' = changes + 1

\* The effect, run again when the view, the page or the filter has changed:
\* the requests of before are outdated, and the timer starts anew; outside the
\* log only the timer is cleared.  Of the outdated, those whose answer is on its
\* way are kept; what is read for the others, nothing depends on.
Effect(asks) ==
    IF inLog'
    THEN due' = TRUE /\ logAsks' = {[a EXCEPT !.latest = FALSE] : a \in {b \in asks : b.phase = "back"}}
    ELSE due' = FALSE /\ logAsks' = asks

\* changeMode("log")
EnterLog ==
    /\ IF inLog THEN Click ELSE UNCHANGED changes
    /\ inLog' = TRUE /\ logPage' = 1
    /\ IF inLog /\ logPage = 1 THEN UNCHANGED <<due, logAsks>> ELSE Effect(logAsks)
    /\ UNCHANGED <<done, logFilter, logShown, loading, logError>>

\* changeMode("current")
LeaveLog ==
    /\ inLog /\ Click /\ inLog' = FALSE
    /\ Effect(logAsks)
    /\ UNCHANGED <<done, logPage, logFilter, logShown, loading, logError>>

SetLogFilter(f) ==
    /\ Click /\ f # logFilter /\ logFilter' = f
    /\ logPage' = IF inLog THEN 1 ELSE logPage
    /\ inLog' = inLog /\ Effect(logAsks)
    /\ UNCHANGED <<done, logShown, loading, logError>>

TurnLogPage(p) ==
    /\ Click /\ inLog /\ ~loading
    /\ \/ p = logPage - 1 /\ logPage > 1
       \/ p = logPage + 1 /\ logPage < logShown.pages
    /\ logPage' = p
    /\ inLog' = inLog /\ Effect(logAsks)
    /\ UNCHANGED <<done, logFilter, logShown, loading, logError>>

\* The reload button: another logRefreshToken, for which the effect runs.
ReloadLog ==
    /\ Click /\ inLog
    /\ inLog' = inLog /\ Effect(logAsks)
    /\ UNCHANGED <<done, logPage, logFilter, logShown, loading, logError>>

\* The timer fires.
AskLog ==
    /\ due /\ due' = FALSE
    /\ loading' = TRUE
    /\ logAsks' = logAsks \cup {[latest |-> TRUE, page |-> logPage, filter |-> logFilter,
                                 phase |-> "sent", items |-> <<>>, pages |-> 1]}
    /\ UNCHANGED <<done, inLog, logPage, logFilter, logShown, logError, changes>>

\* A bug: any answer is shown.
AnyAnswer(a) == TRUE
\* requestId = logRequestIdRef.current
Newest(a) == a.latest

\* A bug: the page stays where it is.
Uncorrected(a) == logPage
\* After the filter or a removal has left fewer pages: the last of them.
Corrected(a) == IF logPage > a.pages THEN a.pages ELSE logPage

\* A bug: the end of loading is left to the answer that is shown.
StillLoading == loading
\* The finally of the request.
Loaded == FALSE

LogArrives(a) ==
    /\ a.phase = "back"
    /\ IF Newest(a)
       THEN /\ logShown' = [page |-> a.page, filter |-> a.filter, items |-> a.items, pages |-> a.pages]
            /\ logPage' = Corrected(a)
            /\ inLog' = inLog
            /\ IF logPage' # logPage THEN Effect(logAsks \ {a})
               ELSE logAsks' = logAsks \ {a} /\ UNCHANGED due
            /\ logError' = FALSE /\ loading' = FALSE
       ELSE /\ logAsks' = logAsks \ {a}
            /\ UNCHANGED <<inLog, logPage, due, logShown, logError, loading>>
    /\ UNCHANGED <<done, logFilter, changes>>

\* What was shown stays.
LogFails(a) ==
    /\ logAsks' = logAsks \ {a}
    /\ IF Newest(a) THEN logError' = TRUE /\ loading' = Loaded ELSE UNCHANGED <<logError, loading>>
    /\ UNCHANGED <<done, inLog, logPage, logFilter, due, logShown, changes>>

LogAnswer(a) == Serve(a) \/ LogArrives(a) \/ LogFails(a)

LogNext ==
    \/ EnterLog \/ LeaveLog \/ ReloadLog \/ AskLog
    \/ \E f \in Filters : SetLogFilter(f)
    \/ \E p \in 1 .. logShown.pages : TurnLogPage(p)
    \/ \E a \in logAsks : LogAnswer(a)

-----------------------------------------------------------------------------
\* The log is on the screen, nothing more is asked, and the last request did
\* not fail.
LogAtRest == inLog /\ ~due /\ ~logError /\ ~ \E a \in logAsks : a.latest

(* At rest the log shows what was read for the page and the filter that the *)
(* controls show, whatever answers have come in which order, and this page  *)
(* is one of those there are.                                               *)
ShownLogIsAsked ==
    LogAtRest => /\ logShown.page = logPage /\ logShown.filter = logFilter
                 /\ logPage <= logShown.pages
=============================================================================
