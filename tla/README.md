# A verification of RemotePlus Chat (Hotel Call Center Chat)

TLA+ modules, TLC runs and TLAPS proofs kept beside the repository in `src/`.
A hotel guest scans a room's QR code and opens a consultation; call-centre agents
see it in a shared list, one of them opens it, both sides exchange messages, and
the consultation ends by a close or fifteen minutes after the agent's first reply.

## 1. The system

### Components, their state and their operations

| component | state | operations | interacts with |
|---|---|---|---|
| `ChatSessionsService` (server) | table `ChatSession`, `ConversationRead`; two timers | `create`, `get`, `list`, `open`/`accept`, `close`, `closeByGuest`, `messages`, `markRead`, `expireDueSessions`, `deleteExpiredHistory` | PostgreSQL through Prisma; emits `chat.session.*`, `chat.inbox.updated` |
| `MessagesService` (server) | table `Message`, the session's window and last activity | `save` | the same rows, in an interactive transaction |
| `ChatGateway` (server) | socket rooms, identity of each socket, message rates | handshake, `join`, `message`, broadcasts of the service's events | both services; browsers over Socket.IO |
| `AdminService` | `Hotel`, `Room`, `RoomAccessKey`, `Agent`, logos, welcome messages | create, list, update, delete | deletions cascade into sessions and messages |
| `AuthService`, `RoomsService` | password hash, `tokenVersion`; room keys | login, change of password, verification; key for guest token | all controllers and the gateway |
| rate limiting | fixed windows per address, account or socket | `allow`, `forget`, `cleanup` | REST middleware, gateway |
| guest web client | messages, session, countdown, stored access | prepare, history, realtime, send, close | REST and Socket.IO |
| agent web client | session list, selected conversation, unread counts, logs | refresh, realtime events, open, send, close, mark read, log pages | REST and Socket.IO |

The server is one Node.js process: handlers interleave at every `await`, and the
database orders their statements. Nothing in the process remembers a session
between two calls, so a restart loses only the handlers under way, the sockets and
the rate windows. Clients get each change twice: in the answer of a REST call and
as an event, with no order promised between them.

### What is hard

* A handler judges a row it has read and writes later: two guests create, two
  agents open, the agent, the guest and the timer end the same session, a message
  is judged before a close and inserted after it.
* `save` spans several statements: the timer of the first reply, the message and
  the last activity must come together, and a retry may run beside the attempt it
  repeats.
* Some updates carry their condition (`open`, `closeByGuest`, the sweep, the
  timer), others go by id alone (`close`, and the two that expire a late row).
* Events carry a copy that may be older than the event published before.
* The timer's promise has no handler for its rejection.
* Administrators delete rooms and agents, and the retention job deletes old
  sessions, under handlers that have read them.
* Pages merge three sources of one state: the answer of a request, which is as old
  as the server's read, the events that came meanwhile, and the user's own clicks.
* A token without an expiry is only taken out of use by its account's version; the
  gateway looks at it once, at the handshake.
* The guest's token is in one place, the device's storage, shared by its tabs.

`PROJECT.json` lists each of these at its line, with the properties that watch it.

### What makes each component correct

* Sessions: one open consultation per room; one owner; the status only moves
  forward; EXPIRED only after the window; a guest's close keeps an end already
  recorded; a lapsed session ends; every end is announced.
* Messages: an acknowledged message is stored exactly once; the window exists
  exactly when a reply of the agent does, and is never moved; the last activity is
  the time of a message.
* Delivery: a screen shows only what is stored, only of its own consultation, and a
  page that is connected misses nothing.
* Guest's device: the token of a consultation is kept exactly as long as it is of use.
* Agent's page: list, badges and notices become the server's, whatever order
  answers, events and clicks come in; only own conversations are shown.
* Accounts: after a change of password no older token is accepted; a page whose
  token is refused is left.
* Lists in pages: what is shown is what was last asked for, and is a page there is.
* Rate limits: no window accepts more than its limit, and clean-up never forgives
  a counter that is still in its window.

## 2. Modules

| module | what it is |
|---|---|
| `ChatSessions` | the server's core: every statement of the two services, as steps of concurrent handlers |
| `SessionLifecycle` | the contract of a consultation, one atomic action per decision |
| `ChatSessionsProofs`, `ChatSessionsWindow`, `ChatSessionsContract` | the proofs about the server: types and rooms, the window, the contract and what callers are promised, that waits end and ends are told |
| `RateLimiter` | the fixed-window limiter with its clean-up, forgetting and clock |
| `GuestVisit` | a device's tabs, its stored token, the requests of a visit, composed with `RateLimiter` |
| `GuestVisitProofs` | the limit holds, in the limiter and for the visits that use it; what tabs are told is true, who may put the token out, that it is not put back, and that one tab keeps it |
| `RealtimeDelivery` | history, rooms and broadcast, from the gateway to the screens of guest and agent |
| `RealtimeDeliveryProofs` | screens show only their own stored messages, what is stored while a page stands is on its way to it, and nothing shown is taken off |
| `AgentDesk` | the agent's page: poll, events, open, read, notices, badges |
| `AgentDeskProofs` | only own conversations are shown and heard, no session is announced twice, badges are bounded; the page's server keeps the contract |
| `StaffAccounts` | login, change of password, token versions, tabs and their storage, the administrator of accounts |
| `StaffAccountsProofs` | a token in use was given for the account's password, and passwords are replaced one at a time; a signed-out tab keeps nothing |
| `LogPages` | the log of finished consultations, page by page |
| `AdminConsole` | the administrator's dashboard, composed with `LogPages`: one of the two is on the screen |
| `AdminConsoleProofs` | log and dashboard at rest show what was last asked, and controls that fit it; pages lose nothing, a log that loads is awaited |
| `MC...` | instances for TLC |

`ChatSessions` has each statement of the server; the other modules take the server's
sessions as it describes them, reduced to what their component sees, so that the
interleavings of the clients remain checkable.

### `ChatSessions`

A process is a request handler (`Requests`, each serves one call) or the expiry
timer. `pc` says which statement it is about to run, `call` what it was asked,
`local` the handler's local variables. Every `await` ends a step.

| action | code |
|---|---|
| `Find`, `FindNothing`, `FindExpires`, `AnnounceExpired` | `findOrThrow`; `AfterFind` is what each caller does with its answer |
| `CreateCheck`, `CreateInsert` | `create`: the look for an open session, the insert under the partial unique index |
| `OpenUpdate`, `AnnounceOpened` | `open` after its first `findOrThrow`; the second is a `Find` with `again` set |
| `CloseUpdate`, `GuestCloseUpdate`, `AnnounceClosed` | `close`, `closeByGuest` |
| `SweepSelect`, `SweepExpires`, `SweepDone` | `expireDueSessions`, by the timer and at the head of `list` |
| `SaveRead`, `SaveExpires`, `SaveAnnouncesExpiry` | `save` up to its transaction |
| `TxBegin`, `TxTimer`, `TxLatest`, `TxInsert`, `TxCommit` | the transaction |
| `Reread`, `AnnounceTimer`, `SaveExisting` | the event of the first reply; the answer to a retry |
| `DeleteRoom`, `DeleteAgent`, `DeleteExpiredHistory` | the administrator's deletions and the retention job |
| `Tick`, `Crash`, `TimerRejects` | the clock; a restart; a rejected promise of the timer, which ends the process and counts as a restart |

How the database is modelled. A statement is atomic. A transaction that has
updated a row holds its lock until it ends (`lock`); other updates and deletions of
the row wait. A transaction that has inserted a message (`pc = "txCommit"`) keeps
other inserts of its key, and deletions of its session, waiting; the message
becomes visible with the commit. `TxCommit` joins the update of `lastActivityAt`
and the commit, because the update waits for the lock and nothing is visible
between the two. Isolation is PostgreSQL's READ COMMITTED: a statement with a
condition re-evaluates it on the row it finds once the lock is free.

What is abstracted. A time is a number of clock units; the time a statement writes
is taken in the step of the statement, except where the code takes it earlier and
something can happen in between (the sweep's `now`, the transaction's `startedAt`,
the message's `createdAt`). Message contents, languages, tokens, views and the
inbox notification (which carries no state) are left out; who calls is a member of
`Agents \cup {Admin, Guest}`. The copy a handler has read is kept only at labels
that use it later. A label keeps what was decided from it. A `list` is its sweep:
the query that follows changes nothing. A sweep's overlap with the next one is a
`list` beside the timer. A hotel's deletion is the deletion of its rooms.
`feed[s]` is the last event published to the session's room.

### `SessionLifecycle`

What a reader of the table may rely on, decided in one step: `Create` only in a
room without an open session, `Assign` only of an unassigned waiting one,
`FirstReply` once, `End`, `Unassign`, `Remove`. `Restate` is there because the code
is: `close` and the two expiries by id can replace the record of one end by
another. `KeepsLifecycle` says that every step of `ChatSessions` is a step of it, or
changes nothing it shows (status, room, owner, whether the window exists).

### `RateLimiter` and `GuestVisit`

`Allow`, `Forget`, `Cleanup` and the clock. `granted` and `openedAt` are ghosts: what
each window of a key has let through, and when it was opened. A count above the
limit stays at `Limit + 1`: all of them are refused alike.

`GuestVisit` extends it. A tab goes through `Visit` (reads the stored token),
`GetSession`/`Restored`, or the consent screen with `Start`, `VerifyAccess`,
`Verified`, `CreateSession`, `Started`/`NotStarted`; each request first passes the
limiter (`RefuseRequest`), and its answer can be lost (`LoseAnswer`), before or after
the server has acted. `ClockEffect` is the effect run every second. The server does
what `ChatSessions` says: `StaffOpens` and `FirstReply`, each with its event told later by
`CopyTold` (the copy that `open` or `save` has read again, in any order and after whatever
has been told meanwhile), `StaffCloses`, `Expire`, `Retention`, `RemoveRoom`, and another
device of the room that starts a consultation (`RivalStarts`). The guest's close has no
button on the page. Only limits small enough to be reached have a key. Simplified: the
copy is read in the step of the update, where it is oldest; the event of an end is sent
in the step of the end, and may be lost or wait in the socket from there on.

### `RealtimeDelivery`

`Mount` is the effect of the guest's page and of the agent's panel, which asks for the
history and opens a socket; the answer of an earlier mount comes too and is judged by
`Active`. `Connect`, `Join`, `Drop`, `Restart` are the socket's life; `Handle`, `Save`
and `Emit` a message's way through the gateway; `Receive` the page's handler. The
pages' handlers treat every message on its own (`mergeMessage` by id), so that one
message is enough to lose or to show; the order of messages on the screen is the
one of their `createdAt`, and is not modelled. `owed` is a ghost: what was stored while
the page stood, joined and with its history on the screen; `broken` are the pages whose
connection failed since. `OwedIsOnItsWay` is the safety behind `SteadyPagesMissNothing`:
each owed message is on the screen, on the socket, or about to be sent.

### `AgentDesk`

`StartRefresh`, `Count`, `ListArrives`, `RefreshFails` are `refresh` with its two reads
on the server; `SessionArrives`, `ReadArrives`, `MessageArrives` the events in the order
of the socket; `Choose`, `ChooseWaiting`, `ServeOpen`, `Opened`, `NotOpened` a click;
`MarkRead`, `StampRead`, `StoreRead`, `ReadFails` the read mark, whose time is taken
before it is stored; `LookAway` and `LookBack` the visibility of the page. Other
agents, guests and the account's second machine act through the database and events.
`JoinServed` is the gateway's answer to `chat:join`: a page counts the messages of the
sessions of its list (`active`) from the list's answer on, and hears them only once the
join it asks for then is granted. Simplified: no time passes between a request and the
server's first read; a lost connection and its return are one step (`Reconnect`), so that
there is no list that comes, and asks to join nothing, while the socket is down; the
event of an opening, a close or a mark is sent in the step of its statement (the late
ones are in `GuestVisit` and `ChatSessions`); the second machine's mark is one step; a
message's time and its commit are one step (the race between the two is in
`ChatSessions`); in the log, no conversation is selected. Left out: texts and
counters of errors, the flashing title, and the ways round servers of an earlier
version.

### `StaffAccounts`

A tab holds its `auth`, its two storage entries, and the calls under way: `Login`,
`LoginAnswered`, `CredentialsKept`, `LoginFails`; `Poll`, `ServePoll`, `PollAnswered`,
`PollFails`; `AskChange`, `VerifyChange`, `FindHash`, `UpdateHash`, `ChangeAnswered`.
`InvalidateAuth` is the handler of a refusal, whichever request was refused. A hash is
a password and a salt that is never used again.

### `LogPages` and `AdminConsole`

A request of the log has two reads on the server (the items, then the count), one of the
dashboard three (the hotels, beside the count of the rooms and then the rooms of the page it
gave), and the answers come in any order. `LogPages` has the delay of 250 ms (`due`),
the request identity (`Newest`) and the correction of the page (`Corrected`).
Its reload button is `ReloadLog`.
`AdminConsole` has `Ask`, `Arrive`, `Fail`, the effect on filter and page
(`ControlsEffect`), the edits from `Submit` to `Answered` or `EditFails`, the edits of
another administrator, and the way between the two pages. One filter stands for
search, hotel and language; edits that leave the lists' members alone (status, logo,
welcome message, agents) are the kind `data`. The fields of forms are left out.

## 3. Runs

`Requests` of the server's runs are interchangeable and symmetric in those without a
liveness property.

| run | instance | asks |
|---|---|---|
| `Lifecycle` | 4 requests, 2 session ids, 1 room, 2 agents, deletion of the room and of agents | do concurrent creates, opens and closes keep the contract? Four calls are two races in a row: the room is used again after its first session ended |
| `FirstReply` | 3 requests, 2 agents, 2 keys, waiting session, deletion of the room | do racing opens and first messages give one owner and one window, started with a stored reply? does a deletion under them leave a message without its session? |
| `Restart` | 2 requests and the timer, opened session, window of 1 unit in a clock of 2, one restart at any step, the retention job (retention 1), fairness | do messages, retries, closes, reads and sweeps agree about the end of the window? is an acknowledged message ever lost, or half a transaction kept? does every call get its answer, a lapsed session its end, every end its event? |
| `Guest` | 1 tab loaded twice, 2 session ids, clock of 2, window of the limiter 2, limit 1 | is the token kept as long as the consultation runs, and not longer? do limits hold? |
| `TwoTabs` | 2 tabs loaded once, 2 session ids, clock of 1, no limited keys | who may put the token of a running consultation out of the store? |
| `Accounts` | administrator and a new agent, 2 tabs, 2 passwords, 2 hashes | do overlapping logins, changes and administration leave an old token in use, or a page signed in for nothing? |
| `Delivery` | guest's page and agent's panel, 2 sessions, 2 mounts each, 2 broken connections, 1 message, a restart | is anything shown that is not stored or of another session? is a page that is connected sent everything? |
| `Desk` | 1 session, 2 agents, 1 guest message, 1 read under way, 1 event under way, 1 failed click or lost connection | do the list, the badges and the notices come right? |
| `Lists` | 2 hotels, 2 rooms, 2 consultations, pages of 1, 2 clicks besides those that open the log, 1 edit on each side | is what is shown what was last asked? do controls fit it, do loading and refreshing end? |

Bounds. A hazard of the server needs a handler between its read and its write and
one or two others that act in between, so three calls on one session reach every
pair of races and a witness; in `Restart` the third is the timer. There `MaxTime = 2` with `D = 1` lets a window
start at 0 or 1 and end within the clock, with a unit on each side of its boundary;
`FirstReply`, about how a window starts, has one unit. The clock's bound stops
time, not the handlers. Four calls per session id are needed
only to reuse a room. In `Guest` the second load of the page is the restore, the
second session the one that follows, and two units hold a window of the
consultation, and one of the limiter with the first unit of the next. In `TwoTabs` one tab
stays on the first consultation while the other starts the second, in a clock that holds one
window; the limiter is left to `Guest`. In `Accounts` two
tabs race a login or a change against a change; a second hash is the change. In
`Delivery` the second mount is the change of the chosen conversation, whose earlier
answers are still under way. In `Desk` one session is enough, because the page treats
each row on its own but for the selection; one event and one mark under way are what
an answer of the list can be older than; whether a click fails or the connection is
lost, the page has the same polls to recover by. In `Lists` two clicks turn the page of
an open log and change its filter. Pages of one entry and two entries are the
smallest list whose last page can go.

Fairness. In `ChatSessions` (`FairSpec`): weak fairness of each handler's next step
(the event loop runs every continuation, PostgreSQL serves a lock when it is free,
`setInterval` fires) and of the clock. A rejected promise ends the process for sure.
No fairness of calls, deletions or restarts. `EndIsAnnounced` excepts behaviours
with a restart, because a restart between a commit and its event loses the event.
In the clients' modules: weak fairness of what a browser does by itself (timers,
handlers of answers and events) and of the server's answer or its failure; never
of a user's click, nor of a success. Where a page must catch up after failures,
the spec says that its requests do not fail for ever; the comment at each `Spec`
says which steps are owed.

Three runs show where the code does not do what a document or a comment says; `PROJECT.json`
quotes them under "findings":

| run | property | what the code does |
|---|---|---|
| `OldTabForgets` | `DeviceRemembers` | a tab on an ended consultation discards the token of the next one |
| `LateOpening` | `TokenGoneAtDeadline` | the late event of `open` takes the deadline from a page that knew it; if the event of the end is missed, the token of the ended consultation stays |
| `MissedMessage` | `MissedIsRestored` | after a reconnection the history is not read again |

Each property of a passing run is paired in `PROJECT.json` with a small change of
one definition (a forgotten condition, a time taken too late, a missing index) that
TLC refutes; the changed definitions stand before the ones they replace.

### Known races

What the models allow because the code does it, seen while modelling. They are
not errors of the properties above, which are stated so that they hold.

* `close` judges the status on an earlier read and updates by id alone
  (chat-sessions.service.ts:340): it replaces `closeReason` and `closedAt` of an end
  recorded meanwhile, what the comment at line 356 excludes for the guest's close. The
  contract's `Restate` is this.
* A message that does not start the window is judged on the row read at
  messages.service.ts:24 and inserted later: it can be stored in a session that has
  ended (docs/06_Acceptance_Checklist.md:15 says none can be sent).
* `lastActivityAt` takes the time of the own message whatever it is already
  (messages.service.ts:116): of two transactions the later commit can set the earlier time.
* A retry of a stored message is refused once the session has ended: the status is
  judged (line 60) before the unique key is consulted (line 140).
* The `updated` event of `open` and of the first reply carries a re-read and can be
  published after the `closed` event: clients see an ended session as ACTIVE until the
  agent's next poll, or the guest's clock. The copy of `open` has no deadline, and a guest's
  page that takes it has none any more (`LateOpening`): `DeadlineIsKept` therefore speaks of a
  page to which no such copy is on its way.
* The timer calls `expireDueSessions` with `void` (chat-sessions.service.ts:43): a session deleted
  before line 448 rejects the promise, and Node.js ends the process (`TimerRejects`).
* An answer of `create` that is lost leaves a waiting session whose token nobody has
  (guest main.tsx:84): the room is refused a new one until staff end it.
* An answer of the history that is older than a message received while it was
  under way takes the message off the screen (guest main.tsx:54, agent main.tsx:574);
  `owed` in `RealtimeDelivery` starts with the history for that reason.
* The refresh after an edit uses the filter and page of the render that submitted
  it (agent main.tsx:2261): the room list can rest on another filter than the one
  chosen. `DashboardShowsLastAsked` therefore speaks of what was asked, not of what is chosen.
* An answer of `create` that comes after the device's next consultation has been made
  (both of its tabs had asked, and staff ended the first) replaces the token of the
  next one (guest main.tsx, `startConsultation`); `OnlyOldPagesForget` speaks of it.
* Every refresh resets the draft of the welcome message (agent main.tsx:2255).
* Two hotels of one name can be created at once (admin.service.ts:50): there is no unique index.
* The log is only read again while it is open by its reload button; a failed read mark is not repeated
  until the page is looked at again; a fetch has no timeout, so that one request
  that hangs holds the flag of `refresh`; a late refusal of an old token signs the
  next account out (agent main.tsx:2827); the answer to a click on a waiting session
  takes the selection away from a conversation chosen meanwhile (agent main.tsx:1129).

## 4. Proofs

Checked by TLAPS. Those about `ChatSessions` hold for every set of rooms, sessions,
agents, requests and keys, every window, retention and bound of the clock, from
`ConstantsAssumption` alone (the sets of ids do not mix, the durations are positive).

* `TypeCorrect`, `TypesHold`. `TypeOK` is not inductive: a step writes the row its
  call names, and only the label says that the call names a session.
  `CallsMatchLabels` adds this, that a saving handler has a sender and a key, and
  that a message about to be committed has a time. One lemma per operation.
* `OneOpenHolds`, `NeverReopensHolds`. `StepKeeps`: with the types, every statement
  of every handler other than `create`'s insert keeps every row (`Kept`): it opens
  nothing, moves nothing to another room, and follows `LifecycleStep`.
  `CreateOpensOne`: the insert writes one unused row, in a room without an open one.

* `TimerStartsHolds`, `ExpiredHolds`, `WindowNeverMovesHolds`, `NoOrphanHolds`.
  None of these properties is inductive, because a handler writes on the strength
  of what it read before. `WindowInv` states what it may still rely on: the holder
  of a row lock, that the row is ACTIVE, its own and without a window (`Holds`); a
  handler about to expire a row, that its window has passed (windows never move); a
  reply that did not start the window, that it had started before the message's
  time (`FoundTimed`); an uncommitted message, that its session is there.
  `StandingKeeps` is the interference argument: a step that is `Calm` on every row
  (takes no id back, moves no window, writes no row locked by a transaction that
  goes on, deletes nothing under an insert) keeps what every other handler relies
  on. It is used once per step, so that each step is left to show that it is calm,
  and its own handler's part. `WindowInv` was checked by TLC on the instances
  of the server's runs before it was proved.
* `LifecycleKept`. The refinement mapping is `Seen`. From `WindowInv`, every write of
  a row is one action of `SessionLifecycle` (`EndRefines`, `CreateRefines`,
  `OpenRefines`, `CommitRefines`, `DeletionsRefine`), every other step a stutter.

* `LimiterCorrect`, `LimitAlwaysHolds`, `WindowsApart`. The strengthening is
  `Remembers`: a bucket in its window knows how many requests were granted in it and
  when it was opened, and without such a bucket the last window is over. That the
  clean-up is invisible is `CleanupKeepsWindows`. From `LimiterAssumption` alone (limit
  and window are positive).
* `VisitsUseLimiter`: `GuestVisit` implements `LimiterSpec`, its own variables hidden,
  since each of its steps calls the limiter once or leaves it alone. So
  `GuestLimitHolds` and `GuestWindowsApart` hold for every number of tabs, sessions
  and limited keys.
* `AccountsCorrect`, `TokensProvePasswords`, `ChangesProveReplaced`. The property about
  tokens is not inductive: a login signs what it read of the row before a change was
  written. `AccountsInv` says of every token in a tab, in a request under way, and of
  every row a login has read, that it is `Backed`: it is of the account's version only
  if it is of the account's hash, and of no later version. `TabWritten` and
  `ForwardKeepsBacked` split the steps: those that write one tab bring in nothing that
  is not backed; those that write a row count the version with the hash and create no
  account twice. From `AccountsAssumption`, for every set of accounts, tabs, passwords.

* `GuestCloseKeeps`. From the types alone: every statement that writes a row is one of
  a few (`Writes`, `HandlerWrites`), and those of them that can find an ended row do not
  write a guest's close.
* `PromisesKept`, `OneOwnerHolds`, `AcknowledgedHolds`, `ActivityHolds`. `PromiseInv` adds to
  `WindowInv` what a handler may conclude later from its own statement: it stays with
  the operation it was called for (`ServesItsCall`); once `open` has won, or `save` has
  passed the look at the owner, the session is that agent's or nobody's any more
  (`OwnerInv`, `Claimed`); a key that is about to be committed is free and nobody
  else's, and an acknowledged message is stored unless its session was deleted
  (`StoredInv`). `MessagesStay` and `MessagesCome` say how the table of messages moves.
* `WaitsAlwaysEnd`. `Awaits` is who waits for whom: for the lock of a row, or for an insert of
  the same key. The holder of a lock waits for nobody (`HolderGoesOn`): a rival with its
  key is a call of the same agent, of which only one found the window not started
  (`KeysApart`, `PromiseInv`). So a chain has two waits at most, and the statements
  modelled cannot deadlock: the safety half of `EveryCallAnswered`.
* `EndsStayOwed`. Whoever ends a session has its announcement before it (`Owed`), and keeps it
  until it is published, the session deleted or the process gone: the safety half of
  `EndIsAnnounced`. `AnnounceInv` adds that what is about to be announced has ended.
* `DeliveryTypes`, `ScreensHold`, `NothingIsMissed`, `NothingIsTakenOff`, from `DeliveryAssumption`.
  `DeliveryInv`: what is on a screen, on its socket or in an answer under way is stored
  and of the session it was asked for (`ScreensInv`, `AsksInv`); a mount asks once, so
  that a page with its history on the screen waits for no answer of the present mount
  (`AsksInv`), which is why nothing owed is taken off again (`OwedInv`), and nothing shown is
  (`NothingIsTakenOff`, on its own account): the screen only grows until the page is set up
  anew, the safety half of `SteadyPagesMissNothing`.
* `DeskTypes`, `OwnConversations`, `NoneAnnouncedTwice`, from `DeskAssumption`. `DeskInv`:
  every copy of a row, in the list, in an answer or in an event, is `Truthful`, older than
  the row but never of another owner (`OwnersInv`); marks are not ahead of the messages
  (`MarksInv`); a message is on its way once and in a badge at most twice, in the
  server's count and in the page's own (`BadgesInv`, with the events still `Pending`);
  a session announced is known until it is taken, and then no list under way has it as
  waiting (`KnownInv`).
* `HearsItsOwn`. `HeardInv` says that every room joined, every join under way and every message on
  its way is of a session that is taken and that the account may join, and that a session
  the page counts is joined or is being joined: no list, however old, and no reconnection
  leaves one out. A session taken stays its owner's (`JoinedStays`), so that what was
  allowed when the list was read is granted at the join and at each message. It speaks of
  a connected socket, the only one `AgentDesk` has.
* `DeskServerKeepsContract`. `ContractRows` is the mapping (a session of its own room, no window),
  and every step of the server is one action of `SessionLifecycle` or a stutter: the
  server the page is checked against is one that keeps what `LifecycleKept` proves of
  `ChatSessions`. `FreeInv` is needed because the contract has an owner only from the opening on.
* `VisitTypes`, `PagesHearTruth`, `OldPagesForget`, `TokenKept`, from `GuestAssumption` and
  `LimiterAssumption`. `PagesInv` rests on one idea: what a page was told stays true, of a row
  that only goes forward, up to the end it already concludes (`TrueOf`, `ToldStaysTrue`,
  `RowsMove`). So, with any number of tabs, a page that discards the token has been told
  of an end that is one; if the token is another's, the page is about an older
  consultation, because a room has one open consultation at most (`OldPagesForget`). With one
  tab (`OneTab`) `SoleInv` adds that the page on the screen is about the token stored, and
  that the one that is not over is the one stored: `TokenKept`. With two tabs that is
  false, which is what the finding of `OldTabForgets` says of the code.
* `PutOutForGood`. A token that was kept and put out is not kept again, so that no reload is
  sent back to it: what an answer of `create` gives is new to the device and was given
  to no other tab (`FreshInv`). The safety half of `EndedIsForgotten`, for any number of tabs.
* `SignedOutHoldNothing`, `AccountTypes`. A tab in which a login is under way is signed out,
  and one that is signed out stores nothing until that login's answer is there
  (`Quiet`); a reload is quiet because it looks at both roles. From `AccountsInv`.
* `LogHolds`, `ConsoleCorrect`, `DashboardHolds`, `ControlsHold`, `ConsoleTypesHold`, `LoadingIsAwaited`, from `ListsAssumption` and
  `ConsoleAssumption`. `LogInv` and `ConsoleInv` keep, beside the property, that of the
  requests under way one at most is the newest, that it asks for what the controls
  show or what was asked for last, and that none is while a new one is due. How many
  pages there are is `PageCountType` over a finite set. `LoadingIsAwaited` is the safety half of
  `LoadingEnds` for the log: while its controls are disabled, the timer runs or the newest
  request is under way.
* `ConsoleTypesHold`, `PagesHaveAll`. The types say that no consultation is listed twice and that
  a page is one of those there are. `LogPages` writes its lists with two operators of its
  own, `Kept` and `Ascending`, because the prover cannot expand a filter that takes an
  operator or a sort that is a fold; that a finite set has an ascending list follows
  from the rank of each element, the number of smaller ones, which is one to one; TLC compares both operators
  with the library's (`ListsAreTheUsual` in `MCAdminConsole`). `PagesHaveAll` then says what pages are
  for: each finished consultation a filter finds is on exactly one of the pages the
  count names.

Every invariant was checked by TLC on the module's runs before it was proved.

Only model-checked:

* liveness, and with it the temporal properties under fairness (`EveryCallAnswered`,
  `LapsedSessionsExpire`, `EndIsAnnounced`, `EndedIsForgotten`, `DeadlineIsKept`, `RevokedPagesAreLeft`,
  `SteadyPagesMissNothing`, `NewSessionIsAnnouncedOnce`, `DeskConverges`, `LoadingEnds`): out of
  the proof system's reach. The safety half is proved for six of them: `WaitsAlwaysEnd`
  of the first, `EndsStayOwed` of `EndIsAnnounced`, `PutOutForGood` of `EndedIsForgotten`,
  `NothingIsMissed` and `NothingIsTakenOff` of `SteadyPagesMissNothing`, `NoneAnnouncedTwice` of
  `NewSessionIsAnnouncedOnce`, `LoadingIsAwaited` of `LoadingEnds`;
* the refinement of `SessionLifecycle` by the reduced server of `GuestVisit`, which is by reading:
  it keeps no owner, and the contract speaks of one. Each action names the lines it
  stands for.

## 5. Not modelled

* Rendering, translations, forms, notification sounds, the flashing title, the notice
  after repeated failures, the width of the sidebar.
* `AgentChat` and `AgentPage` in agent main.tsx, an earlier panel and page, with
  `ConversationLogBlock` and `ConversationLogModal`: nothing renders them.
* Deployment and back-up scripts, seed data, the replacement of the hotels (one
  transaction, run by hand), encryption and hashing.
* Validation of inputs, page sizes and texts of errors.
* Cancelled and blocked sessions: no code sets these states.

## 6. Plan

Done: the server's core with its contract, the limiter, the guest's visit with one tab
and with two, delivery, the agent's page, accounts, the administrator's lists; the proof
of every safety invariant and every action property the passing runs check, and of the
safety half of most of the temporal ones. What could follow:

1. An owner, as a history variable, in the server of `GuestVisit`, and with it the proof that
   it implements `SessionLifecycle` as `AgentDesk`'s does.
2. The safety halves of `DeadlineIsKept` and `RevokedPagesAreLeft` (what a page concludes from
   its clock or a refusal it does not take back), apart from the late events of
   `LateOpening` and the known races.
3. A connection of the agent's page whose loss and return are two steps, with the
   events between them.
