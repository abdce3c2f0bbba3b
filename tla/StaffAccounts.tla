--------------------------- MODULE StaffAccounts ---------------------------
(***************************************************************************)
(* Staff accounts, their tokens, and the browser tabs that hold them: the  *)
(* login form, the change of a password, the requests that a working page  *)
(* repeats every few seconds, and the administrator who creates, disables  *)
(* and deletes accounts.  A token carries the version its account had when *)
(* the login read it; a password change counts the version up, which is    *)
(* all that takes a token without an expiry out of use.                    *)
(***************************************************************************)
EXTENDS Integers, FiniteSets

CONSTANTS
    Accounts,   \* ids of agents, administrators included, old and new
    Role,       \* Agent.role of an account
    LoginId,    \* Agent.loginId of an account: an id deleted can be named again
    Existing,   \* accounts there are at the start
    Passwords,
    Tabs,       \* browser tabs, each with its own sessionStorage
    Pollers,    \* tabs on the page that polls; the dashboard asks only when used
    Users,      \* which accounts the people at a tab know
    MaxHashes   \* bound: how many password hashes are ever made

Roles == {"ADMIN", "AGENT"}

ASSUME AccountsAssumption ==
    /\ Role \in [Accounts -> Roles]
    /\ Existing \subseteq Accounts
    /\ Pollers \subseteq Tabs
    /\ Users \in [Tabs -> SUBSET Accounts]
    /\ Passwords # {} /\ MaxHashes \in Nat

VARIABLES
    rows,       \* the Agent rows
    hashes,     \* how many hashes have been made: bcrypt never repeats one
    tabs        \* what each tab shows, stores and waits for

vars == <<rows, hashes, tabs>>

Hash == [password : Passwords, salt : Nat]
InitialPassword == CHOOSE p \in Passwords : TRUE
InitialHash == [password |-> InitialPassword, salt |-> 0]

Row == [status : {"none", "ACTIVE", "INACTIVE", "deleted"}, hash : Hash, version : Nat]
Exists(a) == rows[a].status \in {"ACTIVE", "INACTIVE"}

\* A signed token.  proved is no part of it: it is the hash that the login which
\* asked for the token compared its password with.
Token == [sub : Accounts, role : Roles, version : Nat, proved : Hash]
NoToken == [sub |-> "none"]

\* verifyActiveStaff: what a request with this token is judged by, at that time.
VerifyActiveStaff(token) ==
    /\ rows[token.sub].status = "ACTIVE"
    /\ Role[token.sub] = token.role
    /\ rows[token.sub].version = token.version

NoRequest == [stage |-> "idle"]
SignedOut == [auth |-> NoToken, stored |-> [r \in Roles |-> NoToken],
              login |-> NoRequest, poll |-> NoRequest, change |-> NoRequest]

Changing == {"asked", "verified", "found"}
ChangeDone == {"changed", "wrong", "conflict", "unauthorised"}

\* Every token a tab has anywhere.
TokensOf(tab) ==
    ({tab.auth} \cup {tab.stored[r] : r \in Roles}
       \cup (IF tab.login.stage = "saving" THEN {tab.login.token} ELSE {})
       \cup (IF tab.poll.stage # "idle" THEN {tab.poll.token} ELSE {})
       \cup (IF tab.change.stage \in Changing THEN {tab.change.token} ELSE {})) \ {NoToken}

TypeOK ==
    /\ rows \in [Accounts -> Row]
    /\ hashes \in 0 .. MaxHashes
    /\ DOMAIN tabs = Tabs
    /\ \A t \in Tabs :
         /\ TokensOf(tabs[t]) \subseteq Token
         /\ tabs[t].login.stage \in {"idle", "found", "saving"}
         /\ tabs[t].poll.stage \in {"idle", "asked", "unauthorised"}
         /\ tabs[t].change.stage \in {"idle"} \cup Changing \cup ChangeDone

Init ==
    /\ rows = [a \in Accounts |->
         [status |-> IF a \in Existing THEN "ACTIVE" ELSE "none",
          hash |-> InitialHash, version |-> 0]]
    /\ hashes = 0
    /\ tabs = [t \in Tabs |-> SignedOut]

-----------------------------------------------------------------------------
(* AdminService                                                            *)

\* createAgent: the unique login id refuses a second account of the name.
CreateAgent(a, p) ==
    /\ rows[a].status = "none" /\ Role[a] = "AGENT"
    /\ ~ \E b \in Accounts : Exists(b) /\ LoginId[b] = LoginId[a]
    /\ hashes < MaxHashes /\ hashes' = hashes + 1
    /\ rows' = [rows EXCEPT ![a] = [status |-> "ACTIVE", version |-> 0,
                                    hash |-> [password |-> p, salt |-> hashes + 1]]]
    /\ UNCHANGED tabs

DeleteAgent(a) ==
    /\ Exists(a) /\ Role[a] = "AGENT"
    /\ rows' = [rows EXCEPT ![a].status = "deleted"]
    /\ UNCHANGED <<hashes, tabs>>

UpdateAgentStatus(a) ==
    /\ Exists(a) /\ Role[a] = "AGENT"
    /\ \E status \in {"ACTIVE", "INACTIVE"} : rows' = [rows EXCEPT ![a].status = status]
    /\ UNCHANGED <<hashes, tabs>>

-----------------------------------------------------------------------------
(* LoginPage and AuthService.login                                         *)

\* The server reads the account of the login id and compares the password with
\* its hash; a login it refuses, or whose answer is lost, changes nothing.
Login(t, a, p) ==
    /\ tabs[t].auth = NoToken /\ tabs[t].login.stage = "idle"
    /\ a \in Users[t] /\ rows[a].status = "ACTIVE" /\ p = rows[a].hash.password
    /\ tabs' = [tabs EXCEPT ![t].login = [stage |-> "found", sub |-> a, row |-> rows[a]]]
    /\ UNCHANGED <<rows, hashes>>

\* A bug: the token gets the version the account has when the comparison is done.
FreshVersion(login) ==
    [sub |-> login.sub, role |-> Role[login.sub], version |-> rows[login.sub].version,
     proved |-> login.row.hash]
\* The token that login() signs: all it says is from the row it has read.
TokenFor(login) ==
    [sub |-> login.sub, role |-> Role[login.sub], version |-> login.row.version,
     proved |-> login.row.hash]

\* The answer arrives.  The token of the other role is cleared and this one
\* saved; the page moves on now, or after the browser has kept the credentials.
LoginAnswered(t) ==
    LET token == TokenFor(tabs[t].login)
        saved == [r \in Roles |-> IF r = token.role THEN token ELSE NoToken]
    IN  /\ tabs[t].login.stage = "found"
        /\ \/ tabs' = [tabs EXCEPT ![t].stored = saved, ![t].login = NoRequest, ![t].auth = token]
           \/ tabs' = [tabs EXCEPT ![t].stored = saved,
                                   ![t].login = [stage |-> "saving", token |-> token]]
        /\ UNCHANGED <<rows, hashes>>

\* requestBrowserCredentialSave is over, whatever became of it: onLogin.
CredentialsKept(t) ==
    /\ tabs[t].login.stage = "saving"
    /\ tabs' = [tabs EXCEPT ![t].login = NoRequest, ![t].auth = tabs[t].login.token]
    /\ UNCHANGED <<rows, hashes>>

LoginFails(t) ==
    /\ tabs[t].login.stage = "found"
    /\ tabs' = [tabs EXCEPT ![t].login = NoRequest]
    /\ UNCHANGED <<rows, hashes>>

-----------------------------------------------------------------------------
(* The page of a signed-in tab: what it asks again and again.              *)

Poll(t) ==
    /\ t \in Pollers /\ tabs[t].auth # NoToken /\ tabs[t].poll.stage = "idle"
    /\ tabs' = [tabs EXCEPT ![t].poll = [stage |-> "asked", token |-> tabs[t].auth]]
    /\ UNCHANGED <<rows, hashes>>

\* The list of an accepted request is not looked at here.
ServePoll(t) ==
    /\ tabs[t].poll.stage = "asked"
    /\ tabs' = [tabs EXCEPT ![t].poll =
         IF VerifyActiveStaff(tabs[t].poll.token) THEN NoRequest
                                                  ELSE [@ EXCEPT !.stage = "unauthorised"]]
    /\ UNCHANGED <<rows, hashes>>

\* A bug: only the token of the agent role is cleared.
InvalidateAgent(tab) ==
    [tab EXCEPT !.auth = NoToken, !.stored = [tab.stored EXCEPT !["AGENT"] = NoToken]]
\* AUTH_INVALID_EVENT reaches App: the tab shows the login form, without a reload.
InvalidateAuth(tab) ==
    [tab EXCEPT !.auth = NoToken, !.stored = [r \in Roles |-> NoToken]]

\* A bug: a 401 only shows an error.
PollIgnored(t) ==
    /\ tabs[t].poll.stage = "unauthorised"
    /\ tabs' = [tabs EXCEPT ![t].poll = NoRequest]
    /\ UNCHANGED <<rows, hashes>>
\* A 401 to a request with a token invalidates what the tab has by then.
PollAnswered(t) ==
    /\ tabs[t].poll.stage = "unauthorised"
    /\ tabs' = [tabs EXCEPT ![t] = [InvalidateAuth(tabs[t]) EXCEPT !.poll = NoRequest]]
    /\ UNCHANGED <<rows, hashes>>

PollFails(t) ==
    /\ tabs[t].poll.stage # "idle"
    /\ tabs' = [tabs EXCEPT ![t].poll = NoRequest]
    /\ UNCHANGED <<rows, hashes>>

-----------------------------------------------------------------------------
(* PasswordChangeModal and AuthService.changePassword                      *)

\* A new password equal to the current one is refused without a change.
AskChange(t, current, new) ==
    /\ current # new
    /\ tabs[t].auth # NoToken /\ tabs[t].change.stage = "idle"
    /\ tabs' = [tabs EXCEPT ![t].change =
         [stage |-> "asked", token |-> tabs[t].auth, current |-> current, new |-> new,
          heard |-> TRUE]]
    /\ UNCHANGED <<rows, hashes>>

\* The server answers; a page that is gone hears nothing.
Answer(t, stage) ==
    tabs' = [tabs EXCEPT ![t].change = IF @.heard THEN [stage |-> stage] ELSE NoRequest]

\* requireStaff
VerifyChange(t) ==
    /\ tabs[t].change.stage = "asked"
    /\ IF VerifyActiveStaff(tabs[t].change.token)
          THEN tabs' = [tabs EXCEPT ![t].change.stage = "verified"]
          ELSE Answer(t, "unauthorised")
    /\ UNCHANGED <<rows, hashes>>

\* The hash is read and compared with the current password.
FindHash(t) ==
    LET change == tabs[t].change
        row == rows[change.token.sub]
        fits == /\ Exists(change.token.sub)
                /\ change.current = row.hash.password
    IN  /\ change.stage = "verified"
        /\ IF fits THEN tabs' = [tabs EXCEPT ![t].change =
                             [stage |-> "found", token |-> change.token, copy |-> row.hash,
                              new |-> change.new, heard |-> change.heard]]
                   ELSE Answer(t, "wrong")
        /\ UNCHANGED <<rows, hashes>>

\* A bug: the update names the account only.
UnconditionalUpdate(change) == Exists(change.token.sub)
\* updateMany where the hash is still the one that was compared.
StillFits(change) ==
    Exists(change.token.sub) /\ rows[change.token.sub].hash = change.copy

\* A bug: the version is counted down.
CountsDown(row, new) ==
    [row EXCEPT !.hash = [password |-> new, salt |-> hashes + 1], !.version = @ - 1]
\* The new hash and the next version, in one update.
Replaced(row, new) ==
    [row EXCEPT !.hash = [password |-> new, salt |-> hashes + 1], !.version = @ + 1]

UpdateHash(t) ==
    LET change == tabs[t].change
    IN  /\ change.stage = "found"
        /\ \/ /\ StillFits(change)
              /\ hashes < MaxHashes /\ hashes' = hashes + 1
              /\ rows' = [rows EXCEPT ![change.token.sub] = Replaced(@, change.new)]
              /\ Answer(t, "changed")
           \/ /\ ~StillFits(change)
              /\ Answer(t, "conflict")
              /\ UNCHANGED <<rows, hashes>>

\* Success clears both roles and loads the login page; 401 invalidates what the
\* tab has by then; 400 and 409 are shown.
ChangeAnswered(t) ==
    LET change == tabs[t].change
        next == CASE change.stage = "changed" -> SignedOut
                  [] change.stage = "unauthorised" -> InvalidateAuth(tabs[t])
                  [] change.stage \in {"wrong", "conflict"} -> tabs[t]
    IN  /\ change.stage \in ChangeDone
        /\ tabs' = [tabs EXCEPT ![t] = [next EXCEPT !.change = NoRequest]]
        /\ UNCHANGED <<rows, hashes>>

-----------------------------------------------------------------------------
\* The page is loaded anew with what is stored, ADMIN before AGENT.  A change
\* that is under way goes on at the server.
Reloaded(tab) ==
    [SignedOut EXCEPT
       !.stored = tab.stored,
       !.auth = IF tab.stored["ADMIN"] # NoToken THEN tab.stored["ADMIN"] ELSE tab.stored["AGENT"],
       !.change = IF tab.change.stage \in Changing THEN [tab.change EXCEPT !.heard = FALSE]
                                                  ELSE NoRequest]

Reload(t) ==
    /\ tabs' = [tabs EXCEPT ![t] = Reloaded(tabs[t])]
    /\ UNCHANGED <<rows, hashes>>

\* logout() of both pages: the token of the role shown is cleared.
Logout(t) ==
    /\ tabs[t].auth # NoToken
    /\ tabs' = [tabs EXCEPT ![t] =
         Reloaded([tabs[t] EXCEPT !.stored[tabs[t].auth.role] = NoToken])]
    /\ UNCHANGED <<rows, hashes>>

TabStep(t) ==
    \/ \E a \in Accounts, p \in Passwords : Login(t, a, p)
    \/ LoginAnswered(t) \/ CredentialsKept(t) \/ LoginFails(t)
    \/ Poll(t) \/ ServePoll(t) \/ PollAnswered(t) \/ PollFails(t)
    \/ \E current, new \in Passwords : AskChange(t, current, new)
    \/ VerifyChange(t) \/ FindHash(t) \/ UpdateHash(t) \/ ChangeAnswered(t)
    \/ Reload(t) \/ Logout(t)

AdminStep(a) ==
    (\E p \in Passwords : CreateAgent(a, p)) \/ DeleteAgent(a) \/ UpdateAgentStatus(a)

Next == (\E t \in Tabs : TabStep(t)) \/ (\E a \in Accounts : AdminStep(a))

(* A signed-in page polls for ever, and a network that is there again and   *)
(* again lets its requests through.                                         *)
Spec ==
    /\ Init /\ [][Next]_vars
    /\ \A t \in Pollers : WF_vars(Poll(t)) /\ SF_vars(ServePoll(t)) /\ SF_vars(PollAnswered(t))

-----------------------------------------------------------------------------
(* A token that its account's version lets pass was given for the password *)
(* the account has now: whatever logins and changes overlap, a changed     *)
(* password leaves no older token in use, on any computer.                 *)
TokenProvesCurrentPassword ==
    \A t \in Tabs : \A token \in TokensOf(tabs[t]) :
        rows[token.sub].version = token.version => token.proved = rows[token.sub].hash

(* A password is only replaced by a change that has proved that very hash: *)
(* of two changes of one password that overlap, one is refused.            *)
ChangeProvesReplaced ==
    [][\A a \in Accounts :
         Exists(a) /\ rows'[a].hash # rows[a].hash =>
            \E t \in Tabs : /\ tabs[t].change.stage = "found"
                            /\ tabs[t].change.token.sub = a
                            /\ tabs[t].change.copy = rows[a].hash]_vars

(* A tab that shows the login form keeps no token: loading the page again  *)
(* does not bring a signed-out user back, whichever role was signed in.    *)
SignedOutTabsHoldNothing ==
    \A t \in Tabs : tabs[t].auth = NoToken /\ tabs[t].login.stage # "saving"
                       => \A r \in Roles : tabs[t].stored[r] = NoToken

(* A page whose token is no longer accepted is left for the login form, and *)
(* with the page its socket, which the gateway checks at the handshake only. *)
RevokedPagesAreLeft ==
    \A t \in Pollers :
        (tabs[t].auth # NoToken /\ ~VerifyActiveStaff(tabs[t].auth))
            ~> (tabs[t].auth = NoToken \/ VerifyActiveStaff(tabs[t].auth))
=============================================================================
