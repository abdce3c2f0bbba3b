------------------------ MODULE StaffAccountsProofs ------------------------
(***************************************************************************)
(* Proofs about StaffAccounts, for every set of accounts, roles, passwords *)
(* and tabs: a token that an account's version lets pass was given for the *)
(* password the account has now, and a tab that shows the login form has   *)
(* kept none.                                                              *)
(***************************************************************************)
EXTENDS StaffAccounts, TLAPS

TokenOrNone == Token \cup {NoToken}
FoundLogin == [stage : {"found"}, sub : Accounts, row : Row]
SavingLogin == [stage : {"saving"}, token : Token]
PollRequest == [stage : {"asked", "unauthorised"}, token : Token]
AskedChange == [stage : {"asked", "verified"}, token : Token, current : Passwords,
                new : Passwords, heard : BOOLEAN]
FoundChange == [stage : {"found"}, token : Token, copy : Hash, new : Passwords, heard : BOOLEAN]

Logins == {NoRequest} \cup FoundLogin \cup SavingLogin
Polls == {NoRequest} \cup PollRequest
Changes == {NoRequest} \cup AskedChange \cup FoundChange \cup [stage : ChangeDone]

\* Everything a tab holds, whatever its requests have come to.
Tab == [auth : TokenOrNone, stored : [Roles -> TokenOrNone],
        login : Logins, poll : Polls, change : Changes]

Typed ==
    /\ rows \in [Accounts -> Row] /\ hashes \in Nat
    /\ tabs \in [Tabs -> Tab]

\* What was read from the row of the account at some time: it is of the version the
\* account has now only if it is of the hash the account has now.
Backed(sub, version, hash) ==
    /\ rows[sub].status # "none"
    /\ version <= rows[sub].version
    /\ version = rows[sub].version => hash = rows[sub].hash

BackedToken(token) == token # NoToken => Backed(token.sub, token.version, token.proved)

\* Every token of a tab, and the row a login has read, is backed.
BackedTab(tab) ==
    /\ BackedToken(tab.auth)
    /\ \A r \in Roles : BackedToken(tab.stored[r])
    /\ tab.login.stage = "found" => Backed(tab.login.sub, tab.login.row.version, tab.login.row.hash)
    /\ tab.login.stage = "saving" => BackedToken(tab.login.token)
    /\ tab.poll.stage # "idle" => BackedToken(tab.poll.token)
    /\ tab.change.stage \in Changing => BackedToken(tab.change.token)

AccountsInv == Typed /\ \A t \in Tabs : BackedTab(tabs[t])

(* A step that writes one tab, with nothing in it that is not backed, keeps *)
(* the invariant.                                                           *)
LEMMA TabWritten ==
    ASSUME AccountsInv, NEW t \in Tabs, NEW tab \in Tab, BackedTab(tab),
           tabs' = [tabs EXCEPT ![t] = tab], UNCHANGED <<rows, hashes>>
    PROVE  AccountsInv'
<1>1. Typed'
  BY DEF AccountsInv, Typed
<1>2. ASSUME NEW u \in Tabs PROVE BackedTab(tabs[u])'
  <2>1. CASE u = t
    <3>1. tabs'[u] = tab
      BY <2>1 DEF AccountsInv, Typed
    <3>2. BackedTab(tab)'
      BY DEF BackedTab, BackedToken, Backed
    <3> QED  BY <3>1, <3>2 DEF BackedTab, BackedToken, Backed
  <2>2. CASE u # t
    <3>1. tabs'[u] = tabs[u]
      BY <2>2 DEF AccountsInv, Typed
    <3>2. BackedTab(tabs'[u])
      BY <3>1 DEF AccountsInv
    <3>3. rows' = rows
      OBVIOUS
    <3> QED  BY ONLY <3>2, <3>3 DEF BackedTab, BackedToken, Backed
  <2> QED  BY <2>1, <2>2
<1> QED  BY <1>1, <1>2 DEF AccountsInv

(* What is backed stays backed when accounts go forward: no account is      *)
(* there for the first time twice, versions are never counted down, and a   *)
(* hash is only replaced with the version (createAgent, updateAgentStatus,  *)
(* deleteAgent, changePassword).                                            *)
LEMMA ForwardKeepsBacked ==
    ASSUME rows \in [Accounts -> Row], rows' \in [Accounts -> Row],
           \A a \in Accounts : rows[a].status # "none" =>
               /\ rows'[a].status # "none"
               /\ \/ rows'[a].version = rows[a].version /\ rows'[a].hash = rows[a].hash
                  \/ rows'[a].version = rows[a].version + 1,
           NEW tab \in Tab, BackedTab(tab)
    PROVE  BackedTab(tab)'
<1>1. ASSUME NEW sub \in Accounts, NEW version \in Nat, NEW hash, Backed(sub, version, hash)
      PROVE  Backed(sub, version, hash)'
  <2>1. rows[sub].version \in Nat /\ rows'[sub].version \in Nat
    BY DEF Row
  <2> QED  BY <1>1, <2>1 DEF Backed
<1>2. ASSUME NEW token \in TokenOrNone, BackedToken(token) PROVE BackedToken(token)'
  <2>1. CASE token = NoToken
    BY <2>1 DEF BackedToken
  <2>2. CASE token \in Token
    <3>1. token.sub \in Accounts /\ token.version \in Nat
      BY <2>2 DEF Token
    <3> QED  BY <1>1, <1>2, <3>1 DEF BackedToken
  <2> QED  BY <2>1, <2>2, <1>2 DEF TokenOrNone
<1>3. /\ tab.auth \in TokenOrNone /\ tab.stored \in [Roles -> TokenOrNone]
      /\ tab.login \in Logins /\ tab.poll \in Polls /\ tab.change \in Changes
  BY DEF Tab
<1>4. tab.login.stage = "found" => tab.login \in FoundLogin
  BY <1>3 DEF Logins, FoundLogin, SavingLogin, NoRequest
<1>5. tab.login.stage = "saving" => tab.login.token \in TokenOrNone
  BY <1>3 DEF Logins, FoundLogin, SavingLogin, NoRequest, TokenOrNone
<1>6. tab.poll.stage # "idle" => tab.poll.token \in TokenOrNone
  BY <1>3 DEF Polls, PollRequest, NoRequest, TokenOrNone
<1>7. tab.change.stage \in Changing => tab.change.token \in TokenOrNone
  BY <1>3 DEF Changes, AskedChange, FoundChange, ChangeDone, Changing, NoRequest, TokenOrNone
<1>8. tab.login.stage = "found" =>
         tab.login.sub \in Accounts /\ tab.login.row.version \in Nat
  BY <1>4 DEF FoundLogin, Row
<1> QED  BY <1>1, <1>2, <1>3, <1>5, <1>6, <1>7, <1>8 DEF BackedTab

(* Logins: the token that is signed says what the row said that was read.   *)
LEMMA LoginKeeps ==
    ASSUME AccountsInv, NEW t \in Tabs,
           \/ \E a \in Accounts, p \in Passwords : Login(t, a, p)
           \/ LoginAnswered(t) \/ CredentialsKept(t) \/ LoginFails(t)
    PROVE  AccountsInv'
<1>t. tabs[t] \in Tab /\ BackedTab(tabs[t]) /\ rows \in [Accounts -> Row]
      /\ NoToken \in TokenOrNone /\ NoRequest \in Logins
  BY DEF AccountsInv, Typed, TokenOrNone, Logins
<1>1. ASSUME NEW a \in Accounts, NEW p \in Passwords, Login(t, a, p) PROVE AccountsInv'
  <2> DEFINE login == [stage |-> "found", sub |-> a, row |-> rows[a]]
             tab == [tabs[t] EXCEPT !.login = login]
  <2>1. login \in Logins
    BY <1>t DEF Logins, FoundLogin
  <2>2. tab \in Tab
    BY <1>t, <2>1 DEF Tab
  <2>3. Backed(a, rows[a].version, rows[a].hash)
    BY <1>1, <1>t DEF Login, Backed, Row
  <2>4. BackedTab(tab)
    BY <1>t, <2>3 DEF Tab, BackedTab
  <2>5. tabs' = [tabs EXCEPT ![t] = tab] /\ UNCHANGED <<rows, hashes>>
    BY <1>1 DEF Login
  <2> QED  BY <2>2, <2>4, <2>5, TabWritten
<1>2. CASE LoginAnswered(t)
  <2> DEFINE token == TokenFor(tabs[t].login)
             saved == [r \in Roles |-> IF r = token.role THEN token ELSE NoToken]
             now1 == [tabs[t] EXCEPT !.stored = saved, !.login = NoRequest, !.auth = token]
             later == [tabs[t] EXCEPT !.stored = saved,
                                      !.login = [stage |-> "saving", token |-> token]]
  <2>0. tabs[t].login.stage = "found"
    BY <1>2 DEF LoginAnswered
  <2>1. tabs[t].login \in FoundLogin
    BY <2>0, <1>t DEF Tab, Logins, FoundLogin, SavingLogin, NoRequest
  <2>2. token \in Token
    BY <2>1, AccountsAssumption DEF TokenFor, Token, FoundLogin, Row
  <2>3. BackedToken(token)
    <3>1. Backed(tabs[t].login.sub, tabs[t].login.row.version, tabs[t].login.row.hash)
      BY <1>t, <1>2 DEF LoginAnswered, BackedTab
    <3> QED  BY <3>1 DEF BackedToken, TokenFor
  <2>4. token \in TokenOrNone /\ saved \in [Roles -> TokenOrNone]
        /\ [stage |-> "saving", token |-> token] \in Logins
    BY <2>2 DEF TokenOrNone, Logins, SavingLogin
  <2>5. BackedToken(NoToken)
    BY DEF BackedToken
  <2>6. now1 \in Tab /\ later \in Tab
    BY <1>t, <2>4 DEF Tab
  <2>7. \A r \in Roles : BackedToken(saved[r])
    BY <2>3, <2>5
  <2>8. now1.auth = token /\ now1.stored = saved /\ now1.login = NoRequest
        /\ now1.poll = tabs[t].poll /\ now1.change = tabs[t].change
    BY <1>t DEF Tab
  <2>9. later.auth = tabs[t].auth /\ later.stored = saved
        /\ later.login = [stage |-> "saving", token |-> token]
        /\ later.poll = tabs[t].poll /\ later.change = tabs[t].change
    BY <1>t DEF Tab
  <2>10. BackedTab(now1)
    <3> HIDE DEF token, saved, now1
    <3> QED  BY <1>t, <2>3, <2>7, <2>8 DEF BackedTab, NoRequest
  <2>11. BackedTab(later)
    <3> HIDE DEF token, saved, later
    <3> QED  BY <1>t, <2>3, <2>7, <2>9 DEF BackedTab
  <2>12. (tabs' = [tabs EXCEPT ![t] = now1] \/ tabs' = [tabs EXCEPT ![t] = later])
         /\ UNCHANGED <<rows, hashes>>
    BY <1>2 DEF LoginAnswered
  <2> QED  BY <2>6, <2>10, <2>11, <2>12, TabWritten
<1>3. CASE CredentialsKept(t)
  <2> DEFINE tab == [tabs[t] EXCEPT !.login = NoRequest, !.auth = tabs[t].login.token]
  <2>1. tabs[t].login \in SavingLogin
    BY <1>3, <1>t DEF CredentialsKept, Tab, Logins, FoundLogin, SavingLogin, NoRequest
  <2>2. tabs[t].login.token \in TokenOrNone /\ BackedToken(tabs[t].login.token)
    BY <2>1, <1>t DEF SavingLogin, TokenOrNone, BackedTab
  <2>3. tab \in Tab
    BY <1>t, <2>2 DEF Tab
  <2>4. BackedTab(tab)
    BY <1>t, <2>2 DEF Tab, BackedTab, NoRequest
  <2>5. tabs' = [tabs EXCEPT ![t] = tab] /\ UNCHANGED <<rows, hashes>>
    BY <1>3 DEF CredentialsKept
  <2> QED  BY <2>3, <2>4, <2>5, TabWritten
<1>4. CASE LoginFails(t)
  <2> DEFINE tab == [tabs[t] EXCEPT !.login = NoRequest]
  <2>1. tab \in Tab /\ BackedTab(tab)
    BY <1>t DEF Tab, BackedTab, NoRequest
  <2>2. tabs' = [tabs EXCEPT ![t] = tab] /\ UNCHANGED <<rows, hashes>>
    BY <1>4 DEF LoginFails
  <2> QED  BY <2>1, <2>2, TabWritten
<1> QED  BY <1>1, <1>2, <1>3, <1>4

(* A tab in the hands of its handlers: signed out, or loaded anew, it holds *)
(* nothing that it did not hold (invalidateAuth, readStoredAuth).           *)
LEMMA FewerTokens ==
    ASSUME NEW tab \in Tab, BackedTab(tab)
    PROVE  /\ InvalidateAuth(tab) \in Tab /\ BackedTab(InvalidateAuth(tab))
           /\ Reloaded(tab) \in Tab /\ BackedTab(Reloaded(tab))
<1>0. /\ NoToken \in TokenOrNone /\ BackedToken(NoToken)
      /\ NoRequest \in Logins /\ NoRequest \in Polls /\ NoRequest \in Changes
      /\ NoRequest.stage = "idle" /\ "idle" \notin Changing
      /\ "ADMIN" \in Roles /\ "AGENT" \in Roles
  BY DEF TokenOrNone, BackedToken, NoRequest, Logins, Polls, Changes, Changing, Roles
<1>1. /\ tab.auth \in TokenOrNone /\ tab.stored \in [Roles -> TokenOrNone]
      /\ tab.login \in Logins /\ tab.poll \in Polls /\ tab.change \in Changes
  BY DEF Tab
<1>2. InvalidateAuth(tab) \in Tab
  BY <1>0, <1>1 DEF InvalidateAuth, Tab
<1>3. BackedTab(InvalidateAuth(tab))
  <2>1. /\ InvalidateAuth(tab).auth = NoToken
        /\ \A r \in Roles : InvalidateAuth(tab).stored[r] = NoToken
        /\ InvalidateAuth(tab).login = tab.login /\ InvalidateAuth(tab).poll = tab.poll
        /\ InvalidateAuth(tab).change = tab.change
    BY DEF InvalidateAuth, Tab
  <2> QED  BY <2>1, <1>0 DEF BackedTab
<1>4. /\ Reloaded(tab).auth \in TokenOrNone /\ BackedToken(Reloaded(tab).auth)
      /\ Reloaded(tab).stored = tab.stored
      /\ Reloaded(tab).login = NoRequest /\ Reloaded(tab).poll = NoRequest
  BY <1>0, <1>1 DEF Reloaded, SignedOut, BackedTab
<1>5. /\ Reloaded(tab).change \in Changes
      /\ Reloaded(tab).change.stage \in Changing => Reloaded(tab).change.token = tab.change.token
                                                    /\ tab.change.stage \in Changing
  <2>1. CASE tab.change.stage \in Changing
    <3>1. Reloaded(tab).change = [tab.change EXCEPT !.heard = FALSE]
      BY <2>1 DEF Reloaded, SignedOut
    <3>2. tab.change \in AskedChange \/ tab.change \in FoundChange
      BY <2>1, <1>1 DEF Changes, Changing, ChangeDone, NoRequest
    <3>3. [tab.change EXCEPT !.heard = FALSE] \in AskedChange \cup FoundChange
      BY <3>2 DEF AskedChange, FoundChange
    <3>4. [tab.change EXCEPT !.heard = FALSE].token = tab.change.token
      BY <3>2 DEF AskedChange, FoundChange
    <3> QED  BY <2>1, <3>1, <3>3, <3>4 DEF Changes
  <2>2. CASE tab.change.stage \notin Changing
    <3>1. Reloaded(tab).change = NoRequest
      BY <2>2 DEF Reloaded, SignedOut
    <3> QED  BY <3>1, <1>0
  <2> QED  BY <2>1, <2>2
<1>6. Reloaded(tab) \in Tab
  <2> DEFINE auth == IF tab.stored["ADMIN"] # NoToken THEN tab.stored["ADMIN"]
                                                      ELSE tab.stored["AGENT"]
             change == IF tab.change.stage \in Changing THEN [tab.change EXCEPT !.heard = FALSE]
                                                        ELSE NoRequest
  <2>1. SignedOut \in Tab
    BY <1>0 DEF SignedOut, Tab
  <2>2. Reloaded(tab) = [SignedOut EXCEPT !.stored = tab.stored, !.auth = auth, !.change = change]
    BY DEF Reloaded
  <2>3. auth = Reloaded(tab).auth /\ change = Reloaded(tab).change
    BY DEF Reloaded, SignedOut
  <2>4. auth \in TokenOrNone /\ change \in Changes
    BY <2>3, <1>4, <1>5
  <2> HIDE DEF auth, change
  <2> QED  BY <2>1, <2>2, <2>4, <1>1 DEF Tab
<1>7. BackedTab(Reloaded(tab))
  BY <1>0, <1>4, <1>5 DEF BackedTab
<1> QED  BY <1>2, <1>3, <1>6, <1>7

(* Polls carry the token that the tab shows, and a refusal signs it out.    *)
LEMMA PollKeeps ==
    ASSUME AccountsInv, NEW t \in Tabs,
           Poll(t) \/ ServePoll(t) \/ PollAnswered(t) \/ PollFails(t)
    PROVE  AccountsInv'
<1>t. tabs[t] \in Tab /\ BackedTab(tabs[t]) /\ NoRequest \in Polls /\ NoRequest.stage = "idle"
  BY DEF AccountsInv, Typed, Polls, NoRequest
<1>f. /\ tabs[t].auth \in TokenOrNone /\ tabs[t].poll \in Polls
      /\ BackedToken(tabs[t].auth)
      /\ tabs[t].poll.stage # "idle" => /\ tabs[t].poll \in PollRequest
                                        /\ BackedToken(tabs[t].poll.token)
  BY <1>t DEF Tab, BackedTab, Polls, NoRequest
<1>1. ASSUME NEW poll \in Polls, poll.stage # "idle" => BackedToken(poll.token),
             tabs' = [tabs EXCEPT ![t] = [tabs[t] EXCEPT !.poll = poll]],
             UNCHANGED <<rows, hashes>>
      PROVE  AccountsInv'
  <2> DEFINE tab == [tabs[t] EXCEPT !.poll = poll]
  <2>1. tab \in Tab
    BY <1>t DEF Tab
  <2>2. BackedTab(tab)
    BY <1>t, <1>1 DEF Tab, BackedTab
  <2> QED  BY <1>1, <2>1, <2>2, TabWritten
<1>2. CASE Poll(t)
  <2> DEFINE poll == [stage |-> "asked", token |-> tabs[t].auth]
  <2>1. tabs[t].auth \in Token
    BY <1>2, <1>f DEF Poll, TokenOrNone
  <2>2. poll \in Polls /\ BackedToken(poll.token)
    BY <2>1, <1>f DEF Polls, PollRequest
  <2>3. tabs' = [tabs EXCEPT ![t] = [tabs[t] EXCEPT !.poll = poll]] /\ UNCHANGED <<rows, hashes>>
    BY <1>2 DEF Poll
  <2> HIDE DEF poll
  <2> QED  BY <2>2, <2>3, <1>1
<1>3. CASE ServePoll(t)
  <2>0. tabs[t].poll.stage = "asked" /\ UNCHANGED <<rows, hashes>>
    BY <1>3 DEF ServePoll
  <2>1. CASE tabs' = [tabs EXCEPT ![t] = [tabs[t] EXCEPT !.poll = NoRequest]]
    BY <2>0, <2>1, <1>t, <1>1
  <2>2. CASE tabs' = [tabs EXCEPT ![t] = [tabs[t] EXCEPT !.poll =
                        [tabs[t].poll EXCEPT !.stage = "unauthorised"]]]
    <3> DEFINE poll == [tabs[t].poll EXCEPT !.stage = "unauthorised"]
    <3>1. poll \in Polls /\ poll.token = tabs[t].poll.token /\ BackedToken(poll.token)
      BY <2>0, <1>f DEF Polls, PollRequest
    <3> HIDE DEF poll
    <3> QED  BY <2>0, <2>2, <3>1, <1>1 DEF poll
  <2> QED  BY <1>3, <2>1, <2>2 DEF ServePoll
<1>4. CASE PollAnswered(t)
  <2> DEFINE tab == [InvalidateAuth(tabs[t]) EXCEPT !.poll = NoRequest]
  <2>1. InvalidateAuth(tabs[t]) \in Tab /\ BackedTab(InvalidateAuth(tabs[t]))
    BY <1>t, FewerTokens
  <2>2. tab \in Tab /\ BackedTab(tab)
    BY <2>1, <1>t DEF Tab, BackedTab
  <2>3. tabs' = [tabs EXCEPT ![t] = tab] /\ UNCHANGED <<rows, hashes>>
    BY <1>4 DEF PollAnswered
  <2> QED  BY <2>2, <2>3, TabWritten
<1>5. CASE PollFails(t)
  BY <1>5, <1>t, <1>1 DEF PollFails
<1> QED  BY <1>2, <1>3, <1>4, <1>5

(* What a tab's change of password comes to is backed while its token is.   *)
LEMMA ChangeWritten ==
    ASSUME NEW tab \in Tab, BackedTab(tab),
           NEW change \in Changes, change.stage \in Changing => BackedToken(change.token)
    PROVE  /\ [tab EXCEPT !.change = change] \in Tab
           /\ BackedTab([tab EXCEPT !.change = change])
BY DEF Tab, BackedTab

(* A change is asked for, verified and compared: no row is written yet, and *)
(* its token stays the one that the tab held when it asked.                 *)
LEMMA AskingKeeps ==
    ASSUME AccountsInv, NEW t \in Tabs,
           \/ \E current, new \in Passwords : AskChange(t, current, new)
           \/ VerifyChange(t) \/ FindHash(t) \/ ChangeAnswered(t)
    PROVE  AccountsInv'
<1>t. tabs[t] \in Tab /\ BackedTab(tabs[t]) /\ rows \in [Accounts -> Row]
      /\ NoRequest \in Changes /\ NoRequest.stage \notin Changing
  BY DEF AccountsInv, Typed, Changes, NoRequest, Changing
<1>f. /\ tabs[t].auth \in TokenOrNone /\ tabs[t].change \in Changes
      /\ BackedToken(tabs[t].auth)
      /\ tabs[t].change.stage \in Changing => BackedToken(tabs[t].change.token)
  BY <1>t DEF Tab, BackedTab
<1>1. ASSUME NEW change \in Changes, change.stage \in Changing => BackedToken(change.token),
             tabs' = [tabs EXCEPT ![t] = [tabs[t] EXCEPT !.change = change]],
             UNCHANGED <<rows, hashes>>
      PROVE  AccountsInv'
  BY <1>1, <1>t, ChangeWritten, TabWritten
<1>2. ASSUME NEW stage \in ChangeDone, Answer(t, stage), UNCHANGED <<rows, hashes>>
      PROVE  AccountsInv'
  <2>1. [stage |-> stage] \in Changes /\ [stage |-> stage].stage \notin Changing
    BY DEF Changes, ChangeDone, Changing
  <2>2. \/ tabs' = [tabs EXCEPT ![t] = [tabs[t] EXCEPT !.change = [stage |-> stage]]]
        \/ tabs' = [tabs EXCEPT ![t] = [tabs[t] EXCEPT !.change = NoRequest]]
    BY <1>2 DEF Answer
  <2> QED  BY <1>1, <1>2, <1>t, <2>1, <2>2
<1>3. ASSUME NEW current \in Passwords, NEW new \in Passwords, AskChange(t, current, new)
      PROVE  AccountsInv'
  <2> DEFINE change == [stage |-> "asked", token |-> tabs[t].auth, current |-> current,
                        new |-> new, heard |-> TRUE]
  <2>1. tabs[t].auth \in Token
    BY <1>3, <1>f DEF AskChange, TokenOrNone
  <2>2. change \in Changes /\ BackedToken(change.token)
    BY <2>1, <1>f DEF Changes, AskedChange
  <2>3. tabs' = [tabs EXCEPT ![t] = [tabs[t] EXCEPT !.change = change]] /\ UNCHANGED <<rows, hashes>>
    BY <1>3 DEF AskChange
  <2> HIDE DEF change
  <2> QED  BY <1>1, <2>2, <2>3
<1>4. CASE VerifyChange(t)
  <2>0. tabs[t].change.stage = "asked" /\ UNCHANGED <<rows, hashes>>
    BY <1>4 DEF VerifyChange
  <2>1. CASE tabs' = [tabs EXCEPT ![t].change.stage = "verified"]
    <3> DEFINE change == [tabs[t].change EXCEPT !.stage = "verified"]
    <3>1. tabs[t].change \in AskedChange
      BY <2>0, <1>f DEF Changes, AskedChange, FoundChange, ChangeDone, NoRequest
    <3>2. change \in Changes /\ change.token = tabs[t].change.token
      BY <3>1 DEF Changes, AskedChange
    <3>3. BackedToken(change.token)
      BY <3>2, <2>0, <1>f DEF Changing
    <3>4. tabs' = [tabs EXCEPT ![t] = [tabs[t] EXCEPT !.change = change]]
      BY <2>1
    <3> HIDE DEF change
    <3> QED  BY <1>1, <2>0, <3>2, <3>3, <3>4
  <2>2. CASE Answer(t, "unauthorised")
    BY <2>0, <2>2, <1>2 DEF ChangeDone
  <2> QED  BY <1>4, <2>1, <2>2 DEF VerifyChange
<1>5. CASE FindHash(t)
  <2>0. tabs[t].change.stage = "verified" /\ UNCHANGED <<rows, hashes>>
    BY <1>5 DEF FindHash
  <2> DEFINE old == tabs[t].change
             change == [stage |-> "found", token |-> old.token, copy |-> rows[old.token.sub].hash,
                        new |-> old.new, heard |-> old.heard]
  <2>1. CASE tabs' = [tabs EXCEPT ![t].change = change]
    <3>1. old \in AskedChange
      BY <2>0, <1>f DEF Changes, AskedChange, FoundChange, ChangeDone, NoRequest
    <3>2. old.token.sub \in Accounts /\ rows[old.token.sub].hash \in Hash
      <4>1. old.token.sub \in Accounts
        BY <3>1 DEF AskedChange, Token
      <4> QED  BY <4>1, <1>t DEF Row
    <3>3. change \in Changes /\ change.token = old.token
      BY <3>1, <3>2 DEF Changes, AskedChange, FoundChange
    <3>4. BackedToken(change.token)
      BY <3>3, <2>0, <1>f DEF Changing
    <3>5. tabs' = [tabs EXCEPT ![t] = [tabs[t] EXCEPT !.change = change]]
      BY <2>1
    <3> HIDE DEF change
    <3> QED  BY <1>1, <2>0, <3>3, <3>4, <3>5
  <2>2. CASE Answer(t, "wrong")
    BY <2>0, <2>2, <1>2 DEF ChangeDone
  <2> QED  BY <1>5, <2>1, <2>2 DEF FindHash
<1>6. CASE ChangeAnswered(t)
  <2>1. ASSUME NEW next \in Tab, BackedTab(next),
               tabs' = [tabs EXCEPT ![t] = [next EXCEPT !.change = NoRequest]],
               UNCHANGED <<rows, hashes>>
        PROVE  AccountsInv'
    BY <2>1, <1>t, ChangeWritten, TabWritten
  <2>2. SignedOut \in Tab /\ BackedTab(SignedOut)
    <3>1. SignedOut \in Tab
      BY DEF SignedOut, Tab, TokenOrNone, Logins, Polls, Changes
    <3>2. BackedTab(SignedOut)
      BY DEF SignedOut, BackedTab, BackedToken, NoRequest, Changing
    <3> QED  BY <3>1, <3>2
  <2>3. InvalidateAuth(tabs[t]) \in Tab /\ BackedTab(InvalidateAuth(tabs[t]))
    BY <1>t, FewerTokens
  <2>4. /\ \/ tabs' = [tabs EXCEPT ![t] = [SignedOut EXCEPT !.change = NoRequest]]
           \/ tabs' = [tabs EXCEPT ![t] = [InvalidateAuth(tabs[t]) EXCEPT !.change = NoRequest]]
           \/ tabs' = [tabs EXCEPT ![t] = [tabs[t] EXCEPT !.change = NoRequest]]
        /\ UNCHANGED <<rows, hashes>>
    BY <1>6 DEF ChangeAnswered, ChangeDone
  <2> QED  BY <2>1, <2>2, <2>3, <2>4, <1>t
<1> QED  BY <1>3, <1>4, <1>5, <1>6

(* A reload shows what is stored, and a logout loads the page anew with one *)
(* token fewer (readStoredAuth, logout).                                    *)
LEMMA LoadingKeeps ==
    ASSUME AccountsInv, NEW t \in Tabs, Reload(t) \/ Logout(t)
    PROVE  AccountsInv'
<1>t. tabs[t] \in Tab /\ BackedTab(tabs[t]) /\ NoToken \in TokenOrNone /\ BackedToken(NoToken)
  BY DEF AccountsInv, Typed, TokenOrNone, BackedToken
<1>1. CASE Reload(t)
  <2>1. Reloaded(tabs[t]) \in Tab /\ BackedTab(Reloaded(tabs[t]))
    BY <1>t, FewerTokens
  <2>2. tabs' = [tabs EXCEPT ![t] = Reloaded(tabs[t])] /\ UNCHANGED <<rows, hashes>>
    BY <1>1 DEF Reload
  <2> QED  BY <2>1, <2>2, TabWritten
<1>2. CASE Logout(t)
  <2> DEFINE tab == [tabs[t] EXCEPT !.stored[tabs[t].auth.role] = NoToken]
  <2>1. tab \in Tab
    BY <1>t DEF Tab
  <2>2. BackedTab(tab)
    BY <1>t DEF Tab, BackedTab
  <2>3. Reloaded(tab) \in Tab /\ BackedTab(Reloaded(tab))
    BY <2>1, <2>2, FewerTokens
  <2>4. tabs' = [tabs EXCEPT ![t] = Reloaded(tab)] /\ UNCHANGED <<rows, hashes>>
    BY <1>2 DEF Logout
  <2> HIDE DEF tab
  <2> QED  BY <2>3, <2>4, TabWritten
<1> QED  BY <1>1, <1>2

(* The rows go forward, the tabs stay as they are or one gives an answer.   *)
LEMMA RowsWritten ==
    ASSUME AccountsInv, rows' \in [Accounts -> Row], hashes' \in Nat,
           \A a \in Accounts : rows[a].status # "none" =>
               /\ rows'[a].status # "none"
               /\ \/ rows'[a].version = rows[a].version /\ rows'[a].hash = rows[a].hash
                  \/ rows'[a].version = rows[a].version + 1,
           NEW to \in [Tabs -> Tab], \A t \in Tabs : BackedTab(to[t]), tabs' = to
    PROVE  AccountsInv'
<1>1. Typed'
  BY DEF Typed
<1>2. ASSUME NEW t \in Tabs PROVE BackedTab(tabs[t])'
  <2>1. to[t] \in Tab /\ BackedTab(to[t]) /\ rows \in [Accounts -> Row]
    BY DEF AccountsInv, Typed
  <2>2. BackedTab(to[t])'
    BY <2>1, ForwardKeepsBacked
  <2>3. tabs'[t] = to[t]
    OBVIOUS
  <2> QED  BY <2>2, <2>3 DEF BackedTab, BackedToken, Backed
<1> QED  BY <1>1, <1>2 DEF AccountsInv

(* A password that is replaced counts the version of its row.               *)
LEMMA ReplacedRow ==
    ASSUME hashes \in Nat, NEW row \in Row, NEW new \in Passwords
    PROVE  /\ Replaced(row, new) \in Row
           /\ Replaced(row, new).version = row.version + 1
           /\ Replaced(row, new).status = row.status
<1> DEFINE hash == [password |-> new, salt |-> hashes + 1]
<1>1. hash \in Hash
  BY DEF Hash
<1> DEFINE hashed == [row EXCEPT !.hash = hash]
<1>2. Replaced(row, new) = [hashed EXCEPT !.version = @ + 1]
  BY DEF Replaced
<1> HIDE DEF hash
<1>3. hashed \in Row /\ hashed.version = row.version /\ hashed.status = row.status
  BY <1>1 DEF Row
<1> HIDE DEF hashed
<1> QED  BY <1>2, <1>3 DEF Row

(* The write of a changed password changes the hash with the version.       *)
LEMMA UpdateKeeps ==
    ASSUME AccountsInv, NEW t \in Tabs, UpdateHash(t)
    PROVE  AccountsInv'
<1> DEFINE change == tabs[t].change
<1>t. /\ tabs \in [Tabs -> Tab] /\ tabs[t] \in Tab /\ \A u \in Tabs : BackedTab(tabs[u])
      /\ rows \in [Accounts -> Row] /\ hashes \in Nat /\ change \in Changes
      /\ NoRequest \in Changes /\ NoRequest.stage \notin Changing
  BY DEF AccountsInv, Typed, Tab, Changes, NoRequest, Changing
<1>1. ASSUME NEW stage \in ChangeDone, Answer(t, stage)
      PROVE  \E tab \in Tab : BackedTab(tab) /\ tabs' = [tabs EXCEPT ![t] = tab]
  <2>1. [stage |-> stage] \in Changes /\ [stage |-> stage].stage \notin Changing
    BY DEF Changes, ChangeDone, Changing
  <2>2. \E done \in Changes : done.stage \notin Changing
           /\ tabs' = [tabs EXCEPT ![t] = [tabs[t] EXCEPT !.change = done]]
    BY <1>1, <1>t, <2>1 DEF Answer
  <2>3. PICK done \in Changes : done.stage \notin Changing
           /\ tabs' = [tabs EXCEPT ![t] = [tabs[t] EXCEPT !.change = done]]
    BY <2>2
  <2>4. /\ [tabs[t] EXCEPT !.change = done] \in Tab
        /\ BackedTab([tabs[t] EXCEPT !.change = done])
    BY <1>t, <2>3, ChangeWritten
  <2> QED  BY <2>3, <2>4
<1>2. change \in FoundChange
  <2>1. change.stage = "found"
    BY DEF UpdateHash
  <2> QED  BY <2>1, <1>t DEF Changes, AskedChange, FoundChange, ChangeDone, NoRequest
<1>3. CASE /\ StillFits(change) /\ hashes' = hashes + 1
           /\ rows' = [rows EXCEPT ![change.token.sub] = Replaced(@, change.new)]
           /\ Answer(t, "changed")
  <2> DEFINE a == change.token.sub
  <2>1. a \in Accounts /\ change.new \in Passwords
    BY <1>2 DEF FoundChange, Token
  <2>2. rows[a] \in Row
    BY <2>1, <1>t
  <2>3. /\ Replaced(rows[a], change.new) \in Row
        /\ Replaced(rows[a], change.new).version = rows[a].version + 1
        /\ Replaced(rows[a], change.new).status = rows[a].status
    BY <2>1, <2>2, <1>t, ReplacedRow
  <2>4. rows' = [rows EXCEPT ![a] = Replaced(rows[a], change.new)]
    BY <1>3
  <2>5. rows' \in [Accounts -> Row] /\ hashes' \in Nat
    <3>1. hashes' \in Nat
      BY <1>3, <1>t
    <3> DEFINE row == Replaced(rows[a], change.new)
    <3>2. row \in Row /\ rows' = [rows EXCEPT ![a] = row] /\ rows \in [Accounts -> Row]
      BY <2>3, <2>4, <1>t
    <3> HIDE DEF row, a, change
    <3>3. rows' \in [Accounts -> Row]
      BY <3>2
    <3> QED  BY <3>1, <3>3
  <2>6. \A b \in Accounts : rows'[b] = IF b = a THEN Replaced(rows[a], change.new) ELSE rows[b]
    BY <2>1, <2>4, <1>t
  <2>7. PICK tab \in Tab : BackedTab(tab) /\ tabs' = [tabs EXCEPT ![t] = tab]
    BY <1>1, <1>3 DEF ChangeDone
  <2>8. /\ [tabs EXCEPT ![t] = tab] \in [Tabs -> Tab]
        /\ \A u \in Tabs : BackedTab([tabs EXCEPT ![t] = tab][u])
    <3>1. \A u \in Tabs : [tabs EXCEPT ![t] = tab][u] = IF u = t THEN tab ELSE tabs[u]
      BY <1>t
    <3>2. ASSUME NEW u \in Tabs PROVE BackedTab([tabs EXCEPT ![t] = tab][u])
      <4>1. CASE u = t
        BY <3>1, <4>1, <2>7
      <4>2. CASE u # t
        BY <3>1, <4>2, <1>t
      <4> QED  BY <4>1, <4>2
    <3> QED  BY <3>2, <1>t
  <2>9. \A b \in Accounts : rows[b].status # "none" =>
           /\ rows'[b].status # "none"
           /\ \/ rows'[b].version = rows[b].version /\ rows'[b].hash = rows[b].hash
              \/ rows'[b].version = rows[b].version + 1
    BY <2>3, <2>6
  <2> HIDE DEF a, change
  <2> QED  BY <2>5, <2>7, <2>8, <2>9, RowsWritten
<1>4. CASE Answer(t, "conflict") /\ UNCHANGED <<rows, hashes>>
  <2>1. PICK tab \in Tab : BackedTab(tab) /\ tabs' = [tabs EXCEPT ![t] = tab]
    BY <1>1, <1>4 DEF ChangeDone
  <2> QED  BY <2>1, <1>4, TabWritten
<1> QED  BY <1>3, <1>4 DEF UpdateHash

(* The administrator's writes go forward: an account is created once, and   *)
(* neither its hash nor its version is written again.                       *)
LEMMA AdminKeeps ==
    ASSUME AccountsInv, NEW a \in Accounts, AdminStep(a)
    PROVE  AccountsInv'
<1>t. /\ tabs \in [Tabs -> Tab] /\ \A u \in Tabs : BackedTab(tabs[u])
      /\ rows \in [Accounts -> Row] /\ hashes \in Nat
  BY DEF AccountsInv, Typed
<1>1. ASSUME NEW row \in Row, rows' = [rows EXCEPT ![a] = row], hashes' \in Nat, tabs' = tabs,
             rows[a].status # "none" =>
                /\ row.status # "none" /\ row.version = rows[a].version /\ row.hash = rows[a].hash
      PROVE  AccountsInv'
  <2>1. rows' \in [Accounts -> Row]
    BY <1>1, <1>t
  <2>2. \A b \in Accounts : rows[b].status # "none" =>
           /\ rows'[b].status # "none"
           /\ rows'[b].version = rows[b].version /\ rows'[b].hash = rows[b].hash
    BY <1>1, <1>t
  <2> QED  BY <1>1, <1>t, <2>1, <2>2, RowsWritten
<1>2. ASSUME NEW p \in Passwords, CreateAgent(a, p) PROVE AccountsInv'
  <2> DEFINE row == [status |-> "ACTIVE", version |-> 0, hash |-> [password |-> p, salt |-> hashes + 1]]
  <2>1. row \in Row
    BY <1>t DEF Row, Hash
  <2>2. rows' = [rows EXCEPT ![a] = row] /\ hashes' \in Nat /\ tabs' = tabs /\ rows[a].status = "none"
    BY <1>2, <1>t DEF CreateAgent
  <2> HIDE DEF row
  <2> QED  BY <1>1, <2>1, <2>2
<1>3. ASSUME NEW status \in {"ACTIVE", "INACTIVE", "deleted"},
             rows' = [rows EXCEPT ![a].status = status], UNCHANGED <<hashes, tabs>>
      PROVE  AccountsInv'
  <2> DEFINE row == [rows[a] EXCEPT !.status = status]
  <2>1. row \in Row /\ row.status # "none" /\ row.version = rows[a].version /\ row.hash = rows[a].hash
    BY <1>t DEF Row
  <2>2. rows' = [rows EXCEPT ![a] = row] /\ hashes' \in Nat /\ tabs' = tabs
    BY <1>3, <1>t
  <2> HIDE DEF row
  <2> QED  BY <1>1, <2>1, <2>2
<1>4. CASE DeleteAgent(a)
  BY <1>3, <1>4 DEF DeleteAgent
<1>5. CASE UpdateAgentStatus(a)
  BY <1>3, <1>5 DEF UpdateAgentStatus
<1> QED  BY <1>2, <1>4, <1>5 DEF AdminStep

(* The accounts there are at the start have no tokens yet.                  *)
LEMMA AccountsStart == Init => AccountsInv
<1> SUFFICES ASSUME Init PROVE AccountsInv  OBVIOUS
<1>1. InitialHash \in Hash
  BY AccountsAssumption DEF InitialHash, InitialPassword, Hash
<1>2. rows \in [Accounts -> Row] /\ hashes \in Nat
  BY <1>1 DEF Init, Row
<1>3. SignedOut \in Tab
  BY DEF SignedOut, Tab, TokenOrNone, Logins, Polls, Changes
<1>4. BackedTab(SignedOut)
  BY DEF SignedOut, BackedTab, BackedToken, NoRequest, Changing
<1> QED  BY <1>2, <1>3, <1>4 DEF Init, AccountsInv, Typed

(* That every token, and every row a login has read, is backed is an        *)
(* inductive invariant of accounts and tabs.                                *)
THEOREM AccountsCorrect == Spec => []AccountsInv
<1>1. ASSUME AccountsInv, [Next]_vars PROVE AccountsInv'
  <2>1. ASSUME NEW t \in Tabs, TabStep(t) PROVE AccountsInv'
    BY <1>1, <2>1, LoginKeeps, PollKeeps, AskingKeeps, UpdateKeeps, LoadingKeeps DEF TabStep
  <2>2. ASSUME NEW a \in Accounts, AdminStep(a) PROVE AccountsInv'
    BY <1>1, <2>2, AdminKeeps
  <2>3. CASE UNCHANGED vars
    BY <1>1, <2>3 DEF vars, AccountsInv, Typed, BackedTab, BackedToken, Backed
  <2> QED  BY <1>1, <2>1, <2>2, <2>3 DEF Next
<1> QED  BY AccountsStart, <1>1, PTL DEF Spec

(* A token that its account's version lets pass was given for the password  *)
(* the account has now, whatever logins, changes, reloads and deletions     *)
(* overlap at any number of tabs.                                           *)
THEOREM TokensProvePasswords == Spec => []TokenProvesCurrentPassword
<1>1. AccountsInv => TokenProvesCurrentPassword
  <2> SUFFICES ASSUME AccountsInv, NEW t \in Tabs, NEW token \in TokensOf(tabs[t])
               PROVE  rows[token.sub].version = token.version =>
                         token.proved = rows[token.sub].hash
    BY DEF TokenProvesCurrentPassword
  <2>1. BackedTab(tabs[t])
    BY DEF AccountsInv
  <2>2. BackedToken(token) /\ token # NoToken
    BY <2>1 DEF TokensOf, BackedTab
  <2> QED  BY <2>2 DEF BackedToken, Backed
<1> QED  BY <1>1, AccountsCorrect, PTL

(* A hash that is replaced is the one that the change has compared its      *)
(* current password with: every other statement that writes a row of an     *)
(* account that exists leaves the hash alone.                               *)
THEOREM ChangesProveReplaced == Spec => ChangeProvesReplaced
<1>1. ASSUME AccountsInv, [Next]_vars, NEW a \in Accounts, Exists(a), rows'[a].hash # rows[a].hash
      PROVE  \E t \in Tabs : /\ tabs[t].change.stage = "found"
                             /\ tabs[t].change.token.sub = a
                             /\ tabs[t].change.copy = rows[a].hash
  <2>t. rows \in [Accounts -> Row]
    BY <1>1 DEF AccountsInv, Typed
  <2>1. rows' # rows
    BY <1>1
  <2>2. ASSUME NEW t \in Tabs, TabStep(t)
        PROVE  /\ tabs[t].change.stage = "found" /\ tabs[t].change.token.sub = a
               /\ tabs[t].change.copy = rows[a].hash
    <3>1. UpdateHash(t)
      BY <2>1, <2>2
      DEF TabStep, Login, LoginAnswered, CredentialsKept, LoginFails, Poll, ServePoll,
          PollAnswered, PollFails, AskChange, VerifyChange, FindHash, ChangeAnswered,
          Reload, Logout
    <3> DEFINE change == tabs[t].change
    <3>2. /\ change.stage = "found" /\ rows[change.token.sub].hash = change.copy
          /\ rows' = [rows EXCEPT ![change.token.sub] = Replaced(rows[change.token.sub], change.new)]
      BY <2>1, <3>1 DEF UpdateHash, StillFits
    <3> HIDE DEF change
    <3>3. change.token.sub = a
      BY <1>1, <2>t, <3>2
    <3>4. change = tabs[t].change
      BY DEF change
    <3> QED  BY <3>2, <3>3, <3>4
  <2>3. ASSUME NEW b \in Accounts, AdminStep(b) PROVE FALSE
    <3>1. rows[b] \in Row /\ (b = a => rows[b].status # "none")
      BY <2>t, <1>1 DEF Exists
    <3>2. CASE \E p \in Passwords : CreateAgent(b, p)
      BY <3>1, <3>2, <1>1, <2>t DEF CreateAgent
    <3>3. CASE \E status \in {"ACTIVE", "INACTIVE", "deleted"} : rows' = [rows EXCEPT ![b].status = status]
      <4>1. PICK status \in {"ACTIVE", "INACTIVE", "deleted"} : rows' = [rows EXCEPT ![b].status = status]
        BY <3>3
      <4> DEFINE row == [rows[b] EXCEPT !.status = status]
      <4>2. row.hash = rows[b].hash
        BY <3>1 DEF Row
      <4>3. rows' = [rows EXCEPT ![b] = row]
        BY <4>1
      <4> HIDE DEF row
      <4> QED  BY <4>2, <4>3, <1>1, <2>t
    <3> QED  BY <2>3, <3>2, <3>3 DEF AdminStep, DeleteAgent, UpdateAgentStatus
  <2> QED  BY <1>1, <2>1, <2>2, <2>3 DEF Next, vars
<1>2. AccountsInv /\ [Next]_vars =>
        [\A a \in Accounts :
           Exists(a) /\ rows'[a].hash # rows[a].hash =>
             \E t \in Tabs : /\ tabs[t].change.stage = "found"
                             /\ tabs[t].change.token.sub = a
                             /\ tabs[t].change.copy = rows[a].hash]_vars
  BY <1>1
<1> QED  BY <1>2, AccountsCorrect, PTL DEF Spec, ChangeProvesReplaced

-----------------------------------------------------------------------------
\* A tab in which a login is under way is signed out, and one that is signed out
\* stores nothing until that login's answer is there.
Quiet(tab) ==
    /\ tab.login.stage # "idle" => tab.auth = NoToken
    /\ tab.auth = NoToken /\ tab.login.stage # "saving" => \A r \in Roles : tab.stored[r] = NoToken

(* A token is never the mark of none.                                       *)
LEMMA TokensAreSome == \A token \in Token : token # NoToken
<1> SUFFICES ASSUME NEW token \in Token PROVE token # NoToken  OBVIOUS
<1>1. DOMAIN token = {"sub", "role", "version", "proved"}
  BY DEF Token
<1>2. DOMAIN NoToken = {"sub"}
  BY DEF NoToken
<1> QED  BY <1>1, <1>2

(* A tab that is invalidated, reloaded or at its start is quiet: a reload   *)
(* shows what is stored of either role (invalidateAuth, readStoredAuth).    *)
LEMMA LoadedQuiet ==
    ASSUME NEW tab \in Tab
    PROVE  /\ Quiet(SignedOut) /\ Quiet(Reloaded(tab))
           /\ Quiet(tab) => Quiet(InvalidateAuth(tab))
<1>1. Quiet(SignedOut)
  BY DEF Quiet, SignedOut, NoRequest
<1>2. Quiet(Reloaded(tab))
  <2>1. /\ Reloaded(tab).stored = tab.stored /\ Reloaded(tab).login = NoRequest
        /\ Reloaded(tab).auth = IF tab.stored["ADMIN"] # NoToken THEN tab.stored["ADMIN"]
                                                                 ELSE tab.stored["AGENT"]
    BY DEF Reloaded, SignedOut
  <2> QED  BY <2>1 DEF Quiet, NoRequest, Roles
<1>3. Quiet(tab) => Quiet(InvalidateAuth(tab))
  <2>1. /\ InvalidateAuth(tab).auth = NoToken
        /\ \A r \in Roles : InvalidateAuth(tab).stored[r] = NoToken
        /\ InvalidateAuth(tab).login = tab.login
    BY DEF InvalidateAuth, Tab
  <2> QED  BY <2>1 DEF Quiet
<1> QED  BY <1>1, <1>2, <1>3

(* A login leaves its tab quiet at each of its steps: the tokens are stored *)
(* before the page moves on, and meanwhile the login is saving.             *)
LEMMA LoginQuiet ==
    ASSUME AccountsInv, NEW t \in Tabs, Quiet(tabs[t]),
           \/ \E a \in Accounts, p \in Passwords : Login(t, a, p)
           \/ LoginAnswered(t) \/ CredentialsKept(t) \/ LoginFails(t)
    PROVE  Quiet(tabs'[t])
<1>t. tabs \in [Tabs -> Tab] /\ tabs[t] \in Tab /\ rows \in [Accounts -> Row]
  BY DEF AccountsInv, Typed
<1>1. ASSUME NEW a \in Accounts, NEW p \in Passwords, Login(t, a, p) PROVE Quiet(tabs'[t])
  <2>1. /\ tabs'[t].auth = NoToken /\ tabs'[t].stored = tabs[t].stored
        /\ tabs'[t].login.stage = "found" /\ tabs[t].auth = NoToken /\ tabs[t].login.stage = "idle"
    BY <1>1, <1>t DEF Login, Tab
  <2> QED  BY <2>1 DEF Quiet
<1>2. CASE LoginAnswered(t)
  <2> DEFINE token == TokenFor(tabs[t].login)
             saved == [r \in Roles |-> IF r = token.role THEN token ELSE NoToken]
             now1 == [tabs[t] EXCEPT !.stored = saved, !.login = NoRequest, !.auth = token]
             later == [tabs[t] EXCEPT !.stored = saved,
                                      !.login = [stage |-> "saving", token |-> token]]
  <2>0. tabs[t].login.stage = "found" /\ tabs[t].auth = NoToken
    BY <1>2 DEF LoginAnswered, Quiet
  <2>1. tabs[t].login \in FoundLogin
    BY <2>0, <1>t DEF Tab, Logins, FoundLogin, SavingLogin, NoRequest
  <2>2. token \in Token
    BY <2>1, AccountsAssumption DEF TokenFor, Token, FoundLogin, Row
  <2>3. now1.auth = token /\ now1.login = NoRequest
        /\ later.auth = tabs[t].auth /\ later.login = [stage |-> "saving", token |-> token]
    BY <1>t DEF Tab
  <2>4. tabs' = [tabs EXCEPT ![t] = now1] \/ tabs' = [tabs EXCEPT ![t] = later]
    BY <1>2 DEF LoginAnswered
  <2>5. tabs'[t] = now1 \/ tabs'[t] = later
    <3> HIDE DEF now1, later
    <3> QED  BY <2>4, <1>t
  <2>6. token # NoToken
    BY <2>2, TokensAreSome
  <2> HIDE DEF token, saved, now1, later
  <2> QED  BY <2>0, <2>3, <2>5, <2>6 DEF Quiet, NoRequest
<1>3. CASE CredentialsKept(t)
  <2>1. tabs[t].login \in SavingLogin
    BY <1>3, <1>t DEF CredentialsKept, Tab, Logins, FoundLogin, SavingLogin, NoRequest
  <2>2. tabs[t].login.token # NoToken
    BY <2>1, TokensAreSome DEF SavingLogin
  <2>3. tabs'[t].auth = tabs[t].login.token /\ tabs'[t].login = NoRequest
    BY <1>3, <1>t DEF CredentialsKept, Tab
  <2> QED  BY <2>2, <2>3 DEF Quiet, NoRequest
<1>4. CASE LoginFails(t)
  <2>1. /\ tabs'[t].auth = tabs[t].auth /\ tabs'[t].stored = tabs[t].stored
        /\ tabs'[t].login = NoRequest /\ tabs[t].login.stage = "found"
    BY <1>4, <1>t DEF LoginFails, Tab
  <2> QED  BY <2>1 DEF Quiet, NoRequest
<1> QED  BY <1>1, <1>2, <1>3, <1>4

(* So do the polls and the changes of a password: they write their own      *)
(* request only, or sign the tab out.                                       *)
LEMMA RequestsQuiet ==
    ASSUME AccountsInv, NEW t \in Tabs, Quiet(tabs[t]),
           \/ Poll(t) \/ ServePoll(t) \/ PollAnswered(t) \/ PollFails(t)
           \/ \E current, new \in Passwords : AskChange(t, current, new)
           \/ VerifyChange(t) \/ FindHash(t) \/ UpdateHash(t) \/ ChangeAnswered(t)
    PROVE  Quiet(tabs'[t])
<1>t. tabs \in [Tabs -> Tab] /\ tabs[t] \in Tab
  BY DEF AccountsInv, Typed
<1>1. ASSUME NEW poll, tabs' = [tabs EXCEPT ![t].poll = poll] PROVE Quiet(tabs'[t])
  <2>1. /\ tabs'[t].auth = tabs[t].auth /\ tabs'[t].stored = tabs[t].stored
        /\ tabs'[t].login = tabs[t].login
    BY <1>1, <1>t DEF Tab
  <2> QED  BY <2>1 DEF Quiet
<1>2. ASSUME NEW change, tabs' = [tabs EXCEPT ![t].change = change] PROVE Quiet(tabs'[t])
  <2>1. /\ tabs'[t].auth = tabs[t].auth /\ tabs'[t].stored = tabs[t].stored
        /\ tabs'[t].login = tabs[t].login
    BY <1>2, <1>t DEF Tab
  <2> QED  BY <2>1 DEF Quiet
<1>3. CASE Poll(t)
  BY <1>1, <1>3 DEF Poll
<1>4. CASE ServePoll(t)
  <2>1. tabs' = [tabs EXCEPT ![t].poll =
          IF VerifyActiveStaff(tabs[t].poll.token)
            THEN NoRequest ELSE [tabs[t].poll EXCEPT !.stage = "unauthorised"]]
    BY <1>4 DEF ServePoll
  <2> QED  BY <2>1, <1>1
<1>5. CASE PollFails(t)
  BY <1>1, <1>5 DEF PollFails
<1>6. CASE PollAnswered(t)
  <2> DEFINE tab == InvalidateAuth(tabs[t])
  <2>1. tab \in Tab /\ Quiet(tab)
    <3>1. BackedTab(tabs[t])
      BY DEF AccountsInv
    <3> QED  BY <3>1, <1>t, FewerTokens, LoadedQuiet
  <2>2. tabs' = [tabs EXCEPT ![t] = [tab EXCEPT !.poll = NoRequest]]
    BY <1>6 DEF PollAnswered
  <2> HIDE DEF tab
  <2>3. /\ tabs'[t].auth = tab.auth /\ tabs'[t].stored = tab.stored
        /\ tabs'[t].login = tab.login
    BY <2>1, <2>2, <1>t DEF Tab
  <2> QED  BY <2>1, <2>3 DEF Quiet
<1>7. ASSUME NEW stage, Answer(t, stage) PROVE Quiet(tabs'[t])
  <2>1. tabs' = [tabs EXCEPT ![t].change =
          IF tabs[t].change.heard THEN [stage |-> stage] ELSE NoRequest]
    BY <1>7 DEF Answer
  <2> QED  BY <2>1, <1>2
<1>8. ASSUME NEW current \in Passwords, NEW new \in Passwords, AskChange(t, current, new)
      PROVE  Quiet(tabs'[t])
  BY <1>2, <1>8 DEF AskChange
<1>9. CASE VerifyChange(t)
  <2>1. CASE tabs' = [tabs EXCEPT ![t].change.stage = "verified"]
    <3>1. tabs' = [tabs EXCEPT ![t].change = [tabs[t].change EXCEPT !.stage = "verified"]]
      BY <2>1
    <3> QED  BY <3>1, <1>2
  <2> QED  BY <2>1, <1>7, <1>9 DEF VerifyChange
<1>10. CASE FindHash(t)
  <2> DEFINE old == tabs[t].change
             change == [stage |-> "found", token |-> old.token, copy |-> rows[old.token.sub].hash,
                        new |-> old.new, heard |-> old.heard]
  <2>1. tabs' = [tabs EXCEPT ![t].change = change] \/ Answer(t, "wrong")
    BY <1>10 DEF FindHash
  <2> HIDE DEF change
  <2> QED  BY <2>1, <1>2, <1>7
<1>11. CASE UpdateHash(t)
  BY <1>7, <1>11 DEF UpdateHash
<1>12. CASE ChangeAnswered(t)
  <2>1. ASSUME NEW next \in Tab, Quiet(next),
               tabs' = [tabs EXCEPT ![t] = [next EXCEPT !.change = NoRequest]]
        PROVE  Quiet(tabs'[t])
    <3>1. /\ tabs'[t].auth = next.auth /\ tabs'[t].stored = next.stored
          /\ tabs'[t].login = next.login
      BY <2>1, <1>t DEF Tab
    <3> QED  BY <2>1, <3>1 DEF Quiet
  <2>2. SignedOut \in Tab /\ Quiet(SignedOut)
    BY <1>t, LoadedQuiet DEF SignedOut, Tab, TokenOrNone, Logins, Polls, Changes
  <2>3. InvalidateAuth(tabs[t]) \in Tab /\ Quiet(InvalidateAuth(tabs[t]))
    <3>1. BackedTab(tabs[t])
      BY DEF AccountsInv
    <3> QED  BY <3>1, <1>t, FewerTokens, LoadedQuiet
  <2>4. \/ tabs' = [tabs EXCEPT ![t] = [SignedOut EXCEPT !.change = NoRequest]]
        \/ tabs' = [tabs EXCEPT ![t] = [InvalidateAuth(tabs[t]) EXCEPT !.change = NoRequest]]
        \/ tabs' = [tabs EXCEPT ![t] = [tabs[t] EXCEPT !.change = NoRequest]]
    BY <1>12 DEF ChangeAnswered, ChangeDone
  <2> QED  BY <2>1, <2>2, <2>3, <2>4, <1>t
<1> QED  BY <1>3, <1>4, <1>5, <1>6, <1>8, <1>9, <1>10, <1>11, <1>12

(* A step of one tab writes no other tab.                                   *)
LEMMA OtherTabsStay ==
    ASSUME AccountsInv, NEW t \in Tabs, TabStep(t), NEW u \in Tabs, u # t
    PROVE  tabs'[u] = tabs[u]
<1>1. tabs \in [Tabs -> Tab]
  BY DEF AccountsInv, Typed
<1>2. \E tab : tabs' = [tabs EXCEPT ![t] = tab]
  BY Zenon DEF TabStep, Login, LoginAnswered, CredentialsKept, LoginFails, Poll, ServePoll,
     PollAnswered, PollFails, AskChange, VerifyChange, FindHash, UpdateHash, Answer,
     ChangeAnswered, Reload, Logout
<1> QED  BY <1>1, <1>2

QuietInv == \A t \in Tabs : Quiet(tabs[t])

(* A tab that shows the login form keeps no token, at any number of tabs:   *)
(* whichever role was signed in, and whatever answer signed it out, loading *)
(* the page again does not bring the user back.                             *)
THEOREM SignedOutHoldNothing == Spec => []SignedOutTabsHoldNothing
<1>1. Init => QuietInv
  BY DEF Init, QuietInv, Quiet, SignedOut, NoRequest
<1>2. ASSUME AccountsInv, QuietInv, [Next]_vars PROVE QuietInv'
  <2>1. ASSUME NEW t \in Tabs, TabStep(t) PROVE QuietInv'
    <3>1. Quiet(tabs'[t])
      <4>1. CASE Reload(t) \/ Logout(t)
        <5>1. \E tab \in Tab : tabs' = [tabs EXCEPT ![t] = Reloaded(tab)]
          <6>1. tabs[t] \in Tab /\ [tabs[t] EXCEPT !.stored[tabs[t].auth.role] = NoToken] \in Tab
            BY <1>2 DEF AccountsInv, Typed, Tab, TokenOrNone
          <6> QED  BY <4>1, <6>1 DEF Reload, Logout
        <5>2. PICK tab \in Tab : tabs' = [tabs EXCEPT ![t] = Reloaded(tab)]
          BY <5>1
        <5>3. tabs'[t] = Reloaded(tab)
          BY <1>2, <5>2 DEF AccountsInv, Typed
        <5> QED  BY <5>3, LoadedQuiet
      <4>2. Quiet(tabs[t])
        BY <1>2 DEF QuietInv
      <4> QED  BY <1>2, <2>1, <4>1, <4>2, LoginQuiet, RequestsQuiet DEF TabStep
    <3>2. ASSUME NEW u \in Tabs, u # t PROVE Quiet(tabs'[u])
      <4>1. tabs'[u] = tabs[u]
        BY <1>2, <2>1, <3>2, OtherTabsStay
      <4> QED  BY <1>2, <4>1 DEF QuietInv
    <3> QED  BY <3>1, <3>2 DEF QuietInv, Quiet
  <2>2. ASSUME NEW a \in Accounts, AdminStep(a) PROVE QuietInv'
    BY <1>2, <2>2 DEF AdminStep, CreateAgent, DeleteAgent, UpdateAgentStatus, QuietInv, Quiet
  <2>3. CASE UNCHANGED vars
    BY <1>2, <2>3 DEF vars, QuietInv, Quiet
  <2> QED  BY <1>2, <2>1, <2>2, <2>3 DEF Next
<1>3. QuietInv => SignedOutTabsHoldNothing
  BY DEF QuietInv, Quiet, SignedOutTabsHoldNothing
<1> QED  BY <1>1, <1>2, <1>3, AccountsCorrect, PTL DEF Spec

HashesInv == hashes \in 0 .. MaxHashes

(* The types of the accounts and of every tab: a hash is only made under    *)
(* the bound, and the tokens that a tab has anywhere are tokens.            *)
THEOREM AccountTypes == Spec => []TypeOK
<1>1. Init => HashesInv
  BY AccountsAssumption DEF Init, HashesInv
<1>2. ASSUME HashesInv, [Next]_vars PROVE HashesInv'
  <2>1. hashes' = hashes \/ (hashes < MaxHashes /\ hashes' = hashes + 1)
    BY <1>2 DEF Next, TabStep, AdminStep, Login, LoginAnswered, CredentialsKept, LoginFails,
       Poll, ServePoll, PollAnswered, PollFails, AskChange, VerifyChange, FindHash, UpdateHash,
       ChangeAnswered, Reload, Logout, CreateAgent, DeleteAgent, UpdateAgentStatus, vars
  <2> QED  BY <1>2, <2>1, AccountsAssumption DEF HashesInv
<1>3. AccountsInv /\ HashesInv => TypeOK
  <2> SUFFICES ASSUME AccountsInv, HashesInv PROVE TypeOK  OBVIOUS
  <2>1. rows \in [Accounts -> Row] /\ hashes \in 0 .. MaxHashes /\ DOMAIN tabs = Tabs
    BY DEF AccountsInv, Typed, HashesInv
  <2>2. ASSUME NEW t \in Tabs
        PROVE  /\ TokensOf(tabs[t]) \subseteq Token
               /\ tabs[t].login.stage \in {"idle", "found", "saving"}
               /\ tabs[t].poll.stage \in {"idle", "asked", "unauthorised"}
               /\ tabs[t].change.stage \in {"idle"} \cup Changing \cup ChangeDone
    <3>1. /\ tabs[t].auth \in TokenOrNone /\ \A r \in Roles : tabs[t].stored[r] \in TokenOrNone
          /\ tabs[t].login \in Logins /\ tabs[t].poll \in Polls /\ tabs[t].change \in Changes
      BY DEF AccountsInv, Typed, Tab
    <3>2. /\ tabs[t].login.stage \in {"idle", "found", "saving"}
          /\ tabs[t].login.stage = "saving" => tabs[t].login.token \in Token
      BY <3>1 DEF Logins, FoundLogin, SavingLogin, NoRequest
    <3>3. /\ tabs[t].poll.stage \in {"idle", "asked", "unauthorised"}
          /\ tabs[t].poll.stage # "idle" => tabs[t].poll.token \in Token
      BY <3>1 DEF Polls, PollRequest, NoRequest
    <3>4. /\ tabs[t].change.stage \in {"idle"} \cup Changing \cup ChangeDone
          /\ tabs[t].change.stage \in Changing => tabs[t].change.token \in Token
      BY <3>1 DEF Changes, AskedChange, FoundChange, ChangeDone, Changing, NoRequest
    <3>5. TokensOf(tabs[t]) \subseteq Token
      BY <3>1, <3>2, <3>3, <3>4 DEF TokensOf, TokenOrNone
    <3> QED  BY <3>2, <3>3, <3>4, <3>5
  <2> QED  BY <2>1, <2>2 DEF TypeOK
<1> QED  BY <1>1, <1>2, <1>3, AccountsCorrect, PTL DEF Spec
=============================================================================
