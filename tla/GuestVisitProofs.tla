-------------------------- MODULE GuestVisitProofs --------------------------
(***************************************************************************)
(* Proofs about the limiter and the guest's visits that use it, for every  *)
(* set of keys, every limit, every length of the window and every bound of *)
(* the clock: no window grants more than its limit, and no window opens    *)
(* before the last one is over; the visits reach the limiter by its        *)
(* operations only, so that its limits hold for them, whatever tabs,       *)
(* requests and sockets there are.  The token of a consultation that goes  *)
(* on is only ever put out by a page of the device about an earlier one;   *)
(* so a device of one tab keeps it until that is over.                     *)
(***************************************************************************)
EXTENDS GuestVisit, TLAPS

-----------------------------------------------------------------------------
(* The limiter by itself.                                                  *)

\* The bucket that allow() will find still in its window.
Live(k) == buckets[k].count > 0 /\ now < buckets[k].resetAt

\* What a bucket in its window remembers of the window, and that without such a
\* bucket, removed, expired or never there, the last window is over.
Remembers(k) ==
    /\ granted[k] <= Limit
    /\ Live(k) => /\ granted[k] = IF buckets[k].count <= Limit THEN buckets[k].count ELSE Limit
                  /\ buckets[k].resetAt = openedAt[k] + Window
    /\ ~Live(k) => now >= openedAt[k] + Window

LimiterInv == LimiterTypeOK /\ \A k \in Keys : Remembers(k)

(* The clean-up is invisible to a key: it removes no bucket that is still   *)
(* in its window, and what it leaves is in its window or counts for nothing *)
(* (cleanup, and the first conditions of allow).                            *)
LEMMA CleanupKeepsWindows ==
    ASSUME LimiterTypeOK, NEW k \in Keys
    PROVE  /\ Cleanup(k) \in Bucket
           /\ InWindow(k) <=> Live(k)
           /\ Live(k) => Cleanup(k) = buckets[k]
           /\ Cleanup(k).count > 0 => Cleanup(k) = buckets[k]
<1>1. buckets[k] \in Bucket /\ now \in Nat /\ NoBucket \in Bucket
  BY LimiterAssumption DEF LimiterTypeOK, Bucket, NoBucket
<1>2. CASE Cleanup(k) = buckets[k] /\ ~(nextCleanupAt <= now /\ buckets[k].resetAt <= now)
  BY <1>1, <1>2 DEF InWindow, Live
<1>3. CASE Cleanup(k) = NoBucket /\ nextCleanupAt <= now /\ buckets[k].resetAt <= now
  <2>1. ~Live(k)
    BY <1>1, <1>3 DEF Live, Bucket
  <2>2. ~InWindow(k) /\ ~(Cleanup(k).count > 0)
    BY <1>3 DEF InWindow, NoBucket
  <2> QED  BY <1>1, <1>3, <2>1, <2>2
<1> QED  BY <1>2, <1>3 DEF Cleanup

(* One request keeps what every bucket remembers, the bucket of its own key *)
(* and those the clean-up passes over (allow).                              *)
LEMMA AllowKeeps ==
    ASSUME LimiterInv, NEW k \in Keys, Allow(k), now' = now
    PROVE  LimiterInv'
<1> DEFINE counted == IF Cleanup(k).count <= Limit THEN Cleanup(k).count + 1 ELSE Cleanup(k).count
           bucket == IF InWindow(k) THEN [Cleanup(k) EXCEPT !.count = counted]
                                    ELSE [count |-> 1, resetAt |-> now + Window]
<1>t. LimiterTypeOK  BY DEF LimiterInv
<1>1. \A j \in Keys : /\ Cleanup(j) \in Bucket
                      /\ InWindow(j) <=> Live(j)
                      /\ Live(j) => Cleanup(j) = buckets[j]
                      /\ Cleanup(j).count > 0 => Cleanup(j) = buckets[j]
  BY <1>t, CleanupKeepsWindows
<1>2. buckets' = [[j \in Keys |-> Cleanup(j)] EXCEPT ![k] = bucket]
  BY DEF Allow
<1>3. bucket \in Bucket
  <2>1. Cleanup(k).count \in 0 .. Limit + 1 /\ Cleanup(k).resetAt \in 0 .. MaxNow + Window
    BY <1>1 DEF Bucket
  <2>2. counted \in 0 .. Limit + 1
    BY <2>1, LimiterAssumption
  <2>3. CASE InWindow(k)
    BY <2>2, <2>3, <1>1 DEF Bucket
  <2>4. CASE ~InWindow(k)
    <3>1. 1 \in 0 .. Limit + 1 /\ now + Window \in 0 .. MaxNow + Window
      BY <1>t, LimiterAssumption DEF LimiterTypeOK
    <3> QED  BY <3>1, <2>4 DEF Bucket
  <2> QED  BY <2>3, <2>4
<1>4. buckets' \in [Keys -> Bucket]
  BY <1>1, <1>2, <1>3
<1>5. ASSUME NEW j \in Keys PROVE buckets'[j] = IF j = k THEN bucket ELSE Cleanup(j)
  BY <1>2, <1>5
<1>6. /\ granted' \in [Keys -> Nat] /\ openedAt' \in [Keys -> -Window .. MaxNow]
      /\ nextCleanupAt' \in 0 .. MaxNow + Window
  BY <1>t, LimiterAssumption DEF Allow, LimiterTypeOK
<1>7. LimiterTypeOK'
  BY <1>t, <1>4, <1>6 DEF LimiterTypeOK
<1>8. ASSUME NEW j \in Keys PROVE Remembers(j)'
  <2>0. /\ Remembers(j) /\ buckets[j] \in Bucket /\ granted[j] \in Nat
        /\ openedAt[j] \in -Window .. MaxNow /\ now \in 0 .. MaxNow
    BY <1>t DEF LimiterInv, LimiterTypeOK
  <2>1. CASE j # k
    <3>1. buckets'[j] = Cleanup(j) /\ granted'[j] = granted[j] /\ openedAt'[j] = openedAt[j]
      BY <1>t, <1>5, <2>1 DEF Allow, LimiterTypeOK
    <3>2. Live(j)' <=> Live(j)
      BY <3>1, <1>1 DEF Live
    <3> QED  BY <3>1, <3>2, <2>0, <1>1 DEF Remembers
  <2>2. CASE j = k /\ InWindow(k)
    <3>1. Live(k) /\ Cleanup(k) = buckets[k]
      BY <1>1, <2>2
    <3>2. /\ buckets'[k].resetAt = buckets[k].resetAt
          /\ buckets'[k].count = IF buckets[k].count <= Limit THEN buckets[k].count + 1
                                                              ELSE buckets[k].count
      BY <1>5, <2>2, <3>1, <2>0 DEF Bucket
    <3>3. /\ granted'[k] = IF buckets[k].count < Limit THEN granted[k] + 1 ELSE granted[k]
          /\ openedAt'[k] = openedAt[k]
      BY <1>t, <2>2, <3>1 DEF Allow, Allowed, LimiterTypeOK
    <3>4. Live(k)'
      BY <3>1, <3>2, <2>0, <2>2 DEF Live, Bucket
    <3> QED  BY <3>1, <3>2, <3>3, <3>4, <2>0, <2>2, LimiterAssumption DEF Remembers, Bucket
  <2>3. CASE j = k /\ ~InWindow(k)
    <3>1. buckets'[k] = [count |-> 1, resetAt |-> now + Window]
      BY <1>5, <2>3
    <3>2. granted'[k] = 1 /\ openedAt'[k] = now
      BY <1>t, <2>3 DEF Allow, LimiterTypeOK
    <3>3. Live(k)'
      BY <3>1, <2>0, LimiterAssumption DEF Live
    <3> QED  BY <3>1, <3>2, <3>3, <2>0, <2>3, LimiterAssumption DEF Remembers
  <2> QED  BY <2>1, <2>2, <2>3
<1> QED  BY <1>7, <1>8 DEF LimiterInv

(* Forgetting a socket and the passing of time keep it too: a window that   *)
(* the clock leaves is over (forget, and the condition on resetAt).         *)
LEMMA OthersKeep ==
    ASSUME LimiterInv,
           \/ Tick /\ UNCHANGED limiterVars
           \/ \E k \in Keys : Forget(k) /\ UNCHANGED now
           \/ UNCHANGED <<now, limiterVars>>
    PROVE  LimiterInv'
<1>t. LimiterTypeOK /\ \A k \in Keys : Remembers(k)  BY DEF LimiterInv
<1>1. CASE Tick /\ UNCHANGED limiterVars
  <2>1. now' = now + 1 /\ now' \in 0 .. MaxNow /\ now \in Nat
    BY <1>t, <1>1, LimiterAssumption DEF Tick, LimiterTypeOK
  <2>2. LimiterTypeOK'
    BY <1>t, <1>1, <2>1 DEF LimiterTypeOK, limiterVars
  <2>3. ASSUME NEW k \in Keys PROVE Remembers(k)'
    <3>1. Remembers(k) /\ buckets[k] \in Bucket /\ openedAt[k] \in -Window .. MaxNow
      BY <1>t DEF LimiterTypeOK
    <3>2. buckets' = buckets /\ granted' = granted /\ openedAt' = openedAt
      BY <1>1 DEF limiterVars
    <3>3. Live(k)' => Live(k)
      BY <3>1, <3>2, <2>1 DEF Live, Bucket
    <3>4. Live(k) /\ ~Live(k)' => now' >= openedAt[k] + Window
      BY <3>1, <3>2, <2>1, LimiterAssumption DEF Live, Bucket, Remembers
    <3>5. ~Live(k) => now' >= openedAt[k] + Window
      BY <3>1, <2>1, LimiterAssumption DEF Remembers
    <3> QED  BY <3>1, <3>2, <3>3, <3>4, <3>5 DEF Remembers
  <2> QED  BY <2>2, <2>3 DEF LimiterInv
<1>2. ASSUME NEW k \in Keys, Forget(k), UNCHANGED now PROVE LimiterInv'
  <2>1. LimiterTypeOK'
    <3>1. NoBucket \in Bucket /\ 0 \in Nat /\ -Window \in -Window .. MaxNow
      BY LimiterAssumption DEF NoBucket, Bucket
    <3> QED  BY <1>t, <1>2, <3>1 DEF Forget, LimiterTypeOK
  <2>2. ASSUME NEW j \in Keys PROVE Remembers(j)'
    <3>1. CASE j = k
      <4>1. buckets'[k].count = 0 /\ granted'[k] = 0 /\ openedAt'[k] = -Window
        BY <1>t, <1>2 DEF Forget, LimiterTypeOK, NoBucket
      <4>2. ~Live(k)'
        BY <4>1 DEF Live
      <4>3. now' \in Nat /\ now' >= -Window + Window
        BY <1>t, <1>2, LimiterAssumption DEF LimiterTypeOK
      <4> QED  BY <3>1, <4>1, <4>2, <4>3, LimiterAssumption DEF Remembers
    <3>2. CASE j # k
      <4>1. /\ buckets'[j] = buckets[j] /\ granted'[j] = granted[j]
            /\ openedAt'[j] = openedAt[j] /\ now' = now
        BY <1>t, <1>2, <3>2 DEF Forget, LimiterTypeOK
      <4>2. Live(j)' <=> Live(j)
        BY <4>1 DEF Live
      <4>3. Remembers(j)  BY <1>t
      <4> QED  BY <4>1, <4>2, <4>3 DEF Remembers
    <3> QED  BY <3>1, <3>2
  <2> QED  BY <2>1, <2>2 DEF LimiterInv
<1>3. CASE UNCHANGED <<now, limiterVars>>
  BY <1>t, <1>3 DEF LimiterInv, LimiterTypeOK, Remembers, Live, limiterVars
<1> QED  BY <1>1, <1>2, <1>3

(* The limiter starts with nothing to remember.                             *)
LEMMA LimiterStarts == LimiterInit => LimiterInv
<1> SUFFICES ASSUME LimiterInit PROVE LimiterInv  OBVIOUS
<1>1. LimiterTypeOK
  <2>1. NoBucket \in Bucket /\ 0 \in Nat /\ 0 \in 0 .. MaxNow
        /\ 0 \in 0 .. MaxNow + Window /\ -Window \in -Window .. MaxNow
    BY LimiterAssumption DEF NoBucket, Bucket
  <2> QED  BY <2>1 DEF LimiterInit, LimiterTypeOK
<1>2. ASSUME NEW k \in Keys PROVE Remembers(k)
  BY LimiterAssumption DEF LimiterInit, Remembers, Live, NoBucket
<1> QED  BY <1>1, <1>2 DEF LimiterInv

(* What the buckets remember of their windows is an inductive invariant.    *)
THEOREM LimiterCorrect == LimiterSpec => []LimiterInv
<1>1. LimiterInv /\ [LimiterNext]_<<now, limiterVars>> => LimiterInv'
  BY AllowKeeps, OthersKeep DEF LimiterNext
<1> QED  BY LimiterStarts, <1>1, PTL DEF LimiterSpec

(* No key is granted more than Limit requests in one window, whatever is    *)
(* cleaned up, forgotten or refused in between.                             *)
THEOREM LimitAlwaysHolds == LimiterSpec => []LimitHolds
<1>1. LimiterInv => LimitHolds
  BY DEF LimiterInv, Remembers, LimitHolds
<1> QED  BY <1>1, LimiterCorrect, PTL

(* A key is given a new window only when its last one is over.              *)
THEOREM WindowsApart == LimiterSpec => WindowsDoNotOverlap
<1> DEFINE Apart == \A k \in Keys : openedAt'[k] # openedAt[k] /\ openedAt'[k] # -Window
                                       => openedAt'[k] >= openedAt[k] + Window
<1>1. ASSUME LimiterInv, LimiterNext PROVE Apart
  <2>1. CASE Tick /\ UNCHANGED limiterVars
    BY <2>1 DEF limiterVars
  <2>2. ASSUME NEW j \in Keys, Forget(j) PROVE Apart
    BY <1>1, <2>2 DEF Forget, LimiterInv, LimiterTypeOK
  <2>3. ASSUME NEW j \in Keys, Allow(j) PROVE Apart
    <3>1. CASE InWindow(j)
      BY <2>3, <3>1 DEF Allow
    <3>2. CASE ~InWindow(j)
      <4>1. openedAt' = [openedAt EXCEPT ![j] = now]
        BY <2>3, <3>2 DEF Allow
      <4>2. ~Live(j) /\ Remembers(j)
        BY <1>1, <3>2, CleanupKeepsWindows DEF LimiterInv
      <4>3. now >= openedAt[j] + Window
        BY <4>2 DEF Remembers
      <4> QED  BY <1>1, <4>1, <4>3 DEF LimiterInv, LimiterTypeOK
    <3> QED  BY <3>1, <3>2
  <2> QED  BY <1>1, <2>1, <2>2, <2>3 DEF LimiterNext
<1>2. LimiterInv /\ [LimiterNext]_<<now, limiterVars>> => [Apart]_<<now, limiterVars>>
  BY <1>1
<1>3. LimiterSpec => [][Apart]_<<now, limiterVars>>
  BY <1>2, LimiterCorrect, PTL DEF LimiterSpec
<1> QED  BY <1>3 DEF WindowsDoNotOverlap

-----------------------------------------------------------------------------
(* The visits use the limiter.                                             *)

limiterAndClock == <<now, limiterVars>>

(* A request that passes, and one that is refused, is one call of allow();  *)
(* a socket that is gone is one call of forget() (rateLimit, handleMessage, *)
(* handleDisconnect).                                                       *)
LEMMA CallsAreSteps ==
    ASSUME now' = now, NEW k,
           \/ Passes(k) \/ HandleDisconnect(k) \/ (k \in Keys /\ Allow(k))
    PROVE  [LimiterNext]_limiterAndClock
<1>1. CASE k \in Keys /\ Allow(k)
  BY <1>1 DEF LimiterNext
<1>2. CASE k \in Keys /\ Forget(k)
  BY <1>2 DEF LimiterNext
<1>3. CASE UNCHANGED limiterVars
  BY <1>3 DEF limiterAndClock
<1> QED  BY <1>1, <1>2, <1>3 DEF Passes, HandleDisconnect

(* No step of a tab touches the counters but by a call of the limiter.      *)
LEMMA TabStepUsesLimiter ==
    ASSUME NEW t, TabStep(t)
    PROVE  [LimiterNext]_limiterAndClock
<1>1. CASE Visit(t) \/ Disconnect(t)
  BY <1>1, CallsAreSteps DEF Visit, Disconnect
<1>2. CASE RefuseRequest(t)
  BY <1>2, CallsAreSteps DEF RefuseRequest
<1>3. CASE GetSession(t)
  BY <1>3, CallsAreSteps DEF GetSession
<1>4. CASE VerifyAccess(t)
  BY <1>4, CallsAreSteps DEF VerifyAccess
<1>5. CASE CreateSession(t)
  BY <1>5, CallsAreSteps DEF CreateSession
<1>6. CASE Send(t)
  BY <1>6, CallsAreSteps DEF Send
<1>7. CASE LoseAnswer(t) \/ Restored(t) \/ Start(t) \/ Verified(t) \/ Started(t) \/ NotStarted(t)
  BY <1>7 DEF LoseAnswer, Restored, Start, Verified, Started, NotStarted, limiterAndClock
<1>8. CASE Connect(t) \/ SessionEvent(t) \/ ClockEffect(t)
  BY <1>8 DEF Connect, SessionEvent, ClockEffect, limiterAndClock
<1> QED  BY <1>1, <1>2, <1>3, <1>4, <1>5, <1>6, <1>7, <1>8 DEF TabStep

(* The server's own steps leave the counters alone.                         *)
LEMMA ServerStepKeepsLimiter ==
    ASSUME NEW s, ServerStep(s)
    PROVE  UNCHANGED limiterAndClock
BY DEF ServerStep, StaffOpens, FirstReply, CopyTold, StaffCloses, Expire, Retention,
       RivalStarts, Unchanged, limiterAndClock

(* Guests and their pages implement the limiter's specification: the        *)
(* middleware and the gateway reach its state by its operations only.       *)
THEOREM VisitsUseLimiter == Spec => LimiterSpec
<1>1. Init => LimiterInit
  BY DEF Init
<1>2. [Next]_vars => [LimiterNext]_limiterAndClock
  <2>1. ASSUME Tick, UNCHANGED limiterVars PROVE [LimiterNext]_limiterAndClock
    BY <2>1 DEF LimiterNext
  <2>2. ASSUME RemoveRoom PROVE [LimiterNext]_limiterAndClock
    BY <2>2 DEF RemoveRoom, limiterAndClock
  <2>3. ASSUME UNCHANGED vars PROVE [LimiterNext]_limiterAndClock
    BY <2>3 DEF vars, limiterAndClock
  <2> QED  BY <2>1, <2>2, <2>3, TabStepUsesLimiter, ServerStepKeepsLimiter DEF Next
<1>3. Spec => LimiterInit /\ [][LimiterNext]_limiterAndClock
  BY <1>1, <1>2, PTL DEF Spec
<1> QED  BY <1>3 DEF LimiterSpec, limiterAndClock

(* No source of a guest's requests passes its limit in a window, however    *)
(* tabs are loaded, requests lost and sockets dropped.                      *)
THEOREM GuestLimitHolds == Spec => []LimitHolds
BY VisitsUseLimiter, LimitAlwaysHolds, PTL

(* And none is given a new window before the last one is over.              *)
THEOREM GuestWindowsApart == Spec => WindowsDoNotOverlap
BY VisitsUseLimiter, WindowsApart, PTL

-----------------------------------------------------------------------------
(* Types.                                                                  *)

\* A page asks for a consultation by its id, and an answer with a session names it.
CallsInv ==
    \A t \in Tabs :
        /\ tabs[t].call = "restore" => tabs[t].access \in Sessions
        /\ tabs[t].answer.kind = "session" => tabs[t].answer.id \in Sessions

GuestTypes == TypeOK /\ CallsInv

(* The constant rows and answers have their types.                         *)
LEMMA RowTypes ==
    ASSUME MaxNow \in Nat
    PROVE  /\ NoSession \in View /\ NewView \in View
           /\ \A kind \in {"none", "verified", "gone", "failed"} :
                Plain(kind) \in Answers /\ Plain(kind).kind = kind
           /\ \A s \in Sessions, view \in View :
                SessionAnswer(s, view) \in Answers /\ SessionAnswer(s, view).kind = "session"
                /\ SessionAnswer(s, view).id = s /\ SessionAnswer(s, view).view = view
           /\ ClosedTab \in Tab
<1>1. NoSession \in View /\ NewView \in View
  BY DEF NoSession, NewView, View
<1>2. ASSUME NEW kind \in {"none", "verified", "gone", "failed"}
      PROVE  Plain(kind) \in Answers /\ Plain(kind).kind = kind
  BY <1>1 DEF Plain, Answers
<1>3. ASSUME NEW s \in Sessions, NEW view \in View
      PROVE  /\ SessionAnswer(s, view) \in Answers /\ SessionAnswer(s, view).kind = "session"
             /\ SessionAnswer(s, view).id = s /\ SessionAnswer(s, view).view = view
  BY DEF SessionAnswer, Answers
<1>4. ClosedTab \in Tab
  BY <1>1, <1>2, GuestAssumption DEF ClosedTab, Tab, Screens
<1> QED  BY <1>1, <1>2, <1>3, <1>4

(* A tab that is given a row of its type keeps the types of the tabs.      *)
LEMMA TabRow ==
    ASSUME GuestTypes, NEW t \in Tabs, NEW row \in Tab, tabs' = [tabs EXCEPT ![t] = row],
           row.call = "restore" => row.access \in Sessions,
           row.answer.kind = "session" => row.answer.id \in Sessions
    PROVE  tabs' \in [Tabs -> Tab] /\ CallsInv'
<1>1. tabs \in [Tabs -> Tab]  BY DEF GuestTypes, TypeOK
<1>2. \A u \in Tabs : tabs'[u] = IF u = t THEN row ELSE tabs[u]
  BY <1>1
<1>3. tabs' \in [Tabs -> Tab]
  BY <1>1
<1> QED  BY <1>2, <1>3 DEF GuestTypes, CallsInv

(* An event on the way has the type of what is announced.                  *)
LEMMA AnnouncedTypes ==
    ASSUME TypeOK, NEW s, NEW view \in View
    PROVE  Announced(s, view) \in [Tabs -> Seq(View)]
BY DEF TypeOK, Announced

(* A step of the page alone keeps the types (prepare, startConsultation and *)
(* the effects of the page).                                               *)
LEMMA PageTypes ==
    ASSUME GuestTypes, LimiterTypeOK', NEW t \in Tabs,
           \/ Visit(t) \/ LoseAnswer(t) \/ RefuseRequest(t) \/ Restored(t) \/ Start(t)
           \/ VerifyAccess(t) \/ Verified(t) \/ Started(t) \/ NotStarted(t)
           \/ Connect(t) \/ Disconnect(t) \/ Send(t) \/ SessionEvent(t) \/ ClockEffect(t)
    PROVE  GuestTypes'
<1>t. /\ tabs \in [Tabs -> Tab] /\ tabs[t] \in Tab /\ news \in [Tabs -> Seq(View)]
      /\ server \in [Sessions -> View] /\ roomExists \in BOOLEAN /\ late \in [Sessions -> SUBSET View]
      /\ stored \in Sessions \cup {None} /\ saved \subseteq Sessions
      /\ tabs[t].call = "restore" => tabs[t].access \in Sessions
      /\ tabs[t].answer.kind = "session" => tabs[t].answer.id \in Sessions
  BY DEF GuestTypes, TypeOK, CallsInv
<1>n. MaxNow \in Nat  BY LimiterAssumption
<1>v. tabs[t].visits \in 0 .. MaxVisits /\ tabs[t].answer \in Answers /\ tabs[t].view \in View
  BY <1>t DEF Tab
<1>r. ClosedTab \in Tab /\ ClosedTab.answer.kind = "none" /\ ClosedTab.call = ""
  BY <1>n, RowTypes DEF ClosedTab, Plain
<1>p. \A kind \in {"none", "verified", "gone", "failed"} :
        Plain(kind) \in Answers /\ Plain(kind).kind = kind
  BY <1>n, RowTypes
<1>e. [news EXCEPT ![t] = <<>>] \in [Tabs -> Seq(View)]
  BY <1>t
<1> SUFFICES /\ tabs' \in [Tabs -> Tab] /\ CallsInv' /\ news' \in [Tabs -> Seq(View)]
             /\ stored' \in Sessions \cup {None} /\ saved' \subseteq Sessions
             /\ UNCHANGED serverVars
  BY <1>t DEF GuestTypes, TypeOK, serverVars
<1> DEFINE Kept == news' \in [Tabs -> Seq(View)] /\ stored' \in Sessions \cup {None}
                   /\ saved' \subseteq Sessions /\ UNCHANGED serverVars
           Typed == tabs' \in [Tabs -> Tab] /\ CallsInv'
<1>1. ASSUME Visit(t) PROVE Kept /\ Typed
  <2> DEFINE row == [ClosedTab EXCEPT !.visits = tabs[t].visits + 1,
                        !.screen = IF stored = None THEN "consent" ELSE "loading",
                        !.access = stored,
                        !.call = IF stored = None THEN "" ELSE "restore"]
  <2>1. tabs[t].visits + 1 \in 0 .. MaxVisits
    BY <1>1, <1>v, GuestAssumption DEF Visit
  <2>2. row \in Tab /\ row.answer.kind = "none"
    BY <2>1, <1>t, <1>r DEF Tab, Screens
  <2>3. row.call = "restore" => row.access \in Sessions
    BY <1>t, <1>r DEF Tab
  <2>4. tabs' = [tabs EXCEPT ![t] = row]
    BY <1>1 DEF Visit
  <2> HIDE DEF row
  <2> QED  BY <1>1, <1>t, <1>e, <2>2, <2>3, <2>4, TabRow DEF Visit
<1>2. ASSUME NEW answer \in Answers, Answer(t, answer), answer.kind # "session"
      PROVE  Typed
  <2> DEFINE row == [tabs[t] EXCEPT !.answer = answer]
  <2>1. row \in Tab /\ row.answer = answer /\ row.call = tabs[t].call /\ row.access = tabs[t].access
    BY <1>t DEF Tab
  <2>2. tabs' = [tabs EXCEPT ![t] = row]
    BY <1>2 DEF Answer
  <2> HIDE DEF row
  <2> QED  BY <1>2, <1>t, <2>1, <2>2, TabRow
<1>3. ASSUME LoseAnswer(t) \/ RefuseRequest(t) PROVE Kept /\ Typed
  BY <1>2, <1>3, <1>p, <1>t DEF LoseAnswer, RefuseRequest, serverVars
<1>4. ASSUME VerifyAccess(t) PROVE Kept /\ Typed
  <2>1. PICK kind \in {"verified", "gone"} : Answer(t, Plain(kind))
    BY <1>4 DEF VerifyAccess
  <2> QED  BY <1>2, <1>4, <2>1, <1>p, <1>t DEF VerifyAccess
<1>5. ASSUME Restored(t) PROVE Kept /\ Typed
  <2>1. PICK row : /\ tabs' = [tabs EXCEPT ![t] = row]
                   /\ \/ row = [tabs[t] EXCEPT !.screen = "ready", !.view = tabs[t].answer.view,
                                               !.call = "", !.answer = Plain("none")]
                      \/ \E screen \in {"consent", "error"} :
                           row = [ClosedTab EXCEPT !.visits = tabs[t].visits, !.screen = screen]
    BY <1>5 DEF Restored
  <2>2. tabs[t].answer.view \in View
    BY <1>v DEF Answers
  <2>3. row \in Tab /\ row.call = "" /\ row.answer.kind = "none"
    <3>1. CASE row = [tabs[t] EXCEPT !.screen = "ready", !.view = tabs[t].answer.view,
                                     !.call = "", !.answer = Plain("none")]
      BY <3>1, <1>t, <1>p, <2>2 DEF Tab, Screens
    <3>2. ASSUME NEW screen \in {"consent", "error"},
                 row = [ClosedTab EXCEPT !.visits = tabs[t].visits, !.screen = screen]
          PROVE  row \in Tab /\ row.call = "" /\ row.answer.kind = "none"
      BY <3>2, <1>r, <1>v DEF Tab, Screens
    <3> QED  BY <2>1, <3>1, <3>2
  <2>4. Typed
    BY <2>1, <2>3, TabRow
  <2> QED  BY <1>5, <1>t, <2>4 DEF Restored
<1>6. ASSUME Start(t) PROVE Kept /\ Typed
  <2> DEFINE row == [tabs[t] EXCEPT !.call = "verify"]
  <2>1. row \in Tab /\ row.answer = tabs[t].answer /\ row.call = "verify"
    BY <1>t DEF Tab
  <2>2. tabs' = [tabs EXCEPT ![t] = row]
    BY <1>6 DEF Start
  <2> HIDE DEF row
  <2>3. Typed
    BY <1>t, <2>1, <2>2, TabRow
  <2> QED  BY <1>6, <1>t, <2>3 DEF Start
<1>7. ASSUME Verified(t) PROVE Kept /\ Typed
  <2> DEFINE row == [tabs[t] EXCEPT !.call = "create", !.answer = Plain("none")]
  <2>1. row \in Tab /\ row.answer.kind = "none" /\ row.call = "create"
    BY <1>t, <1>p DEF Tab
  <2>2. tabs' = [tabs EXCEPT ![t] = row]
    BY <1>7, <1>t DEF Verified
  <2> HIDE DEF row
  <2>3. Typed
    BY <2>1, <2>2, TabRow
  <2> QED  BY <1>7, <1>t, <2>3 DEF Verified
<1>8. ASSUME Started(t) PROVE Kept /\ Typed
  <2> DEFINE row == [tabs[t] EXCEPT !.screen = "ready", !.access = tabs[t].answer.id, !.call = "",
                                    !.view = NewView, !.answer = Plain("none")]
  <2>0. tabs[t].answer.id \in Sessions
    BY <1>8, <1>t DEF Started
  <2>1. row \in Tab /\ row.answer.kind = "none" /\ row.call = ""
    BY <2>0, <1>t, <1>p, <1>n, RowTypes DEF Tab, Screens
  <2>2. tabs' = [tabs EXCEPT ![t] = row]
    BY <1>8 DEF Started
  <2> HIDE DEF row
  <2>3. Typed
    BY <2>1, <2>2, TabRow
  <2> QED  BY <1>8, <1>t, <2>0, <2>3 DEF Started
<1>9. ASSUME NotStarted(t) PROVE Kept /\ Typed
  <2> DEFINE row == [tabs[t] EXCEPT !.screen = "error", !.call = "", !.answer = Plain("none")]
  <2>1. row \in Tab /\ row.answer.kind = "none" /\ row.call = ""
    BY <1>t, <1>p DEF Tab, Screens
  <2>2. tabs' = [tabs EXCEPT ![t] = row]
    BY <1>9, <1>t DEF NotStarted
  <2> HIDE DEF row
  <2>3. Typed
    BY <2>1, <2>2, TabRow
  <2> QED  BY <1>9, <1>t, <2>3 DEF NotStarted
<1>10. ASSUME Connect(t) \/ Disconnect(t) PROVE Kept /\ Typed
  <2>1. PICK up \in BOOLEAN : tabs' = [tabs EXCEPT ![t].up = up]
    BY <1>10 DEF Connect, Disconnect
  <2> DEFINE row == [tabs[t] EXCEPT !.up = up]
  <2>2. row \in Tab /\ row.answer = tabs[t].answer /\ row.call = tabs[t].call /\ row.access = tabs[t].access
    BY <1>t DEF Tab
  <2>3. tabs' = [tabs EXCEPT ![t] = row]
    BY <2>1
  <2> HIDE DEF row
  <2>4. Typed
    BY <1>t, <2>2, <2>3, TabRow
  <2> QED  BY <1>10, <1>t, <1>e, <2>4 DEF Connect, Disconnect
<1>11. ASSUME Send(t) PROVE Kept /\ Typed
  <2>1. UNCHANGED <<serverVars, stored, saved, tabs, news>>
    BY <1>11 DEF Send
  <2> QED  BY <2>1, <1>t DEF GuestTypes, CallsInv
<1>12. ASSUME NEW view \in View, tabs' = [tabs EXCEPT ![t].view = view] PROVE Typed
  <2> DEFINE row == [tabs[t] EXCEPT !.view = view]
  <2>2. row \in Tab /\ row.answer = tabs[t].answer /\ row.call = tabs[t].call /\ row.access = tabs[t].access
    BY <1>t DEF Tab
  <2>3. tabs' = [tabs EXCEPT ![t] = row]
    BY <1>12
  <2> HIDE DEF row
  <2> QED  BY <1>t, <2>2, <2>3, TabRow
<1>13. ASSUME SessionEvent(t) PROVE Kept /\ Typed
  <2>1. news[t] \in Seq(View) /\ news[t] # <<>>
    BY <1>13, <1>t DEF SessionEvent
  <2>2. Head(news[t]) \in View /\ Tail(news[t]) \in Seq(View)
    BY <2>1
  <2>3. Typed
    BY <1>13, <2>2, <1>12 DEF SessionEvent
  <2> QED  BY <1>13, <1>t, <2>2, <2>3 DEF SessionEvent
<1>14. ASSUME ClockEffect(t) PROVE Kept /\ Typed
  <2> DEFINE view == [tabs[t].view EXCEPT !.status = IF Terminal(t) THEN @ ELSE "EXPIRED"]
  <2>1. view \in View
    BY <1>v DEF View
  <2>2. tabs' = [tabs EXCEPT ![t].view = view]
    BY <1>14, <1>v DEF ClockEffect, View
  <2> HIDE DEF view
  <2>3. Typed
    BY <2>1, <2>2, <1>12
  <2> QED  BY <1>14, <1>t, <2>3 DEF ClockEffect
<1> QED
  BY <1>1, <1>3, <1>4, <1>5, <1>6, <1>7, <1>8, <1>9, <1>10, <1>11, <1>13, <1>14

(* So does an answer of the server to a page that asks for a consultation  *)
(* or for a new one (findOne, create).                                     *)
LEMMA AnswerTypes ==
    ASSUME GuestTypes, LimiterTypeOK', NEW t \in Tabs, GetSession(t) \/ CreateSession(t)
    PROVE  GuestTypes'
<1>t. /\ tabs \in [Tabs -> Tab] /\ tabs[t] \in Tab /\ news \in [Tabs -> Seq(View)]
      /\ server \in [Sessions -> View] /\ roomExists \in BOOLEAN /\ late \in [Sessions -> SUBSET View]
      /\ stored \in Sessions \cup {None} /\ saved \subseteq Sessions
      /\ tabs[t].call = "restore" => tabs[t].access \in Sessions
  BY DEF GuestTypes, TypeOK, CallsInv
<1>n. MaxNow \in Nat  BY LimiterAssumption
<1>1. ASSUME NEW answer \in Answers, Answer(t, answer), answer.kind = "session" => answer.id \in Sessions
      PROVE  tabs' \in [Tabs -> Tab] /\ CallsInv'
  <2> DEFINE row == [tabs[t] EXCEPT !.answer = answer]
  <2>1. row \in Tab /\ row.answer = answer /\ row.call = tabs[t].call /\ row.access = tabs[t].access
    BY <1>t DEF Tab
  <2>2. tabs' = [tabs EXCEPT ![t] = row]
    BY <1>1 DEF Answer
  <2> HIDE DEF row
  <2> QED  BY <1>1, <1>t, <2>1, <2>2, TabRow
<1>2. CASE GetSession(t)
  <2> DEFINE s == tabs[t].access
             found == IF Lapsed(s) THEN [server[s] EXCEPT !.status = "EXPIRED"] ELSE server[s]
  <2>1. s \in Sessions
    BY <1>2, <1>t DEF GetSession, Asked
  <2>2. found \in View
    BY <2>1, <1>t DEF View
  <2>3. /\ Answer(t, IF found = NoSession THEN Plain("gone") ELSE SessionAnswer(s, found))
        /\ server' = [server EXCEPT ![s] = found]
        /\ news' = IF Lapsed(s) THEN Announced(s, found) ELSE news
        /\ UNCHANGED <<roomExists, late, stored, saved>>
    BY <1>2 DEF GetSession
  <2> HIDE DEF s, found
  <2>4. PICK answer \in Answers : Answer(t, answer) /\ (answer.kind = "session" => answer.id \in Sessions)
    <3>1. CASE found = NoSession
      BY <3>1, <2>3, <1>n, RowTypes
    <3>2. CASE found # NoSession
      BY <3>2, <2>1, <2>2, <2>3, <1>n, RowTypes
    <3> QED  BY <3>1, <3>2
  <2>5. tabs' \in [Tabs -> Tab] /\ CallsInv'
    BY <2>4, <1>1
  <2>6. news' \in [Tabs -> Seq(View)]
    BY <2>2, <2>3, <1>t, AnnouncedTypes DEF GuestTypes
  <2>7. server' \in [Sessions -> View]
    BY <2>2, <2>3, <1>t
  <2> QED  BY <1>t, <2>3, <2>5, <2>6, <2>7 DEF GuestTypes, TypeOK
<1>3. CASE CreateSession(t)
  <2>1. UNCHANGED <<roomExists, late, stored, saved, news>>
    BY <1>3 DEF CreateSession
  <2>2. CASE Answer(t, Plain("gone")) /\ UNCHANGED server
    <3>1. tabs' \in [Tabs -> Tab] /\ CallsInv'
      BY <2>2, <1>1, <1>n, RowTypes
    <3> QED  BY <1>t, <2>1, <2>2, <3>1 DEF GuestTypes, TypeOK
  <2>3. CASE Answer(t, Plain("failed")) /\ UNCHANGED server
    <3>1. tabs' \in [Tabs -> Tab] /\ CallsInv'
      BY <2>3, <1>1, <1>n, RowTypes
    <3> QED  BY <1>t, <2>1, <2>3, <3>1 DEF GuestTypes, TypeOK
  <2>4. ASSUME NEW s \in Sessions, server' = Created(s), Answer(t, SessionAnswer(s, NewView))
        PROVE  GuestTypes'
    <3>1. tabs' \in [Tabs -> Tab] /\ CallsInv'
      BY <2>4, <1>1, <1>n, RowTypes
    <3>2. server' \in [Sessions -> View]
      BY <2>4, <1>t, <1>n, RowTypes DEF Created
    <3> QED  BY <1>t, <2>1, <3>1, <3>2 DEF GuestTypes, TypeOK
  <2> QED  BY <1>3, <2>2, <2>3, <2>4 DEF CreateSession
<1> QED  BY <1>2, <1>3

(* So do the steps of the server, of the other device and of the clock.    *)
LEMMA ServerTypes ==
    ASSUME GuestTypes, LimiterTypeOK', NEW s \in Sessions, ServerStep(s)
    PROVE  GuestTypes'
<1>t. /\ server \in [Sessions -> View] /\ late \in [Sessions -> SUBSET View] /\ server[s] \in View
      /\ news \in [Tabs -> Seq(View)] /\ now \in 0 .. MaxNow
  BY DEF GuestTypes, TypeOK, LimiterTypeOK
<1>n. MaxNow \in Nat /\ NoSession \in View /\ NewView \in View
  BY LimiterAssumption, RowTypes
<1>u. UNCHANGED <<roomExists, stored, saved, tabs>>
  BY DEF ServerStep, StaffOpens, FirstReply, CopyTold, StaffCloses, Expire, Retention,
         RivalStarts, Unchanged
<1> SUFFICES server' \in [Sessions -> View] /\ late' \in [Sessions -> SUBSET View] /\ news' \in [Tabs -> Seq(View)]
  BY <1>u DEF GuestTypes, TypeOK, CallsInv
<1> DEFINE Goal == server' \in [Sessions -> View] /\ late' \in [Sessions -> SUBSET View] /\ news' \in [Tabs -> Seq(View)]
<1>1. ASSUME NEW view \in View, Becomes(s, view) PROVE Goal
  BY <1>1, <1>t, AnnouncedTypes DEF Becomes, GuestTypes
<1>2. ASSUME NEW view \in View, BecomesUntold(s, view) PROVE Goal
  <2>1. late[s] \cup {view} \in SUBSET View
    BY <1>t
  <2> QED  BY <1>2, <1>t, <2>1 DEF BecomesUntold
<1>3. ASSUME StaffOpens(s) \/ FirstReply(s) PROVE Goal
  <2>1. CASE StaffOpens(s)
    <3>1. [server[s] EXCEPT !.status = "ACTIVE"] \in View
      BY <1>t DEF View
    <3> QED  BY <1>2, <2>1, <3>1 DEF StaffOpens
  <2>2. CASE FirstReply(s)
    <3>1. now + D \in 0 .. MaxNow
      BY <2>2, <1>t, <1>n, GuestAssumption DEF FirstReply
    <3>2. [server[s] EXCEPT !.expiresAt = now + D] \in View
      BY <1>t, <3>1 DEF View
    <3> QED  BY <1>2, <2>2, <3>2 DEF FirstReply
  <2> QED  BY <1>3, <2>1, <2>2
<1>4. ASSUME StaffCloses(s) \/ Expire(s) PROVE Goal
  <2>1. \A status \in {"CLOSED", "EXPIRED"} : [server[s] EXCEPT !.status = status] \in View
    BY <1>t DEF View
  <2> QED  BY <1>1, <1>4, <2>1 DEF StaffCloses, Expire
<1>6. ASSUME CopyTold(s) PROVE Goal
  <2>1. PICK view \in late[s] : /\ news' = Announced(s, view)
                                /\ late' = [late EXCEPT ![s] = late[s] \ {view}]
    BY <1>6, <1>t DEF CopyTold
  <2>2. view \in View /\ late[s] \ {view} \in SUBSET View
    BY <1>t
  <2>3. late' \in [Sessions -> SUBSET View]
    BY <1>t, <2>1, <2>2
  <2> QED  BY <1>6, <1>t, <2>1, <2>2, <2>3, AnnouncedTypes DEF CopyTold, GuestTypes
<1>5. ASSUME Retention(s) \/ RivalStarts(s) PROVE Goal
  BY <1>5, <1>t, <1>n DEF Retention, RivalStarts, Created
<1> QED  BY <1>3, <1>4, <1>5, <1>6 DEF ServerStep

(* The limiter's invariant is kept by whatever guests and pages do.        *)
THEOREM GuestLimiterCorrect == Spec => []LimiterInv
BY VisitsUseLimiter, LimiterCorrect, PTL

(* The types of the pages, the answers and the store are an invariant.     *)
LEMMA NextTypes ==
    ASSUME GuestTypes, LimiterTypeOK', [Next]_vars
    PROVE  GuestTypes'
<1>1. CASE Tick /\ UNCHANGED <<limiterVars, serverVars, stored, saved, tabs, news>>
  BY <1>1 DEF GuestTypes, TypeOK, CallsInv, serverVars
<1>2. CASE RemoveRoom
  <2>1. server' \in [Sessions -> View] /\ roomExists' = FALSE
        /\ UNCHANGED <<late, stored, saved, tabs, news>>
    BY <1>2, LimiterAssumption, RowTypes DEF RemoveRoom
  <2> QED  BY <2>1 DEF GuestTypes, TypeOK, CallsInv
<1>3. CASE \E s \in Sessions : ServerStep(s)
  BY <1>3, ServerTypes
<1>4. CASE \E t \in Tabs : TabStep(t)
  BY <1>4, PageTypes, AnswerTypes DEF TabStep
<1>5. CASE UNCHANGED vars
  BY <1>5 DEF GuestTypes, TypeOK, CallsInv, vars, serverVars
<1> QED  BY <1>1, <1>2, <1>3, <1>4, <1>5 DEF Next

(* And they hold to begin with.                                            *)
LEMMA InitTypes ==
    ASSUME Init, LimiterInv
    PROVE  GuestTypes
<1>1. NoSession \in View /\ ClosedTab \in Tab /\ ClosedTab.call = "" /\ ClosedTab.answer.kind = "none"
  BY LimiterAssumption, RowTypes DEF ClosedTab, Plain
<1>2. tabs = [t \in Tabs |-> ClosedTab] /\ news = [t \in Tabs |-> <<>>]
  BY DEF Init
<1>3. tabs \in [Tabs -> Tab] /\ news \in [Tabs -> Seq(View)] /\ CallsInv
  <2>1. <<>> \in Seq(View) /\ \A t \in Tabs : tabs[t] = ClosedTab
    BY <1>2
  <2>2. tabs \in [Tabs -> Tab] /\ news \in [Tabs -> Seq(View)]
    BY <1>1, <1>2, <2>1
  <2> QED  BY <1>1, <2>1, <2>2 DEF CallsInv
<1>4. /\ server \in [Sessions -> View] /\ late \in [Sessions -> SUBSET View] /\ roomExists \in BOOLEAN
      /\ stored \in Sessions \cup {None} /\ saved \subseteq Sessions
  <2>1. /\ server = [s \in Sessions |-> NoSession] /\ late = [s \in Sessions |-> {}]
        /\ roomExists = TRUE /\ stored = None /\ saved = {}
    BY DEF Init
  <2> QED  BY <1>1, <2>1
<1> QED  BY <1>3, <1>4 DEF GuestTypes, TypeOK, LimiterInv

(* Pages, answers, the stored token and the server's rows keep their types, *)
(* and a page only ever asks for, and is only ever given, a consultation    *)
(* that has an id (prepare, startConsultation).                             *)
THEOREM VisitTypes == Spec => []TypeOK
<1>1. Init /\ LimiterInv => GuestTypes
  BY InitTypes
<1>2. GuestTypes /\ LimiterInv' /\ [Next]_vars => GuestTypes'
  BY NextTypes DEF LimiterInv
<1>3. GuestTypes => TypeOK
  BY DEF GuestTypes
<1> QED  BY <1>1, <1>2, <1>3, GuestLimiterCorrect, PTL DEF Spec

-----------------------------------------------------------------------------
(* The token.                                                              *)

\* A consultation with this row has ended, or its deadline has passed.
Ended(row, time) ==
    \/ row.status \notin {"WAITING", "ACTIVE"}
    \/ row.status = "ACTIVE" /\ row.expiresAt \in 1 .. time

\* What a page was told earlier, and what it concludes from it at this time, is true
\* of this row.
TrueOf(view, row, time) ==
    /\ view.status \notin {"WAITING", "ACTIVE"} => Ended(row, time)
    /\ view.status = "ACTIVE" /\ view.expiresAt # 0 =>
         Ended(row, time) \/ (row.status = "ACTIVE" /\ row.expiresAt = view.expiresAt)

Over(s) == Ended(server[s], now)
Holds(view, s) == TrueOf(view, server[s], now)

\* The stages of a page: a socket only where the consultation is shown, a request
\* only before.
Stage(t) ==
    /\ tabs[t].up \/ news[t] # <<>> => tabs[t].screen = "ready"
    /\ tabs[t].call = "restore" => tabs[t].screen = "loading"
    /\ tabs[t].call \in {"verify", "create"} => tabs[t].screen = "consent"

StagesInv == \A t \in Tabs : Stage(t)

\* The page that asks for, or shows, a consultation.
Shows(t) == tabs[t].call = "restore" \/ tabs[t].screen = "ready"

\* Such a page has a token that was kept; and everything it has been told, or will
\* be, holds.
Heard(t) ==
    /\ Shows(t) => /\ tabs[t].access \in saved
                   /\ tabs[t].screen = "ready" => Holds(tabs[t].view, tabs[t].access)
    /\ \A i \in 1 .. Len(news[t]) : Holds(news[t][i], tabs[t].access)
    /\ tabs[t].call = "restore" =>
         /\ tabs[t].answer.kind = "gone" => Over(tabs[t].access)
         /\ tabs[t].answer.kind = "session" => Holds(tabs[t].answer.view, tabs[t].access)

\* A consultation whose id is not given out again.
Known(s) == s \in saved \/ server[s].status # "none" \/ ~roomExists

\* So does what the events of the opening and of the first reply will tell.
StoreInv ==
    /\ stored = None \/ stored \in saved
    /\ \A s \in Sessions : late[s] # {} => Known(s) /\ \A view \in late[s] : Holds(view, s)

HeardInv == StoreInv /\ \A t \in Tabs : Heard(t)

\* The room has one open consultation at most.
OneOpen == \A a, b \in Sessions : Open(a) /\ Open(b) => a = b

\* What holds of a device with any number of tabs.
PagesInv == GuestTypes /\ StagesInv /\ HeardInv /\ OneOpen

(* An announcement reaches pages that are joined, and no page else.        *)
LEMMA AnnouncedStages ==
    ASSUME GuestTypes, StagesInv, NEW s, NEW view, news' = Announced(s, view), NEW t \in Tabs,
           tabs'[t].up = tabs[t].up, tabs'[t].screen = tabs[t].screen, tabs'[t].call = tabs[t].call
    PROVE  Stage(t)'
<1>1. tabs[t].up \/ news[t] # <<>> => tabs[t].screen = "ready"
  BY DEF StagesInv, Stage
<1>2. ~tabs[t].up => news'[t] = news[t]
  BY DEF Announced
<1> QED  BY <1>1, <1>2 DEF StagesInv, Stage

(* Sockets belong to pages that show a consultation, requests to those that *)
(* do not yet: every step of a page keeps to that.                          *)
LEMMA PageStages ==
    ASSUME GuestTypes, StagesInv, NEW t \in Tabs, TabStep(t)
    PROVE  StagesInv'
<1>t. /\ tabs \in [Tabs -> Tab] /\ tabs[t] \in Tab /\ news \in [Tabs -> Seq(View)]
  BY DEF GuestTypes, TypeOK
<1>s. Stage(t)
  BY DEF StagesInv
<1>r. ClosedTab.up = FALSE /\ ClosedTab.call = "" /\ ClosedTab \in Tab
  BY LimiterAssumption, RowTypes DEF ClosedTab
<1>o. ASSUME \A u \in Tabs : u # t => tabs'[u] = tabs[u] /\ news'[u] = news[u], Stage(t)'
      PROVE  StagesInv'
  BY <1>o DEF StagesInv, Stage
<1>1. CASE Visit(t)
  <2>1. /\ tabs'[t].up = FALSE /\ news'[t] = <<>>
        /\ tabs'[t].call = "restore" => tabs'[t].screen = "loading"
        /\ tabs'[t].call \in {"", "restore"}
    BY <1>1, <1>t DEF Visit, ClosedTab
  <2>2. Stage(t)'
    BY <2>1 DEF Stage
  <2> QED  BY <1>1, <1>t, <1>o, <2>2 DEF Visit
<1>2. CASE LoseAnswer(t) \/ RefuseRequest(t) \/ VerifyAccess(t) \/ CreateSession(t)
  <2>1. news' = news /\ \E answer : Answer(t, answer)
    BY <1>2 DEF LoseAnswer, RefuseRequest, VerifyAccess, CreateSession
  <2>2. PICK answer : tabs' = [tabs EXCEPT ![t].answer = answer]
    BY <2>1 DEF Answer
  <2>3. /\ tabs'[t].up = tabs[t].up /\ tabs'[t].screen = tabs[t].screen
        /\ tabs'[t].call = tabs[t].call
    BY <2>2, <1>t DEF Tab
  <2>4. Stage(t)'
    BY <2>1, <2>3, <1>s DEF Stage
  <2> QED  BY <1>t, <1>o, <2>1, <2>2, <2>4
<1>3. CASE GetSession(t)
  <2>1. PICK answer, view : /\ tabs' = [tabs EXCEPT ![t].answer = answer]
                            /\ news' = news \/ news' = Announced(tabs[t].access, view)
    BY <1>3 DEF GetSession, Answer
  <2>2. ASSUME NEW u \in Tabs
        PROVE  /\ tabs'[u].up = tabs[u].up /\ tabs'[u].screen = tabs[u].screen
               /\ tabs'[u].call = tabs[u].call
    BY <2>1, <1>t DEF Tab
  <2>3. ASSUME NEW u \in Tabs PROVE Stage(u)'
    <3>1. CASE news' = news
      BY <3>1, <2>2 DEF StagesInv, Stage
    <3>2. CASE news' = Announced(tabs[t].access, view)
      BY <3>2, <2>2, AnnouncedStages
    <3> QED  BY <2>1, <3>1, <3>2
  <2> QED  BY <2>3 DEF StagesInv
<1>4. CASE Restored(t)
  <2>1. /\ tabs[t].call = "restore" /\ news' = news
        /\ \A u \in Tabs : u # t => tabs'[u] = tabs[u]
    BY <1>4, <1>t DEF Restored, Answered
  <2>2. tabs[t].up = FALSE /\ news[t] = <<>>
    BY <2>1, <1>s, <1>t DEF Stage, Tab
  <2>3. tabs'[t].up = FALSE /\ tabs'[t].call = ""
    BY <1>4, <1>t, <1>r, <2>2 DEF Restored, Tab
  <2>4. Stage(t)'
    BY <2>1, <2>2, <2>3 DEF Stage
  <2> QED  BY <1>o, <2>1, <2>4
<1>5. CASE Start(t) \/ Verified(t)
  <2>1. /\ tabs[t].screen = "consent" /\ news' = news /\ tabs'[t].screen = tabs[t].screen
        /\ tabs'[t].up = tabs[t].up /\ tabs'[t].call \in {"verify", "create"}
        /\ \A u \in Tabs : u # t => tabs'[u] = tabs[u]
    <3>1. \/ tabs[t].screen = "consent" /\ tabs' = [tabs EXCEPT ![t] = [@ EXCEPT !.call = "verify"]]
          \/ /\ tabs[t].call = "verify"
             /\ tabs' = [tabs EXCEPT ![t] = [@ EXCEPT !.call = "create", !.answer = Plain("none")]]
      BY <1>5, <1>t DEF Start, Verified, Answered
    <3>2. tabs[t].screen = "consent"
      BY <3>1, <1>s DEF Stage
    <3>3. CASE tabs' = [tabs EXCEPT ![t] = [@ EXCEPT !.call = "verify"]]
      BY <1>5, <1>t, <3>2, <3>3 DEF Start, Verified, Tab
    <3>4. CASE tabs' = [tabs EXCEPT ![t] = [@ EXCEPT !.call = "create", !.answer = Plain("none")]]
      BY <1>5, <1>t, <3>2, <3>4 DEF Start, Verified, Tab
    <3> QED  BY <3>1, <3>3, <3>4
  <2>2. Stage(t)'
    BY <2>1, <1>s DEF Stage
  <2> QED  BY <1>o, <2>1, <2>2
<1>6. CASE Started(t) \/ NotStarted(t)
  <2>1. /\ tabs[t].call \in {"verify", "create"} /\ news' = news /\ tabs'[t].call = ""
        /\ tabs'[t].up = tabs[t].up
        /\ \A u \in Tabs : u # t => tabs'[u] = tabs[u]
    <3>1. CASE Started(t)
      BY <3>1, <1>t DEF Started, Answered, Tab
    <3>2. CASE NotStarted(t)
      <4>1. /\ tabs[t].call \in {"verify", "create"} /\ news' = news
            /\ tabs' = [tabs EXCEPT ![t] =
                 [@ EXCEPT !.screen = "error", !.call = "", !.answer = Plain("none")]]
        BY <3>2, <1>t DEF NotStarted, Answered
      <4> QED  BY <4>1, <1>t DEF Tab
    <3> QED  BY <1>6, <3>1, <3>2
  <2>2. tabs[t].up = FALSE /\ news[t] = <<>>
    BY <2>1, <1>s, <1>t DEF Stage, Tab
  <2>3. Stage(t)'
    BY <2>1, <2>2 DEF Stage
  <2> QED  BY <1>o, <2>1, <2>3
<1>7. CASE Connect(t)
  <2>1. /\ tabs[t].screen = "ready" /\ news' = news /\ tabs'[t].screen = tabs[t].screen
        /\ tabs'[t].call = tabs[t].call
        /\ \A u \in Tabs : u # t => tabs'[u] = tabs[u]
    BY <1>7, <1>t DEF Connect, Tab
  <2>2. Stage(t)'
    BY <2>1, <1>s DEF Stage
  <2> QED  BY <1>o, <2>1, <2>2
<1>8. CASE Disconnect(t) \/ SessionEvent(t) \/ ClockEffect(t)
  <2>1. /\ tabs'[t].screen = tabs[t].screen /\ tabs'[t].call = tabs[t].call
        /\ tabs'[t].up => tabs[t].up
        /\ \A u \in Tabs : u # t => tabs'[u] = tabs[u] /\ news'[u] = news[u]
    <3>1. CASE Disconnect(t)
      BY <3>1, <1>t DEF Disconnect, Tab
    <3>2. ASSUME NEW view, tabs' = [tabs EXCEPT ![t].view = view]
          PROVE  /\ tabs'[t].screen = tabs[t].screen /\ tabs'[t].call = tabs[t].call
                 /\ tabs'[t].up = tabs[t].up
                 /\ \A u \in Tabs : u # t => tabs'[u] = tabs[u]
      BY <3>2, <1>t DEF Tab
    <3>3. CASE SessionEvent(t)
      BY <3>2, <3>3, <1>t DEF SessionEvent
    <3>4. CASE ClockEffect(t)
      <4>1. \E view : tabs' = [tabs EXCEPT ![t].view = view]
        BY <3>4 DEF ClockEffect
      <4> QED  BY <3>2, <3>4, <4>1 DEF ClockEffect
    <3> QED  BY <1>8, <3>1, <3>3, <3>4
  <2>2. news'[t] # <<>> => news[t] # <<>>
    BY <1>8, <1>t DEF Disconnect, SessionEvent, ClockEffect
  <2>3. Stage(t)'
    BY <2>1, <2>2, <1>s DEF Stage
  <2> QED  BY <1>o, <2>1, <2>3
<1>9. CASE Send(t)
  BY <1>9 DEF Send, StagesInv, Stage
<1> QED  BY <1>1, <1>2, <1>3, <1>4, <1>5, <1>6, <1>7, <1>8, <1>9 DEF TabStep

(* So does every other step.                                                *)
LEMMA NextStages ==
    ASSUME GuestTypes, StagesInv, [Next]_vars
    PROVE  StagesInv'
<1>1. CASE tabs' = tabs /\ news' = news
  BY <1>1 DEF StagesInv, Stage
<1>2. ASSUME NEW s \in Sessions, ServerStep(s) PROVE StagesInv'
  <2>1. tabs' = tabs /\ (news' = news \/ \E view : news' = Announced(s, view))
    BY <1>2 DEF ServerStep, StaffOpens, FirstReply, CopyTold, StaffCloses, Expire, Retention,
                RivalStarts, Unchanged, Becomes, BecomesUntold
  <2>2. ASSUME NEW view, news' = Announced(s, view) PROVE StagesInv'
    BY <2>1, <2>2, AnnouncedStages DEF StagesInv
  <2> QED  BY <1>1, <2>1, <2>2
<1>3. CASE \E t \in Tabs : TabStep(t)
  BY <1>3, PageStages
<1> QED  BY <1>1, <1>2, <1>3 DEF Next, RemoveRoom, vars


-----------------------------------------------------------------------------
(* What has ended does not begin again.                                    *)

\* What may become, in one step, of the row of a known consultation.
RowMoves(s) ==
    \/ server'[s] = server[s]
    \/ server'[s].status \notin {"WAITING", "ACTIVE"}
    \/ server[s].status = "WAITING"
    \/ server[s].status = "ACTIVE" /\ server[s].expiresAt = 0

(* The server moves a row it has in one direction, and gives no known id    *)
(* out again (open, close, expire, save, create).                           *)
LEMMA RowsMove ==
    ASSUME GuestTypes, [Next]_vars, NEW s \in Sessions, Known(s)
    PROVE  RowMoves(s) /\ now' >= now
<1>t. /\ server \in [Sessions -> View] /\ now \in 0 .. MaxNow
  BY DEF GuestTypes, TypeOK, LimiterTypeOK
<1>n. now \in Int  BY <1>t
<1>k. ~(roomExists /\ IsFree(s))
  BY DEF Known, IsFree
<1>1. CASE Tick /\ UNCHANGED <<limiterVars, serverVars, stored, saved, tabs, news>>
  BY <1>1, <1>n DEF Tick, serverVars, RowMoves
<1>2. CASE RemoveRoom
  BY <1>2, <1>t, <1>n DEF RemoveRoom, RowMoves, NoSession
<1>3. ASSUME NEW o \in Sessions, ServerStep(o) PROVE RowMoves(s) /\ now' >= now
  <2>1. now' = now
    BY <1>3 DEF ServerStep, StaffOpens, FirstReply, CopyTold, StaffCloses, Expire, Retention,
                RivalStarts, Unchanged
  <2>2. CASE o # s
    <3>1. server'[s] = server[s]
      BY <1>3, <1>t, <2>2 DEF ServerStep, StaffOpens, FirstReply, CopyTold, StaffCloses, Expire,
         Retention, RivalStarts, Becomes, BecomesUntold, Created
    <3> QED  BY <3>1, <2>1, <1>n DEF RowMoves
  <2>3. CASE o = s
    <3>1. ~RivalStarts(s)
      BY <1>k DEF RivalStarts
    <3>2. CASE StaffOpens(s) \/ FirstReply(s) \/ CopyTold(s)
      BY <3>2, <2>1, <1>n DEF StaffOpens, FirstReply, CopyTold, BecomesUntold, RowMoves
    <3>3. CASE StaffCloses(s) \/ Expire(s)
      <4>1. server'[s].status \in {"CLOSED", "EXPIRED"}
        BY <3>3, <1>t DEF StaffCloses, Expire, Becomes, View
      <4> QED  BY <4>1, <2>1, <1>n DEF RowMoves
    <3>4. CASE Retention(s)
      <4>1. server'[s].status = "none"
        BY <3>4, <1>t DEF Retention, NoSession
      <4> QED  BY <4>1, <2>1, <1>n DEF RowMoves
    <3> QED  BY <1>3, <2>3, <3>1, <3>2, <3>3, <3>4 DEF ServerStep
  <2> QED  BY <2>2, <2>3
<1>4. ASSUME NEW t \in Tabs, GetSession(t) PROVE RowMoves(s) /\ now' >= now
  <2> DEFINE a == tabs[t].access
             found == IF Lapsed(a) THEN [server[a] EXCEPT !.status = "EXPIRED"] ELSE server[a]
  <2>1. a \in Sessions
    BY <1>4 DEF GetSession, Asked, GuestTypes, CallsInv
  <2>2. found = server[a] \/ found.status = "EXPIRED"
    BY <2>1, <1>t DEF View
  <2>3. server' = [server EXCEPT ![a] = found] /\ now' = now
    BY <1>4 DEF GetSession
  <2> HIDE DEF a, found
  <2> QED  BY <2>1, <2>2, <2>3, <1>t, <1>n DEF RowMoves
<1>5. ASSUME NEW t \in Tabs, CreateSession(t) PROVE RowMoves(s) /\ now' >= now
  <2>1. now' = now
    BY <1>5 DEF CreateSession
  <2>2. server' = server \/ \E o \in Sessions : roomExists /\ IsFree(o) /\ server' = Created(o)
    BY <1>5 DEF CreateSession
  <2>3. server'[s] = server[s]
    BY <2>2, <1>t, <1>k DEF Created
  <2> QED  BY <2>1, <2>3, <1>n DEF RowMoves
<1>6. ASSUME NEW t \in Tabs, TabStep(t), ~GetSession(t), ~CreateSession(t)
      PROVE  RowMoves(s) /\ now' >= now
  <2>1. server' = server /\ now' = now
    BY <1>6 DEF TabStep, Visit, LoseAnswer, RefuseRequest, Restored, Start, VerifyAccess, Verified,
       Started, NotStarted, Connect, Disconnect, Send, SessionEvent, ClockEffect, serverVars
  <2> QED  BY <2>1, <1>n DEF RowMoves
<1>7. CASE UNCHANGED vars
  BY <1>7, <1>n DEF vars, serverVars, RowMoves
<1> QED  BY <1>1, <1>2, <1>3, <1>4, <1>5, <1>6, <1>7 DEF Next

(* A consultation that is over stays so, and what was once told of a known  *)
(* one stays true (isGuestSessionOpen and the clock's effect may conclude   *)
(* from it at any later time).                                              *)
LEMMA KnownStaysTrue ==
    ASSUME GuestTypes, GuestTypes', [Next]_vars, NEW s \in Sessions, Known(s)
    PROVE  /\ Over(s) => Over(s)'
           /\ \A view \in View : Holds(view, s) => Holds(view, s)'
<1>t. /\ server[s] \in View /\ server'[s] \in View /\ now \in 0 .. MaxNow /\ now' \in 0 .. MaxNow
  BY DEF GuestTypes, TypeOK, LimiterTypeOK
<1>m. RowMoves(s) /\ now' >= now
  BY RowsMove
<1>i. /\ now \in Int /\ now' \in Int /\ server[s].expiresAt \in Int /\ server'[s].expiresAt \in Int
  BY <1>t DEF View
<1>1. ASSUME Over(s) PROVE Over(s)'
  <2>1. CASE server'[s] = server[s]
    BY <1>1, <1>m, <1>i, <2>1 DEF Over, Ended
  <2>2. CASE server'[s].status \notin {"WAITING", "ACTIVE"}
    BY <2>2 DEF Over, Ended
  <2>3. server[s].status # "WAITING" /\ ~(server[s].status = "ACTIVE" /\ server[s].expiresAt = 0)
    BY <1>1, <1>i DEF Over, Ended
  <2> QED  BY <1>m, <2>1, <2>2, <2>3 DEF RowMoves
<1>2. ASSUME NEW view \in View, Holds(view, s) PROVE Holds(view, s)'
  <2>1. CASE server[s].status = "ACTIVE" /\ server[s].expiresAt = view.expiresAt /\ view.expiresAt # 0
    <3>1. server'[s] = server[s] \/ server'[s].status \notin {"WAITING", "ACTIVE"}
      BY <1>m, <2>1 DEF RowMoves
    <3>2. Over(s)' \/ (server'[s].status = "ACTIVE" /\ server'[s].expiresAt = view.expiresAt)
      BY <2>1, <3>1 DEF Over, Ended
    <3> QED  BY <1>1, <1>2, <3>2 DEF Holds, TrueOf, Over
  <2>2. CASE ~(server[s].status = "ACTIVE" /\ server[s].expiresAt = view.expiresAt /\ view.expiresAt # 0)
    BY <1>1, <1>2, <2>2 DEF Holds, TrueOf, Over
  <2> QED  BY <2>1, <2>2
<1> QED  BY <1>1, <1>2

(* In particular of one whose token this device has kept.                   *)
LEMMA ToldStaysTrue ==
    ASSUME GuestTypes, GuestTypes', [Next]_vars, NEW s \in saved
    PROVE  /\ Over(s) => Over(s)'
           /\ \A view \in View : Holds(view, s) => Holds(view, s)'
<1>1. s \in Sessions /\ Known(s)
  BY DEF Known, GuestTypes, TypeOK
<1> QED  BY <1>1, KnownStaysTrue

(* A known consultation stays known: its row is deleted only by retention,  *)
(* which the model admits of those the device kept, or with the room        *)
(* (deleteExpiredHistory, RoomsService and AdminService).                   *)
LEMMA KnownStays ==
    ASSUME GuestTypes, [Next]_vars, saved \subseteq saved', NEW s \in Sessions, Known(s)
    PROVE  Known(s)'
<1>t. server \in [Sessions -> View] /\ server[s] \in View
  BY DEF GuestTypes, TypeOK
<1>k. s \in saved => Known(s)'
  BY DEF Known
<1>g. ASSUME UNCHANGED roomExists, server'[s].status = server[s].status \/ server'[s].status # "none"
      PROVE  Known(s)'
  BY <1>g DEF Known
<1>1. CASE UNCHANGED <<server, roomExists>>
  BY <1>1, <1>g
<1>2. CASE RemoveRoom
  BY <1>2 DEF RemoveRoom, Known
<1>3. ASSUME NEW o \in Sessions, ServerStep(o) PROVE Known(s)'
  <2>1. UNCHANGED roomExists
    BY <1>3 DEF ServerStep, StaffOpens, FirstReply, CopyTold, StaffCloses, Expire, Retention,
                RivalStarts, Unchanged
  <2>2. CASE Retention(o)
    BY <2>1, <2>2, <1>t, <1>g, <1>k DEF Retention
  <2>3. CASE StaffOpens(o) \/ StaffCloses(o) \/ Expire(o)
    <3>1. PICK status \in {"ACTIVE", "CLOSED", "EXPIRED"} :
            server' = [server EXCEPT ![o] = [server[o] EXCEPT !.status = status]]
      BY <2>3 DEF StaffOpens, StaffCloses, Expire, Becomes, BecomesUntold
    <3>2. server'[s] = IF s = o THEN [server[s] EXCEPT !.status = status] ELSE server[s]
      BY <3>1, <1>t
    <3>3. [server[s] EXCEPT !.status = status].status = status
      BY <1>t DEF View
    <3> QED  BY <2>1, <3>2, <3>3, <1>g
  <2>4. CASE FirstReply(o)
    <3>1. server' = [server EXCEPT ![o] = [server[o] EXCEPT !.expiresAt = now + D]]
      BY <2>4 DEF FirstReply, BecomesUntold
    <3>2. server'[s].status = server[s].status
      BY <3>1, <1>t DEF View
    <3> QED  BY <2>1, <3>2, <1>g
  <2>5. CASE CopyTold(o)
    BY <2>1, <2>5, <1>1 DEF CopyTold
  <2>6. CASE RivalStarts(o)
    <3>1. server'[s] = server[s] \/ server'[s].status = "WAITING"
      BY <2>6, <1>t DEF RivalStarts, Created, NewView
    <3> QED  BY <2>1, <3>1, <1>g
  <2> QED  BY <1>3, <2>2, <2>3, <2>4, <2>5, <2>6 DEF ServerStep
<1>4. ASSUME NEW t \in Tabs, GetSession(t) PROVE Known(s)'
  <2> DEFINE a == tabs[t].access
  <2>1. UNCHANGED roomExists
    BY <1>4 DEF GetSession
  <2>2. server'[s] = server[s] \/ server'[s] = [server[s] EXCEPT !.status = "EXPIRED"]
    BY <1>4, <1>t DEF GetSession
  <2>3. [server[s] EXCEPT !.status = "EXPIRED"].status = "EXPIRED"
    BY <1>t DEF View
  <2> QED  BY <2>1, <2>2, <2>3, <1>g
<1>5. ASSUME NEW t \in Tabs, CreateSession(t) PROVE Known(s)'
  <2>1. UNCHANGED roomExists /\ (server' = server \/ \E o \in Sessions : server' = Created(o))
    BY <1>5 DEF CreateSession
  <2>2. server'[s] = server[s] \/ server'[s].status = "WAITING"
    BY <2>1, <1>t DEF Created, NewView
  <2> QED  BY <2>1, <2>2, <1>g
<1>6. ASSUME NEW t \in Tabs, TabStep(t), ~GetSession(t), ~CreateSession(t)
      PROVE  Known(s)'
  <2>1. UNCHANGED <<server, roomExists>>
    BY <1>6 DEF TabStep, Visit, LoseAnswer, RefuseRequest, Restored, Start, VerifyAccess, Verified,
       Started, NotStarted, Connect, Disconnect, Send, SessionEvent, ClockEffect, serverVars
  <2> QED  BY <2>1, <1>1
<1> QED  BY <1>1, <1>2, <1>3, <1>4, <1>5, <1>6 DEF Next, vars, serverVars

-----------------------------------------------------------------------------
(* What a page hears is true, on a device with any number of tabs.         *)

\* What may happen to the events on the way to a page that does not take a step.
Joins(t) ==
    \/ news'[t] = news[t]
    \/ /\ tabs[t].up
       /\ \E view \in View : /\ news'[t] = Append(news[t], view)
                             /\ TrueOf(view, server'[tabs[t].access], now')

(* What a page has heard and what is on its way to it stays true while      *)
(* others take a step.                                                      *)
LEMMA OthersHear ==
    ASSUME PagesInv, GuestTypes', [Next]_vars, saved \subseteq saved',
           NEW t \in Tabs, tabs'[t] = tabs[t], Joins(t)
    PROVE  Heard(t)'
<1>t. /\ tabs[t] \in Tab /\ news[t] \in Seq(View) /\ tabs[t].view \in View
      /\ tabs[t].answer.view \in View
  BY DEF PagesInv, GuestTypes, TypeOK, Tab, Answers
<1>s. Heard(t) /\ Stage(t)
  BY DEF PagesInv, HeardInv, StagesInv
<1>k. \A s \in saved :
        /\ Over(s) => Ended(server'[s], now')
        /\ \A view \in View : Holds(view, s) => TrueOf(view, server'[s], now')
  BY ToldStaysTrue DEF PagesInv, Over, Holds
<1> DEFINE row == server'[tabs[t].access]
<1>1. Shows(t) => /\ tabs[t].access \in saved'
                  /\ tabs[t].screen = "ready" => TrueOf(tabs[t].view, row, now')
  BY <1>s, <1>k, <1>t DEF Heard
<1>2. ASSUME NEW i \in 1 .. Len(news'[t]) PROVE TrueOf(news'[t][i], row, now')
  <2>1. ASSUME i \in 1 .. Len(news[t]) PROVE TrueOf(news[t][i], row, now')
    <3>1. Shows(t)
      BY <2>1, <1>s, <1>t DEF Stage, Shows
    <3> QED  BY <2>1, <3>1, <1>s, <1>k, <1>t DEF Heard
  <2>2. CASE news'[t] = news[t]
    BY <2>1, <2>2
  <2>3. ASSUME NEW view \in View, news'[t] = Append(news[t], view), TrueOf(view, row, now')
        PROVE  TrueOf(news'[t][i], row, now')
    <3>1. CASE i \in 1 .. Len(news[t])
      BY <3>1, <2>1, <2>3, <1>t
    <3>2. CASE i \notin 1 .. Len(news[t])
      BY <3>2, <2>3, <1>t
    <3> QED  BY <3>1, <3>2
  <2> QED  BY <2>2, <2>3 DEF Joins
<1>3. tabs[t].call = "restore" =>
         /\ tabs[t].answer.kind = "gone" => Ended(row, now')
         /\ tabs[t].answer.kind = "session" => TrueOf(tabs[t].answer.view, row, now')
  BY <1>s, <1>k, <1>t DEF Heard, Shows
<1> QED  BY <1>1, <1>2, <1>3 DEF Heard, Shows, Over, Holds

(* So does what the copies will say that open() and save() have read and    *)
(* not yet published; and what is stored is a token that was kept.          *)
LEMMA StoreStays ==
    ASSUME PagesInv, GuestTypes', [Next]_vars, saved \subseteq saved',
           stored' = None \/ stored' \in saved',
           \A s \in Sessions : \/ late'[s] \subseteq late[s]
                               \/ Known(s) /\ late'[s] \subseteq late[s] \cup {server'[s]}
    PROVE  StoreInv'
<1>k. ASSUME NEW s \in Sessions, Known(s)
      PROVE  Known(s)' /\ \A view \in View : Holds(view, s) => TrueOf(view, server'[s], now')
  BY <1>k, KnownStaysTrue, KnownStays DEF PagesInv, Holds
<1>s. StoreInv /\ \A s \in Sessions : late[s] \subseteq View
  BY DEF PagesInv, HeardInv, GuestTypes, TypeOK
<1>1. ASSUME NEW s \in Sessions, NEW view \in late'[s]
      PROVE  Known(s)' /\ TrueOf(view, server'[s], now')
  <2>1. CASE view \in late[s]
    BY <2>1, <1>k, <1>s DEF StoreInv
  <2>2. CASE Known(s) /\ view = server'[s]
    BY <2>2, <1>k DEF TrueOf, Ended
  <2> QED  BY <1>1, <2>1, <2>2
<1> QED  BY <1>1 DEF StoreInv, Holds

(* A page announced to is told the row as it stands.                        *)
LEMMA AnnouncedIsTrue ==
    ASSUME GuestTypes, NEW s \in Sessions, NEW view \in View, news' = Announced(s, view),
           TrueOf(view, server'[s], now'), NEW t \in Tabs
    PROVE  Joins(t)
<1>1. CASE tabs[t].up /\ tabs[t].access = s
  <2>1. news'[t] = Append(news[t], view)
    BY <1>1 DEF Announced
  <2> QED  BY <1>1, <2>1 DEF Joins
<1>2. CASE ~(tabs[t].up /\ tabs[t].access = s)
  BY <1>2 DEF Announced, Joins
<1> QED  BY <1>1, <1>2

(* The server, the other device and the clock break none of it.             *)
LEMMA ServerHears ==
    ASSUME PagesInv, GuestTypes', [Next]_vars,
           \/ Tick /\ UNCHANGED <<limiterVars, serverVars, stored, saved, tabs, news>>
           \/ RemoveRoom \/ UNCHANGED vars
           \/ \E s \in Sessions : ServerStep(s)
    PROVE  HeardInv'
<1>t. /\ server \in [Sessions -> View] /\ server' \in [Sessions -> View] /\ late \in [Sessions -> SUBSET View]
      /\ stored = None \/ stored \in saved
  BY DEF PagesInv, HeardInv, StoreInv, GuestTypes, TypeOK
<1>g. ASSUME UNCHANGED <<stored, saved, tabs>>, \A t \in Tabs : Joins(t),
             \A o \in Sessions : \/ late'[o] \subseteq late[o]
                                 \/ Known(o) /\ late'[o] \subseteq late[o] \cup {server'[o]}
      PROVE  HeardInv'
  <2>1. StoreInv'
    BY <1>g, <1>t, StoreStays
  <2>2. \A t \in Tabs : Heard(t)'
    BY <1>g, OthersHear
  <2> QED  BY <2>1, <2>2 DEF HeardInv
<1>1. CASE UNCHANGED <<late, stored, saved, tabs, news>>
  BY <1>1, <1>g DEF Joins
<1>2. ASSUME NEW s \in Sessions, ServerStep(s) PROVE HeardInv'
  <2>0. UNCHANGED <<stored, saved, tabs>>
    BY <1>2 DEF ServerStep, StaffOpens, FirstReply, CopyTold, StaffCloses, Expire, Retention,
                RivalStarts, Unchanged
  <2>1. CASE Retention(s) \/ RivalStarts(s)
    BY <2>0, <2>1, <1>1 DEF Retention, RivalStarts
  <2>2. CASE StaffCloses(s) \/ Expire(s)
    <3>1. PICK view : Becomes(s, view)
      BY <2>2 DEF StaffCloses, Expire
    <3>2. server'[s] = view /\ view \in View /\ news' = Announced(s, view) /\ late' = late
      BY <3>1, <1>t DEF Becomes
    <3>3. TrueOf(view, server'[s], now')
      BY <3>2 DEF TrueOf, Ended
    <3>4. \A t \in Tabs : Joins(t)
      BY <3>2, <3>3, AnnouncedIsTrue DEF PagesInv
    <3> QED  BY <2>0, <3>2, <3>4, <1>g
  <2>3. CASE StaffOpens(s) \/ FirstReply(s)
    <3>1. PICK view : BecomesUntold(s, view)
      BY <2>3 DEF StaffOpens, FirstReply
    <3>2. Known(s)
      BY <2>3 DEF StaffOpens, FirstReply, Known
    <3>3. \A o \in Sessions : \/ late'[o] \subseteq late[o]
                              \/ Known(o) /\ late'[o] \subseteq late[o] \cup {server'[o]}
      <4>1. server'[s] = view /\ (late' = late \/ late' = [late EXCEPT ![s] = late[s] \cup {view}])
        BY <3>1, <1>t DEF BecomesUntold
      <4> QED  BY <4>1, <3>2, <1>t
    <3> QED  BY <2>0, <3>1, <3>3, <1>g DEF BecomesUntold, Joins
  <2>4. CASE CopyTold(s)
    <3>1. PICK view \in late[s] : /\ news' = Announced(s, view)
                                  /\ late' = [late EXCEPT ![s] = late[s] \ {view}]
      BY <2>4, <1>t DEF CopyTold
    <3>2. server' = server /\ now' = now /\ view \in View
      BY <2>4, <1>t DEF CopyTold, Unchanged
    <3>3. Holds(view, s)
      BY <3>1 DEF PagesInv, HeardInv, StoreInv
    <3>4. TrueOf(view, server'[s], now')
      BY <3>2, <3>3 DEF Holds
    <3>5. \A t \in Tabs : Joins(t)
      BY <3>1, <3>2, <3>4, AnnouncedIsTrue DEF PagesInv
    <3>6. \A o \in Sessions : late'[o] \subseteq late[o]
      BY <3>1, <1>t
    <3> QED  BY <2>0, <3>5, <3>6, <1>g
  <2> QED  BY <1>2, <2>1, <2>2, <2>3, <2>4 DEF ServerStep
<1> QED  BY <1>1, <1>2 DEF serverVars, vars, RemoveRoom

(* A step of one page is heard truly by all, if it is by that page.         *)
LEMMA OneHears ==
    ASSUME PagesInv, GuestTypes', [Next]_vars, NEW t \in Tabs, saved \subseteq saved', late' = late,
           stored' = None \/ stored' \in saved',
           \A u \in Tabs \ {t} : tabs'[u] = tabs[u] /\ Joins(u),
           Heard(t)'
    PROVE  HeardInv'
<1>1. StoreInv'
  BY StoreStays
<1>2. \A u \in Tabs : Heard(u)'
  BY OthersHear
<1> QED  BY <1>1, <1>2 DEF HeardInv

(* A page that takes its consultation to be over is right: by an answer to  *)
(* its request, by an event, or by its clock (isGuestSessionOpen, the       *)
(* session events, the clock's effect).                                     *)
LEMMA SeesTheEnd ==
    ASSUME PagesInv, NEW t \in Tabs
    PROVE  /\ tabs[t].screen = "ready" /\ (Terminal(t) \/ ExpiredByClock(t)) => Over(tabs[t].access)
           /\ /\ tabs[t].call = "restore"
              /\ \/ tabs[t].answer.kind = "gone"
                 \/ tabs[t].answer.kind = "session" /\ ~IsGuestSessionOpen(tabs[t].answer.view)
              => Over(tabs[t].access)
           /\ news[t] # <<>> /\ Head(news[t]).status \in {"CLOSED", "EXPIRED"} => Over(tabs[t].access)
<1>t. /\ tabs[t] \in Tab /\ news[t] \in Seq(View) /\ now \in Nat
      /\ tabs[t].view.expiresAt \in Nat /\ tabs[t].answer.view.expiresAt \in Nat
  <2>1. tabs[t] \in Tab /\ news[t] \in Seq(View) /\ now \in 0 .. MaxNow
    BY DEF PagesInv, GuestTypes, TypeOK, LimiterTypeOK
  <2>2. tabs[t].view \in View /\ tabs[t].answer.view \in View
    BY <2>1 DEF Tab, Answers
  <2> QED  BY <2>1, <2>2, LimiterAssumption DEF View
<1>s. Heard(t)
  BY DEF PagesInv, HeardInv
<1>1. ASSUME tabs[t].screen = "ready", Terminal(t) \/ ExpiredByClock(t) PROVE Over(tabs[t].access)
  <2>1. Holds(tabs[t].view, tabs[t].access)
    BY <1>1, <1>s DEF Heard, Shows
  <2> QED  BY <1>1, <1>t, <2>1 DEF Terminal, ExpiredByClock, Holds, TrueOf, Over, Ended
<1>2. ASSUME tabs[t].call = "restore", tabs[t].answer.kind = "session",
             ~IsGuestSessionOpen(tabs[t].answer.view)
      PROVE  Over(tabs[t].access)
  <2>1. Holds(tabs[t].answer.view, tabs[t].access)
    BY <1>2, <1>s DEF Heard
  <2> QED  BY <1>2, <1>t, <2>1 DEF IsGuestSessionOpen, Holds, TrueOf, Over, Ended
<1>3. ASSUME news[t] # <<>>, Head(news[t]).status \in {"CLOSED", "EXPIRED"} PROVE Over(tabs[t].access)
  <2>1. 1 \in 1 .. Len(news[t]) /\ Head(news[t]) = news[t][1]
    BY <1>3, <1>t
  <2>2. Holds(news[t][1], tabs[t].access)
    BY <2>1, <1>s DEF Heard
  <2> QED  BY <1>3, <2>1, <2>2 DEF Holds, TrueOf, Over
<1> QED  BY <1>1, <1>2, <1>3, <1>s DEF Heard

(* The answers of the server, and their loss, leave a page with the truth:  *)
(* a lapsed consultation is ended before it is answered, and the other      *)
(* pages that show it are told so (findOrThrow).                            *)
LEMMA AnswerHears ==
    ASSUME PagesInv, GuestTypes', [Next]_vars, NEW t \in Tabs,
           \/ LoseAnswer(t) \/ RefuseRequest(t) \/ GetSession(t)
           \/ VerifyAccess(t) \/ CreateSession(t)
    PROVE  HeardInv'
<1>t. /\ tabs \in [Tabs -> Tab] /\ tabs[t] \in Tab /\ news \in [Tabs -> Seq(View)]
      /\ server \in [Sessions -> View] /\ tabs[t].view \in View
      /\ tabs[t].call = "restore" => tabs[t].access \in Sessions
  BY DEF PagesInv, GuestTypes, TypeOK, CallsInv, Tab
<1>s. Heard(t) /\ Stage(t) /\ StoreInv
  BY DEF PagesInv, HeardInv, StagesInv
<1>k. \A s \in saved :
        /\ Over(s) => Ended(server'[s], now')
        /\ \A view \in View : Holds(view, s) => TrueOf(view, server'[s], now')
  BY ToldStaysTrue DEF PagesInv, Over, Holds
<1>n. MaxNow \in Nat  BY LimiterAssumption
<1> DEFINE row == server'[tabs[t].access]
<1>u. UNCHANGED <<late, stored, saved>>
  BY DEF LoseAnswer, RefuseRequest, GetSession, VerifyAccess, CreateSession, serverVars
<1>a. ASSUME NEW answer, Answer(t, answer), news'[t] = news[t], \A u \in Tabs \ {t} : Joins(u),
             tabs[t].call = "restore" => /\ answer.kind = "gone" => Ended(row, now')
                                         /\ answer.kind = "session" => TrueOf(answer.view, row, now')
      PROVE  HeardInv'
  <2>1. /\ tabs'[t].call = tabs[t].call /\ tabs'[t].screen = tabs[t].screen
        /\ tabs'[t].access = tabs[t].access /\ tabs'[t].view = tabs[t].view
        /\ tabs'[t].answer = answer
        /\ \A u \in Tabs \ {t} : tabs'[u] = tabs[u]
    BY <1>a, <1>t DEF Answer, Tab
  <2>2. Shows(t) => /\ tabs[t].access \in saved
                    /\ tabs[t].screen = "ready" => TrueOf(tabs[t].view, row, now')
    <3>1. Shows(t) => /\ tabs[t].access \in saved
                      /\ tabs[t].screen = "ready" => Holds(tabs[t].view, tabs[t].access)
      BY <1>s DEF Heard
    <3> QED  BY <3>1, <1>k, <1>t
  <2>3. ASSUME NEW i \in 1 .. Len(news[t]) PROVE TrueOf(news[t][i], row, now')
    <3>1. news[t] # <<>> /\ news[t][i] \in View
      BY <1>t, <2>3
    <3>2. Shows(t)
      BY <3>1, <1>s DEF Stage, Shows
    <3> QED  BY <2>3, <3>1, <3>2, <1>s, <1>k DEF Heard
  <2>4. Heard(t)'
    BY <1>a, <1>u, <2>1, <2>2, <2>3 DEF Heard, Shows, Holds, Over
  <2> QED  BY <1>a, <1>u, <1>s, <2>1, <2>4, OneHears DEF StoreInv
<1>1. CASE LoseAnswer(t) \/ RefuseRequest(t)
  <2>1. Answer(t, Plain("failed")) /\ news' = news
    BY <1>1 DEF LoseAnswer, RefuseRequest
  <2> QED  BY <2>1, <1>a, <1>n, RowTypes DEF Joins
<1>2. CASE VerifyAccess(t)
  <2>1. PICK kind \in {"verified", "gone"} : Answer(t, Plain(kind)) /\ news' = news
    BY <1>2 DEF VerifyAccess
  <2>2. tabs[t].call = "verify"
    BY <1>2 DEF VerifyAccess, Asked
  <2> QED  BY <2>1, <2>2, <1>a DEF Joins
<1>3. CASE GetSession(t)
  <2> DEFINE s == tabs[t].access
             found == IF Lapsed(s) THEN [server[s] EXCEPT !.status = "EXPIRED"] ELSE server[s]
  <2>0. tabs[t].call = "restore"
    BY <1>3 DEF GetSession, Asked
  <2>1. tabs[t].call = "restore" /\ s \in Sessions
    BY <2>0, <1>t
  <2>2. found \in View
    BY <2>1, <1>t DEF View
  <2>3. /\ Answer(t, IF found = NoSession THEN Plain("gone") ELSE SessionAnswer(s, found))
        /\ server' = [server EXCEPT ![s] = found]
        /\ news' = news \/ news' = Announced(s, found)
    BY <1>3 DEF GetSession
  <2> HIDE DEF s, found
  <2>4. news'[t] = news[t]
    <3>1. ~tabs[t].up
      BY <2>1, <1>s DEF Stage
    <3> QED  BY <2>3, <3>1 DEF Announced
  <2>5. server'[s] = found
    BY <2>1, <2>3, <1>t
  <2>6. TrueOf(found, server'[s], now')
    BY <2>5 DEF TrueOf, Ended
  <2>9. \A u \in Tabs \ {t} : Joins(u)
    <3>1. CASE news' = news
      BY <3>1 DEF Joins
    <3>2. CASE news' = Announced(s, found)
      BY <3>2, <2>1, <2>2, <2>6, AnnouncedIsTrue DEF PagesInv
    <3> QED  BY <2>3, <3>1, <3>2
  <2>7. CASE found = NoSession
    <3>1. Ended(server'[s], now') /\ Plain("gone").kind = "gone"
      BY <2>5, <2>7, <1>n, RowTypes DEF Ended, NoSession
    <3>2. Answer(t, Plain("gone"))
      BY <2>3, <2>7
    <3> QED  BY <2>1, <2>4, <2>9, <3>1, <3>2, <1>a DEF s
  <2>8. CASE found # NoSession
    <3>1. Answer(t, SessionAnswer(s, found))
      BY <2>3, <2>8
    <3>2. SessionAnswer(s, found).kind = "session" /\ SessionAnswer(s, found).view = found
      BY <2>1, <2>2, <1>n, RowTypes
    <3> QED  BY <2>1, <2>4, <2>6, <2>9, <3>1, <3>2, <1>a DEF s
  <2> QED  BY <2>7, <2>8
<1>4. CASE CreateSession(t)
  <2>1. tabs[t].call = "create" /\ news' = news
    BY <1>4 DEF CreateSession, Asked
  <2>2. \E answer : Answer(t, answer)
    BY <1>4 DEF CreateSession
  <2> QED  BY <2>1, <2>2, <1>a DEF Joins
<1> QED  BY <1>1, <1>2, <1>3, <1>4

(* A page comes by the token of a consultation only where it is kept, and   *)
(* takes what it hears for what it is (prepare, startConsultation, the      *)
(* session events and the clock's effect).                                  *)
LEMMA PageHears ==
    ASSUME PagesInv, GuestTypes', [Next]_vars, NEW t \in Tabs,
           \/ Visit(t) \/ Restored(t) \/ Start(t) \/ Verified(t) \/ Started(t) \/ NotStarted(t)
           \/ Connect(t) \/ Disconnect(t) \/ Send(t) \/ SessionEvent(t) \/ ClockEffect(t)
    PROVE  HeardInv'
<1>t. /\ tabs \in [Tabs -> Tab] /\ tabs[t] \in Tab /\ news \in [Tabs -> Seq(View)]
      /\ stored \in Sessions \cup {None} /\ saved \subseteq Sessions /\ now \in Nat
      /\ tabs[t].view \in View /\ tabs[t].answer.view \in View
  <2>1. /\ tabs \in [Tabs -> Tab] /\ tabs[t] \in Tab /\ news \in [Tabs -> Seq(View)]
        /\ stored \in Sessions \cup {None} /\ saved \subseteq Sessions /\ now \in 0 .. MaxNow
    BY DEF PagesInv, GuestTypes, TypeOK, LimiterTypeOK
  <2>2. tabs[t].view \in View /\ tabs[t].answer.view \in View
    BY <2>1 DEF Tab, Answers
  <2> QED  BY <2>1, <2>2, LimiterAssumption
<1>s. Heard(t) /\ Stage(t) /\ StoreInv
  BY DEF PagesInv, HeardInv, StagesInv
<1>u. UNCHANGED <<now, server, late>>
  BY DEF Visit, Restored, Start, Verified, Started, NotStarted, Connect, Disconnect, Send,
         SessionEvent, ClockEffect, serverVars
<1>o. \A u \in Tabs \ {t} : tabs'[u] = tabs[u] /\ Joins(u)
  <2>1. \A u \in Tabs \ {t} : tabs'[u] = tabs[u] /\ news'[u] = news[u]
    <3>1. CASE Visit(t) \/ Disconnect(t) \/ SessionEvent(t)
      BY <3>1, <1>t DEF Visit, Disconnect, SessionEvent
    <3>2. CASE Restored(t) \/ Start(t) \/ Started(t) \/ Connect(t) \/ Send(t)
      BY <3>2, <1>t DEF Restored, Start, Started, Connect, Send
    <3>3. CASE Verified(t) \/ NotStarted(t) \/ ClockEffect(t)
      BY <3>3, <1>t DEF Verified, NotStarted, ClockEffect
    <3> QED  BY <3>1, <3>2, <3>3
  <2> QED  BY <2>1 DEF Joins
<1>g. ASSUME Heard(t)', saved \subseteq saved', stored' = None \/ stored' \in saved' PROVE HeardInv'
  BY <1>g, <1>u, <1>o, OneHears
<1>v. ASSUME Heard(t)', saved' = saved, stored' \in {None, stored} PROVE HeardInv'
  BY <1>g, <1>v, <1>s DEF StoreInv
<1>e. ASSUME NEW seq, seq = <<>> PROVE 1 .. Len(seq) = {}
  BY <1>e
<1>q. ASSUME news'[t] = <<>>, tabs'[t].call # "restore", tabs'[t].screen # "ready"
      PROVE  Heard(t)'
  BY <1>q DEF Heard, Shows
<1>r. ClosedTab.call = "" /\ ClosedTab.answer.kind = "none" /\ ClosedTab \in Tab
  BY LimiterAssumption, RowTypes DEF ClosedTab, Plain
<1>1. CASE Visit(t)
  <2>1. /\ news'[t] = <<>> /\ tabs'[t].answer.kind = "none" /\ tabs'[t].access = stored
        /\ tabs'[t].screen # "ready"
        /\ tabs'[t].call = IF stored = None THEN "" ELSE "restore"
        /\ UNCHANGED <<stored, saved>>
    BY <1>1, <1>t, <1>r DEF Visit, Tab
  <2>2. stored # None => stored \in saved
    BY <1>s DEF StoreInv
  <2>3. Heard(t)'
    <3>1. 1 .. Len(news'[t]) = {}
      BY <2>1, <1>e
    <3> QED  BY <2>1, <2>2, <3>1 DEF Heard, Shows
  <2> QED  BY <2>1, <2>3, <1>v
<1>2. CASE Restored(t)
  <2> DEFINE answer == tabs[t].answer
             open == answer.kind = "session" /\ IsGuestSessionOpen(answer.view)
  <2>1. /\ tabs[t].call = "restore" /\ news' = news /\ news[t] = <<>> /\ saved' = saved
        /\ tabs[t].access \in saved /\ stored' \in {None, stored}
    BY <1>2, <1>s DEF Restored, Answered, Stage, Heard, Shows
  <2>3. CASE open
    <3>1. /\ tabs'[t].access = tabs[t].access /\ tabs'[t].view = answer.view
          /\ tabs'[t].call = ""
      BY <1>2, <1>t, <2>3 DEF Restored, Tab
    <3>2. Holds(answer.view, tabs[t].access)
      BY <1>s, <2>1, <2>3 DEF Heard
    <3>3. Heard(t)'
      <4>1. 1 .. Len(news'[t]) = {}
        BY <2>1, <1>e
      <4> QED  BY <1>u, <2>1, <3>1, <3>2, <4>1 DEF Heard, Shows, Holds
    <3> QED  BY <2>1, <3>3, <1>v
  <2>4. CASE ~open
    <3>1. tabs'[t].call = "" /\ tabs'[t].screen # "ready"
      BY <1>2, <1>t, <1>r, <2>4 DEF Restored, Tab
    <3> QED  BY <2>1, <3>1, <1>q, <1>v
  <2> QED  BY <2>3, <2>4
<1>3. CASE Start(t) \/ Verified(t) \/ NotStarted(t)
  <2>1. /\ tabs[t].screen = "consent" /\ news' = news /\ UNCHANGED <<stored, saved>>
    BY <1>3, <1>s, <1>t DEF Start, Verified, NotStarted, Answered, Stage
  <2>2. news[t] = <<>>
    BY <2>1, <1>s DEF Stage
  <2>3. tabs'[t].screen # "ready" /\ tabs'[t].call # "restore"
    <3>1. CASE Start(t)
      BY <3>1, <2>1, <1>t DEF Start, Tab
    <3>2. CASE Verified(t)
      <4>1. tabs' = [tabs EXCEPT ![t] = [@ EXCEPT !.call = "create", !.answer = Plain("none")]]
        BY <3>2, <1>t DEF Verified
      <4> QED  BY <4>1, <2>1, <1>t DEF Tab
    <3>3. CASE NotStarted(t)
      <4>1. tabs' = [tabs EXCEPT ![t] =
                 [@ EXCEPT !.screen = "error", !.call = "", !.answer = Plain("none")]]
        BY <3>3, <1>t DEF NotStarted
      <4> QED  BY <4>1, <1>t DEF Tab
    <3> QED  BY <1>3, <3>1, <3>2, <3>3
  <2> QED  BY <2>1, <2>2, <2>3, <1>q, <1>v
<1>5. CASE Started(t)
  <2> DEFINE s == tabs[t].answer.id
  <2>1. /\ tabs[t].call = "create"
        /\ stored' = s /\ saved' = saved \cup {s} /\ news' = news
        /\ tabs'[t].screen = "ready" /\ tabs'[t].access = s /\ tabs'[t].call = ""
        /\ tabs'[t].view = NewView
    BY <1>5, <1>t DEF Started, Answered, Tab
  <2>2. news[t] = <<>>
    BY <2>1, <1>s DEF Stage
  <2> HIDE DEF s
  <2>3. Holds(NewView, s)
    BY DEF Holds, TrueOf, NewView
  <2>4. Heard(t)'
    <3>1. 1 .. Len(news'[t]) = {}
      BY <2>1, <2>2, <1>e
    <3> QED  BY <1>u, <2>1, <2>3, <3>1 DEF Heard, Shows, Holds
  <2> QED  BY <2>1, <2>4, <1>g
<1>6. CASE Connect(t) \/ Disconnect(t) \/ Send(t)
  <2>1. /\ tabs'[t].screen = tabs[t].screen /\ tabs'[t].call = tabs[t].call
        /\ tabs'[t].access = tabs[t].access /\ tabs'[t].view = tabs[t].view
        /\ tabs'[t].answer = tabs[t].answer /\ UNCHANGED <<stored, saved>>
    <3>1. ASSUME NEW up, tabs' = [tabs EXCEPT ![t].up = up]
          PROVE  /\ tabs'[t].screen = tabs[t].screen /\ tabs'[t].call = tabs[t].call
                 /\ tabs'[t].access = tabs[t].access /\ tabs'[t].view = tabs[t].view
                 /\ tabs'[t].answer = tabs[t].answer
      BY <3>1, <1>t DEF Tab
    <3>2. CASE Connect(t)
      BY <3>1, <3>2 DEF Connect
    <3>3. CASE Disconnect(t)
      BY <3>1, <3>3 DEF Disconnect
    <3>4. CASE Send(t)
      BY <3>4 DEF Send
    <3> QED  BY <1>6, <3>2, <3>3, <3>4
  <2>2. news'[t] = news[t] \/ news'[t] = <<>>
    BY <1>6, <1>t DEF Connect, Disconnect, Send
  <2>3. Heard(t)'
    BY <1>s, <1>u, <2>1, <2>2 DEF Heard, Shows, Holds, Over
  <2> QED  BY <2>1, <2>3, <1>v
<1>7. CASE SessionEvent(t)
  <2> DEFINE view == Head(news[t])
             later == Tail(news[t])
  <2>1. /\ news[t] \in Seq(View) /\ news[t] # <<>> /\ saved' = saved /\ stored' \in {None, stored}
    BY <1>7, <1>t DEF SessionEvent
  <2>2. /\ tabs'[t].screen = tabs[t].screen /\ tabs'[t].call = tabs[t].call
        /\ tabs'[t].access = tabs[t].access /\ tabs'[t].view = view
        /\ tabs'[t].answer = tabs[t].answer /\ news'[t] = later
    BY <1>7, <1>t DEF SessionEvent, Tab
  <2>3. tabs[t].screen = "ready" /\ tabs[t].access \in saved /\ tabs[t].call # "restore"
    BY <2>1, <1>s DEF Stage, Heard, Shows
  <2>4. Holds(view, tabs[t].access) /\ \A i \in 1 .. Len(later) : Holds(later[i], tabs[t].access)
    BY <2>1, <1>s DEF Heard
  <2> HIDE DEF view, later
  <2>7. Heard(t)'
    BY <1>u, <2>1, <2>2, <2>3, <2>4 DEF Heard, Shows, Holds
  <2> QED  BY <2>1, <2>7, <1>v
<1>8. CASE ClockEffect(t)
  <2> DEFINE view == [tabs[t].view EXCEPT !.status = IF Terminal(t) THEN @ ELSE "EXPIRED"]
  <2>1. /\ tabs' = [tabs EXCEPT ![t].view = view] /\ news' = news /\ saved' = saved /\ stored' = None
        /\ tabs[t].screen = "ready" /\ (Terminal(t) \/ ExpiredByClock(t))
    BY <1>8, <1>t DEF ClockEffect, View
  <2>2. /\ tabs'[t].screen = tabs[t].screen /\ tabs'[t].call = tabs[t].call
        /\ tabs'[t].access = tabs[t].access /\ tabs'[t].view = view
        /\ tabs'[t].answer = tabs[t].answer
    BY <2>1, <1>t DEF Tab
  <2>3. tabs[t].access \in saved /\ tabs[t].call # "restore"
    BY <2>1, <1>s DEF Heard, Shows, Stage
  <2>4. Over(tabs[t].access)
    BY <2>1, SeesTheEnd
  <2> HIDE DEF view
  <2>6. Holds(view, tabs[t].access)
    BY <2>4 DEF Holds, TrueOf, Over
  <2>8. Heard(t)'
    BY <1>s, <1>u, <2>1, <2>2, <2>3, <2>6 DEF Heard, Shows, Holds
  <2> QED  BY <2>1, <2>8, <1>v
<1> QED  BY <1>1, <1>2, <1>3, <1>5, <1>6, <1>7, <1>8

(* The room is given a consultation only while none is open, and only then  *)
(* is one opened (create).                                                  *)
LEMMA OneOpenStays ==
    ASSUME GuestTypes, OneOpen, [Next]_vars
    PROVE  OneOpen'
<1>t. server \in [Sessions -> View]
  BY DEF GuestTypes, TypeOK
<1>1. ASSUME \A s \in Sessions : Open(s)' => Open(s) PROVE OneOpen'
  BY <1>1 DEF OneOpen
<1>2. ASSUME NEW s \in Sessions, server' = Created(s), ~ \E o \in Sessions : Open(o)
      PROVE  OneOpen'
  <2>1. \A a \in Sessions : a # s => server'[a] = server[a]
    BY <1>2, <1>t DEF Created
  <2> QED  BY <1>2, <2>1 DEF OneOpen, Open
<1>3. CASE server' = server
  BY <1>1, <1>3 DEF Open
<1>4. CASE RemoveRoom
  BY <1>1, <1>4 DEF RemoveRoom, NoSession, Open
<1>5. ASSUME NEW s \in Sessions, ServerStep(s) PROVE OneOpen'
  <2>1. CASE RivalStarts(s)
    BY <2>1, <1>2 DEF RivalStarts
  <2>2. CASE CopyTold(s)
    BY <2>2, <1>3 DEF CopyTold
  <2>3. CASE StaffOpens(s) \/ FirstReply(s) \/ StaffCloses(s) \/ Expire(s) \/ Retention(s)
    <3>1. /\ \A a \in Sessions : a # s => server'[a] = server[a]
          /\ Open(s)' => Open(s)
      <4>1. CASE StaffOpens(s) \/ StaffCloses(s)
        BY <4>1, <1>t DEF StaffOpens, StaffCloses, Becomes, BecomesUntold, Open
      <4>2. CASE FirstReply(s) \/ Retention(s)
        BY <4>2, <1>t DEF FirstReply, BecomesUntold, Retention, Open, NoSession
      <4>3. CASE Expire(s)
        BY <4>3, <1>t DEF Expire, Becomes, Lapsed, Open
      <4> QED  BY <2>3, <4>1, <4>2, <4>3
    <3>2. \A a \in Sessions : Open(a)' => Open(a)
      BY <3>1 DEF Open
    <3> QED  BY <3>2, <1>1
  <2> QED  BY <1>5, <2>1, <2>2, <2>3 DEF ServerStep
<1>6. ASSUME NEW t \in Tabs, GetSession(t) PROVE OneOpen'
  <2> DEFINE s == tabs[t].access
             found == IF Lapsed(s) THEN [server[s] EXCEPT !.status = "EXPIRED"] ELSE server[s]
  <2>1. s \in Sessions /\ server' = [server EXCEPT ![s] = found]
    BY <1>6 DEF GetSession, Asked, GuestTypes, CallsInv
  <2>2. found = server[s] \/ found.status = "EXPIRED"
    BY <2>1, <1>t DEF View
  <2> HIDE DEF s, found
  <2>3. \A a \in Sessions : Open(a)' => Open(a)
    BY <2>1, <2>2, <1>t DEF Open
  <2> QED  BY <2>3, <1>1
<1>7. ASSUME NEW t \in Tabs, CreateSession(t) PROVE OneOpen'
  BY <1>7, <1>2, <1>3 DEF CreateSession
<1>8. ASSUME NEW t \in Tabs, TabStep(t), ~GetSession(t), ~CreateSession(t) PROVE OneOpen'
  <2>1. server' = server
    BY <1>8 DEF TabStep, Visit, LoseAnswer, RefuseRequest, Restored, Start, VerifyAccess, Verified,
       Started, NotStarted, Connect, Disconnect, Send, SessionEvent, ClockEffect, serverVars
  <2> QED  BY <2>1, <1>3
<1> QED  BY <1>3, <1>4, <1>5, <1>6, <1>7, <1>8 DEF Next, serverVars, vars

(* Every step keeps what pages have heard true.                             *)
LEMMA NextHears ==
    ASSUME PagesInv, GuestTypes', [Next]_vars
    PROVE  HeardInv'
<1>1. ASSUME NEW t \in Tabs, TabStep(t) PROVE HeardInv'
  <2>2. CASE LoseAnswer(t) \/ RefuseRequest(t) \/ GetSession(t) \/ VerifyAccess(t) \/ CreateSession(t)
    BY <2>2, AnswerHears
  <2>3. CASE ~(LoseAnswer(t) \/ RefuseRequest(t) \/ GetSession(t) \/ VerifyAccess(t) \/ CreateSession(t))
    BY <1>1, <2>3, PageHears DEF TabStep
  <2> QED  BY <2>2, <2>3
<1> QED  BY <1>1, ServerHears DEF Next

(* What the pages of a device have been told of their consultations, and    *)
(* what they conclude from it, is true, with any number of tabs.            *)
THEOREM PagesHearTruth == Spec => []PagesInv
<1>1. Init /\ LimiterInv => PagesInv
  <2> SUFFICES ASSUME Init, LimiterInv PROVE PagesInv  OBVIOUS
  <2>1. GuestTypes
    BY InitTypes
  <2>2. /\ tabs = [t \in Tabs |-> ClosedTab] /\ news = [t \in Tabs |-> <<>>]
        /\ late = [s \in Sessions |-> {}] /\ stored = None
        /\ server = [s \in Sessions |-> NoSession]
    BY DEF Init
  <2>3. ASSUME NEW t \in Tabs
        PROVE  /\ news[t] = <<>> /\ tabs[t].screen = "closed" /\ tabs[t].call = ""
               /\ tabs[t].up = FALSE
    BY <2>2 DEF ClosedTab
  <2>4. StagesInv /\ \A t \in Tabs : Heard(t)
    <3>0. 1 .. Len(<<>>) = {}
      OBVIOUS
    <3>1. \A t \in Tabs : 1 .. Len(news[t]) = {}
      BY <2>3, <3>0
    <3> QED  BY <2>3, <3>1 DEF StagesInv, Stage, Heard, Shows
  <2>5. StoreInv /\ OneOpen
    BY <2>2 DEF StoreInv, OneOpen, Open, NoSession
  <2> QED  BY <2>1, <2>4, <2>5 DEF PagesInv, HeardInv
<1>2. PagesInv /\ LimiterInv' /\ [Next]_vars => PagesInv'
  <2> SUFFICES ASSUME PagesInv, LimiterInv', [Next]_vars PROVE PagesInv'  OBVIOUS
  <2>1. GuestTypes'
    BY NextTypes DEF PagesInv, LimiterInv
  <2> QED  BY <2>1, NextStages, NextHears, OneOpenStays DEF PagesInv
<1> QED  BY <1>1, <1>2, GuestLimiterCorrect, PTL DEF Spec

-----------------------------------------------------------------------------
(* Who may forget the token.                                               *)

(* Only four steps write the store, and each of them for a consultation     *)
(* that is over, or one that has just been made.                            *)
LEMMA WhoForgets ==
    ASSUME PagesInv, [Next]_vars, stored' # stored
    PROVE  \E t \in Tabs : /\ TabStep(t) /\ Concern(t) \in Sessions
                           /\ \/ stored' = Concern(t) /\ tabs[t].call = "create"
                              \/ Shows(t) /\ stored' = None /\ Over(Concern(t))
<1>1. PICK t \in Tabs : TabStep(t)
  BY DEF Next, RemoveRoom, ServerStep, StaffOpens, FirstReply, CopyTold, StaffCloses, Expire,
         Retention, RivalStarts, Unchanged, vars
<1>2. Restored(t) \/ Started(t) \/ SessionEvent(t) \/ ClockEffect(t)
  BY <1>1 DEF TabStep, Visit, LoseAnswer, RefuseRequest, GetSession, Start, VerifyAccess, Verified,
              CreateSession, NotStarted, Connect, Disconnect, Send
<1>s. Heard(t) /\ Stage(t) /\ saved \subseteq Sessions
  BY DEF PagesInv, HeardInv, StagesInv, GuestTypes, TypeOK
<1>3. CASE Started(t)
  <2>1. tabs[t].call = "create" /\ tabs[t].answer.kind = "session" /\ stored' = tabs[t].answer.id
    BY <1>3 DEF Started, Answered
  <2>2. tabs[t].answer.id \in Sessions
    BY <2>1 DEF PagesInv, GuestTypes, CallsInv
  <2> QED  BY <1>1, <2>1, <2>2 DEF Concern
<1>4. ASSUME Shows(t), tabs[t].call # "create", stored' = None, Over(tabs[t].access)
      PROVE  /\ Concern(t) \in Sessions /\ Shows(t) /\ stored' = None /\ Over(Concern(t))
  BY <1>4, <1>s DEF Concern, Heard
<1>5. CASE Restored(t)
  <2>1. /\ tabs[t].call = "restore" /\ stored' = None
        /\ \/ tabs[t].answer.kind = "gone"
           \/ tabs[t].answer.kind = "session" /\ ~IsGuestSessionOpen(tabs[t].answer.view)
    BY <1>5 DEF Restored, Answered
  <2> QED  BY <1>1, <1>4, <2>1, SeesTheEnd DEF Shows
<1>6. CASE SessionEvent(t)
  <2>1. news[t] # <<>> /\ stored' = None /\ Head(news[t]).status \in {"CLOSED", "EXPIRED"}
    BY <1>6 DEF SessionEvent
  <2>2. Shows(t) /\ tabs[t].call # "create"
    BY <2>1, <1>s DEF Stage, Shows
  <2> QED  BY <1>1, <1>4, <2>1, <2>2, SeesTheEnd
<1>7. CASE ClockEffect(t)
  <2>1. tabs[t].screen = "ready" /\ (Terminal(t) \/ ExpiredByClock(t)) /\ stored' = None
    BY <1>7 DEF ClockEffect
  <2>2. Shows(t) /\ tabs[t].call # "create"
    BY <2>1, <1>s DEF Stage, Shows
  <2> QED  BY <1>1, <1>4, <2>1, <2>2, SeesTheEnd
<1> QED  BY <1>2, <1>3, <1>5, <1>6, <1>7

(* With any number of tabs, whatever fails, is refused, lost or late, the   *)
(* token of a consultation that goes on is only put out by a page of the    *)
(* same device about an earlier one that is over: an old tab, or an answer  *)
(* of create that comes after the next consultation has been made.          *)
THEOREM OldPagesForget == Spec => OnlyOldPagesForget
<1> DEFINE Allowable == \A s \in saved : stored = s /\ Running(s) /\ stored' # s =>
                \E t \in Tabs : TabStep(t) /\ Concern(t) \in Sessions \ {s} /\ ~Running(Concern(t))
<1>1. PagesInv /\ [Next]_vars => Allowable
  <2> SUFFICES ASSUME PagesInv, [Next]_vars, NEW s \in saved, stored = s, Running(s), stored' # s
               PROVE  \E t \in Tabs : TabStep(t) /\ Concern(t) \in Sessions \ {s} /\ ~Running(Concern(t))
    OBVIOUS
  <2>0. \A o : Over(o) <=> ~Running(o)
    BY DEF Over, Ended, Running, Open, Lapsed
  <2>1. PICK t \in Tabs : /\ TabStep(t) /\ Concern(t) \in Sessions
                          /\ stored' = Concern(t) \/ (stored' = None /\ Over(Concern(t)))
    BY WhoForgets
  <2>2. s \in Sessions
    BY DEF PagesInv, GuestTypes, TypeOK
  <2>3. \A o \in Sessions : o # s => Over(o)
    <3>1. \A o \in Sessions : ~Over(o) => Open(o)
      BY DEF Over, Ended, Open
    <3> QED  BY <2>0, <2>2, <3>1 DEF PagesInv, OneOpen
  <2> QED  BY <2>0, <2>1, <2>2, <2>3
<1>2. Spec => [][Allowable]_vars
  BY <1>1, PagesHearTruth, PTL DEF Spec
<1> QED  BY <1>2 DEF OnlyOldPagesForget

-----------------------------------------------------------------------------
(* A token put out stays out.                                              *)

\* The page has been given a consultation that it has not kept yet.
Given(t) == tabs[t].call = "create" /\ tabs[t].answer.kind = "session"

\* Such a consultation is new to the device, has a row as long as the room is there,
\* and was given to no other tab.
FreshInv ==
    \A t \in Tabs : Given(t) =>
        /\ tabs[t].answer.id \notin saved
        /\ roomExists => server[tabs[t].answer.id].status # "none"
        /\ \A u \in Tabs : u # t /\ Given(u) => tabs[u].answer.id # tabs[t].answer.id

\* The token of a consultation that the device has kept and put out is not kept again.
ForgottenStays == [][\A s \in saved : stored # s => stored' # s]_vars

(* Only the server's answer to create gives a page a consultation, and a    *)
(* tab's step changes no other tab (createSession).                         *)
LEMMA WhoIsGiven ==
    ASSUME GuestTypes, NEW t \in Tabs, TabStep(t)
    PROVE  /\ \A u \in Tabs : u # t => tabs'[u] = tabs[u]
           /\ Given(t)' => \/ Given(t) /\ tabs'[t].answer = tabs[t].answer
                           \/ CreateSession(t)
<1> DEFINE Goal == /\ \A u \in Tabs : u # t => tabs'[u] = tabs[u]
                   /\ Given(t)' => \/ Given(t) /\ tabs'[t].answer = tabs[t].answer
                                   \/ CreateSession(t)
<1>t. tabs \in [Tabs -> Tab] /\ tabs[t] \in Tab
  BY DEF GuestTypes, TypeOK
<1>k. \A kind \in {"none", "verified", "gone", "failed"} : Plain(kind).kind = kind
  BY LimiterAssumption, RowTypes
<1>r. ClosedTab.call = "" /\ ClosedTab \in Tab
  BY LimiterAssumption, RowTypes DEF ClosedTab
<1>1. CASE Visit(t)
  <2>1. tabs'[t].call \in {"", "restore"}
    BY <1>1, <1>t DEF Visit, ClosedTab
  <2> QED  BY <1>1, <1>t, <2>1 DEF Visit, Given
<1>2. CASE LoseAnswer(t) \/ RefuseRequest(t) \/ VerifyAccess(t)
  <2>1. PICK kind \in {"none", "verified", "gone", "failed"} : tabs' = [tabs EXCEPT ![t].answer = Plain(kind)]
    BY <1>2 DEF LoseAnswer, RefuseRequest, VerifyAccess, Answer
  <2>2. tabs'[t].answer = Plain(kind)
    BY <2>1, <1>t DEF Tab
  <2> QED  BY <1>t, <1>k, <2>1, <2>2 DEF Given
<1>3. CASE GetSession(t)
  <2>1. PICK answer : tabs' = [tabs EXCEPT ![t].answer = answer]
    BY <1>3 DEF GetSession, Answer
  <2>2. tabs'[t].call = "restore"
    BY <2>1, <1>3, <1>t DEF GetSession, Asked, Tab
  <2> QED  BY <1>t, <2>1, <2>2 DEF Given
<1>4. CASE CreateSession(t)
  <2>1. PICK answer : tabs' = [tabs EXCEPT ![t].answer = answer]
    BY <1>4 DEF CreateSession, Answer
  <2> QED  BY <1>4, <1>t, <2>1
<1>5. CASE Restored(t)
  <2>1. tabs'[t].call = ""
    BY <1>5, <1>t, <1>r DEF Restored, Tab
  <2> QED  BY <1>5, <1>t, <2>1 DEF Restored, Given
<1>6. CASE Start(t)
  <2>1. tabs'[t].call = "verify"
    BY <1>6, <1>t DEF Start, Tab
  <2> QED  BY <1>6, <1>t, <2>1 DEF Start, Given
<1>7. CASE Verified(t)
  <2>1. tabs' = [tabs EXCEPT ![t] = [@ EXCEPT !.call = "create", !.answer = Plain("none")]]
    BY <1>7, <1>t DEF Verified
  <2>2. tabs'[t].answer = Plain("none")
    BY <2>1, <1>t DEF Tab
  <2> QED  BY <1>t, <1>k, <2>1, <2>2 DEF Given
<1>8. CASE Started(t)
  <2>1. tabs'[t].call = ""
    BY <1>8, <1>t DEF Started, Tab
  <2> QED  BY <1>8, <1>t, <2>1 DEF Started, Given
<1>9. CASE NotStarted(t)
  <2>1. tabs' = [tabs EXCEPT ![t] = [@ EXCEPT !.screen = "error", !.call = "", !.answer = Plain("none")]]
    BY <1>9, <1>t DEF NotStarted
  <2>2. tabs'[t].call = ""
    BY <2>1, <1>t DEF Tab
  <2> QED  BY <1>t, <2>1, <2>2 DEF Given
<1>10. CASE Connect(t) \/ Disconnect(t)
  <2>1. PICK up \in BOOLEAN : tabs' = [tabs EXCEPT ![t].up = up]
    BY <1>10 DEF Connect, Disconnect
  <2> QED  BY <1>t, <2>1 DEF Tab, Given
<1>11. CASE SessionEvent(t) \/ ClockEffect(t)
  <2>1. PICK view : tabs' = [tabs EXCEPT ![t].view = view]
    <3>1. CASE SessionEvent(t)
      BY <3>1 DEF SessionEvent
    <3>2. CASE ClockEffect(t)
      <4> DEFINE view == [tabs[t].view EXCEPT !.status = IF Terminal(t) THEN @ ELSE "EXPIRED"]
      <4>1. tabs' = [tabs EXCEPT ![t].view = view]
        BY <3>2, <1>t DEF ClockEffect
      <4> QED  BY <4>1
    <3> QED  BY <1>11, <3>1, <3>2
  <2> QED  BY <1>t, <2>1 DEF Tab, Given
<1>12. CASE Send(t)
  BY <1>12 DEF Send, Given
<1> QED  BY <1>1, <1>2, <1>3, <1>4, <1>5, <1>6, <1>7, <1>8, <1>9, <1>10, <1>11, <1>12 DEF TabStep

(* Of a consultation the device does not know, only the removal of the room *)
(* takes the row.                                                           *)
LEMMA NewRowsStay ==
    ASSUME GuestTypes, [Next]_vars, NEW s \in Sessions \ saved, server[s].status # "none", roomExists'
    PROVE  server'[s].status # "none"
<1>t. server \in [Sessions -> View] /\ server[s] \in View
  BY DEF GuestTypes, TypeOK
<1>1. CASE server' = server
  BY <1>1
<1>2. ~RemoveRoom
  BY DEF RemoveRoom
<1>3. ASSUME NEW o \in Sessions, ServerStep(o) PROVE server'[s].status # "none"
  <2>1. CASE o # s
    <3>1. server'[s] = server[s]
      BY <1>3, <1>t, <2>1 DEF ServerStep, StaffOpens, FirstReply, CopyTold, StaffCloses, Expire,
         Retention, RivalStarts, Becomes, BecomesUntold, Created
    <3> QED  BY <3>1
  <2>2. CASE o = s
    <3>1. ~RivalStarts(s) /\ ~Retention(s)
      BY DEF RivalStarts, IsFree, Retention
    <3>2. server'[s].status \in {server[s].status, "ACTIVE", "CLOSED", "EXPIRED"}
      BY <1>3, <1>t, <2>2, <3>1 DEF ServerStep, StaffOpens, FirstReply, CopyTold, StaffCloses,
         Expire, Becomes, BecomesUntold, View
    <3> QED  BY <3>2
  <2> QED  BY <2>1, <2>2
<1>4. ASSUME NEW t \in Tabs, GetSession(t) PROVE server'[s].status # "none"
  <2> DEFINE a == tabs[t].access
             found == IF Lapsed(a) THEN [server[a] EXCEPT !.status = "EXPIRED"] ELSE server[a]
  <2>1. a \in Sessions
    BY <1>4 DEF GetSession, Asked, GuestTypes, CallsInv
  <2>2. found = server[a] \/ found.status = "EXPIRED"
    BY <2>1, <1>t DEF View
  <2>3. server' = [server EXCEPT ![a] = found]
    BY <1>4 DEF GetSession
  <2> HIDE DEF a, found
  <2> QED  BY <2>1, <2>2, <2>3, <1>t
<1>5. ASSUME NEW t \in Tabs, CreateSession(t) PROVE server'[s].status # "none"
  <2>1. server' = server \/ \E o \in Sessions : IsFree(o) /\ server' = Created(o)
    BY <1>5 DEF CreateSession
  <2> QED  BY <2>1, <1>t DEF IsFree, Created
<1>6. ASSUME NEW t \in Tabs, TabStep(t), ~GetSession(t), ~CreateSession(t) PROVE server' = server
  BY <1>6 DEF TabStep, Visit, LoseAnswer, RefuseRequest, Restored, Start, VerifyAccess, Verified, Started,
              NotStarted, Connect, Disconnect, Send, SessionEvent, ClockEffect, serverVars
<1>7. CASE UNCHANGED serverVars
  BY <1>7 DEF serverVars
<1> QED  BY <1>1, <1>2, <1>3, <1>4, <1>5, <1>6, <1>7 DEF Next, vars

(* What a page is given is always new.                                      *)
LEMMA FreshStays ==
    ASSUME GuestTypes, GuestTypes', FreshInv, [Next]_vars
    PROVE  FreshInv'
<1> DEFINE id(t) == tabs[t].answer.id
<1>t. /\ server \in [Sessions -> View] /\ tabs \in [Tabs -> Tab]
      /\ \A t \in Tabs : Given(t) => id(t) \in Sessions
  BY DEF GuestTypes, TypeOK, CallsInv, Given
<1>s. roomExists' => roomExists
  BY DEF Next, RemoveRoom, ServerStep, StaffOpens, FirstReply, CopyTold, StaffCloses, Expire,
         Retention, RivalStarts, Unchanged, TabStep, Visit, LoseAnswer, RefuseRequest, GetSession, Restored,
         Start, VerifyAccess, Verified, CreateSession, Started, NotStarted, Connect, Disconnect, Send,
         SessionEvent, ClockEffect, serverVars, vars
<1>r. ASSUME NEW s \in Sessions \ saved, roomExists => server[s].status # "none", roomExists'
      PROVE  server'[s].status # "none"
  BY <1>r, <1>s, NewRowsStay
<1>1. ASSUME UNCHANGED <<tabs, saved>> PROVE FreshInv'
  BY <1>1, <1>r, <1>t DEF FreshInv, Given
<1>2. ASSUME NEW t \in Tabs, TabStep(t), ~CreateSession(t), ~Started(t) PROVE FreshInv'
  <2>1. saved' = saved
    BY <1>2 DEF TabStep, Visit, LoseAnswer, RefuseRequest, GetSession, Restored, Start, VerifyAccess, Verified,
                NotStarted, Connect, Disconnect, Send, SessionEvent, ClockEffect
  <2>2. ASSUME NEW u \in Tabs, Given(u)' PROVE Given(u) /\ id(u)' = id(u)
    <3>1. CASE u = t
      BY <1>2, <2>2, <3>1, WhoIsGiven
    <3>2. CASE u # t
      <4>1. tabs'[u] = tabs[u]
        BY <1>2, <3>2, WhoIsGiven
      <4> QED  BY <2>2, <4>1 DEF Given
    <3> QED  BY <3>1, <3>2
  <2> QED  BY <1>r, <1>t, <2>1, <2>2 DEF FreshInv
<1>3. ASSUME NEW t \in Tabs, Started(t) PROVE FreshInv'
  <2>1. saved' = saved \cup {id(t)} /\ Given(t) /\ ~Given(t)'
    <3>1. tabs'[t].call = ""
      BY <1>3, <1>t DEF Started, Tab
    <3> QED  BY <1>3, <3>1 DEF Started, Answered, Given
  <2>2. ASSUME NEW u \in Tabs, Given(u)' PROVE u # t /\ Given(u) /\ id(u)' = id(u)
    <3>1. u # t
      BY <2>1, <2>2
    <3>2. tabs'[u] = tabs[u]
      BY <1>3, <3>1, WhoIsGiven DEF TabStep
    <3> QED  BY <2>2, <3>1, <3>2 DEF Given
  <2> QED  BY <1>r, <1>t, <2>1, <2>2 DEF FreshInv
<1>4. ASSUME NEW t \in Tabs, CreateSession(t) PROVE FreshInv'
  <2>1. saved' = saved
    BY <1>4 DEF CreateSession
  <2>2. ASSUME NEW u \in Tabs, u # t, Given(u)' PROVE Given(u) /\ id(u)' = id(u)
    <3>1. tabs'[u] = tabs[u]
      BY <1>4, <2>2, WhoIsGiven DEF TabStep
    <3> QED  BY <2>2, <3>1 DEF Given
  <2>3. CASE ~Given(t)'
    BY <1>r, <1>t, <2>1, <2>2, <2>3 DEF FreshInv
  <2>4. CASE Given(t)'
    <3>1. PICK s \in Sessions : roomExists /\ IsFree(s) /\ server' = Created(s) /\ Answer(t, SessionAnswer(s, NewView))
      <4>1. ASSUME NEW kind \in {"gone", "failed"}, Answer(t, Plain(kind)) PROVE FALSE
        <5>1. Plain(kind).kind = kind
          BY LimiterAssumption, RowTypes
        <5>2. tabs'[t].answer = Plain(kind)
          BY <4>1, <1>t DEF Answer, Tab
        <5> QED  BY <2>4, <5>1, <5>2 DEF Given
      <4> QED  BY <1>4, <4>1 DEF CreateSession
    <3>2. tabs'[t].answer = SessionAnswer(s, NewView)
      BY <3>1, <1>t DEF Answer, Tab
    <3>3. id(t)' = s /\ server'[s].status = "WAITING" /\ s \notin saved /\ server[s].status = "none"
      BY <3>1, <3>2, <1>t DEF SessionAnswer, Created, NewView, IsFree
    <3>4. ASSUME NEW u \in Tabs, u # t, Given(u)' PROVE id(u)' # s
      BY <2>2, <3>1, <3>3, <3>4 DEF FreshInv
    <3> QED  BY <1>r, <1>t, <2>1, <2>2, <3>3, <3>4 DEF FreshInv
  <2> QED  BY <2>3, <2>4
<1>5. CASE ~ \E t \in Tabs : TabStep(t)
  <2>1. UNCHANGED <<saved, tabs>>
    BY <1>5 DEF Next, RemoveRoom, ServerStep, StaffOpens, FirstReply, CopyTold, StaffCloses,
                Expire, Retention, RivalStarts, Unchanged, vars
  <2> QED  BY <1>1, <2>1
<1> QED  BY <1>2, <1>3, <1>4, <1>5

(* No reload is sent back to a consultation the device has put away, with   *)
(* any number of tabs and however late the answers of create come: the      *)
(* safety half of EndedIsForgotten (saveStoredGuestAccess).                 *)
THEOREM PutOutForGood == Spec => ForgottenStays
<1> DEFINE StaysOut == \A s \in saved : stored # s => stored' # s
<1>1. Init => FreshInv
  <2> SUFFICES ASSUME Init PROVE FreshInv  OBVIOUS
  <2>1. \A t \in Tabs : tabs[t].call = ""
    BY DEF Init, ClosedTab
  <2> QED  BY <2>1 DEF FreshInv, Given
<1>2. PagesInv /\ PagesInv' /\ FreshInv /\ [Next]_vars => FreshInv'
  BY FreshStays DEF PagesInv
<1>3. PagesInv /\ FreshInv /\ [Next]_vars => StaysOut
  <2> SUFFICES ASSUME PagesInv, FreshInv, [Next]_vars, NEW s \in saved, stored # s PROVE stored' # s
    OBVIOUS
  <2>1. CASE stored' = stored
    BY <2>1
  <2>2. CASE stored' = None
    BY <2>2, GuestAssumption DEF PagesInv, GuestTypes, TypeOK
  <2>3. ASSUME NEW t \in Tabs, Started(t) PROVE stored' # s
    BY <2>3 DEF Started, Answered, FreshInv, Given
  <2>4. stored' \in {stored, None} \/ \E t \in Tabs : Started(t)
    <3>1. ASSUME NEW t \in Tabs, TabStep(t), ~Started(t) PROVE stored' \in {stored, None}
      BY <3>1 DEF TabStep, Visit, LoseAnswer, RefuseRequest, GetSession, Restored, Start, VerifyAccess, Verified,
                  CreateSession, NotStarted, Connect, Disconnect, Send, SessionEvent, ClockEffect
    <3>2. CASE ~ \E t \in Tabs : TabStep(t)
      BY <3>2 DEF Next, RemoveRoom, ServerStep, StaffOpens, FirstReply, CopyTold, StaffCloses,
                  Expire, Retention, RivalStarts, Unchanged, vars
    <3> QED  BY <3>1, <3>2
  <2> QED  BY <2>1, <2>2, <2>3, <2>4
<1>4. Spec => []FreshInv
  BY <1>1, <1>2, PagesHearTruth, PTL DEF Spec
<1>5. Spec => [][StaysOut]_vars
  BY <1>3, <1>4, PagesHearTruth, PTL DEF Spec
<1> QED  BY <1>5 DEF ForgottenStays

-----------------------------------------------------------------------------
(* A device with one tab.                                                  *)

\* At most one tab of the device has ever been opened.
OneTab == \A a, b \in Tabs : a = b

\* The page asks for, or shows, the consultation that is stored, if one is; when the
\* server has made a new one, those of before are over; and the one that is not
\* over is the one that is stored.
SoleInv ==
    /\ \A t \in Tabs :
         /\ Shows(t) => stored \in {None, tabs[t].access}
         /\ tabs[t].call = "create" /\ tabs[t].answer.kind = "session" => \A s \in saved : Over(s)
    /\ \A s \in saved : ~Over(s) => stored = s

VisitInv == PagesInv /\ SoleInv

(* The server, the other device and the clock do not make what is over go   *)
(* on, nor touch the store.                                                 *)
LEMMA ServerSole ==
    ASSUME VisitInv, GuestTypes', [Next]_vars, UNCHANGED <<stored, saved, tabs>>
    PROVE  SoleInv'
<1>1. \A s \in saved : Over(s) => Over(s)'
  BY ToldStaysTrue DEF VisitInv, PagesInv
<1> QED  BY <1>1 DEF VisitInv, SoleInv, Shows

(* The only tab keeps to the token that is stored, and puts it out for a    *)
(* consultation that is over, or for its own next one.                      *)
LEMMA TabSole ==
    ASSUME VisitInv, GuestTypes', [Next]_vars, NEW t \in Tabs, \A u \in Tabs : u = t, TabStep(t)
    PROVE  SoleInv'
<1>t. /\ tabs \in [Tabs -> Tab] /\ tabs[t] \in Tab /\ saved \subseteq Sessions
      /\ server \in [Sessions -> View]
  BY DEF VisitInv, PagesInv, GuestTypes, TypeOK
<1>n. None \notin saved
  BY <1>t, GuestAssumption
<1>s. /\ Stage(t)
      /\ Shows(t) => stored \in {None, tabs[t].access}
      /\ tabs[t].call = "create" /\ tabs[t].answer.kind = "session" => \A s \in saved : Over(s)
      /\ \A s \in saved : ~Over(s) => stored = s
  BY DEF VisitInv, PagesInv, StagesInv, SoleInv
<1>k. \A s \in saved : Over(s) => Over(s)'
  BY ToldStaysTrue DEF VisitInv, PagesInv
<1>r. ClosedTab.call = "" /\ ClosedTab.screen = "closed" /\ ClosedTab.answer.kind = "none" /\ ClosedTab \in Tab
  BY LimiterAssumption, RowTypes DEF ClosedTab, Plain
<1>p. \A kind \in {"none", "verified", "gone", "failed"} : Plain(kind).kind = kind
  BY DEF Plain
\* A step that leaves the store alone.
<1>g. ASSUME UNCHANGED <<stored, saved>>, Shows(t)' => stored \in {None, tabs'[t].access},
             tabs'[t].call # "create" \/ tabs'[t].answer.kind # "session" \/ \A s \in saved : Over(s)
      PROVE  SoleInv'
  BY <1>g, <1>s, <1>k DEF SoleInv
\* A step that puts out the token of a consultation that is over.
<1>h. ASSUME saved' = saved, stored' = None, Shows(t), Over(tabs[t].access), tabs'[t].call # "create"
      PROVE  SoleInv'
  <2>1. \A s \in saved : Over(s)
    BY <1>h, <1>s, <1>n
  <2> QED  BY <1>h, <2>1, <1>k DEF SoleInv
<1>w. ASSUME stored' # stored, tabs[t].call # "create"
      PROVE  Shows(t) /\ stored' = None /\ Over(tabs[t].access)
  <2>1. PICK u \in Tabs : /\ TabStep(u)
                          /\ \/ stored' = Concern(u) /\ tabs[u].call = "create"
                             \/ Shows(u) /\ stored' = None /\ Over(Concern(u))
    BY <1>w, WhoForgets DEF VisitInv
  <2>2. u = t
    OBVIOUS
  <2> QED  BY <1>w, <2>1, <2>2 DEF Concern
<1>1. CASE Visit(t)
  <2>1. /\ tabs'[t].answer.kind = "none" /\ tabs'[t].access = stored
        /\ tabs'[t].call # "create" /\ UNCHANGED <<stored, saved>>
    BY <1>1, <1>t, <1>r DEF Visit, Tab
  <2> QED  BY <2>1, <1>g
<1>2. CASE LoseAnswer(t) \/ RefuseRequest(t) \/ GetSession(t) \/ VerifyAccess(t) \/ CreateSession(t)
  <2>1. UNCHANGED <<stored, saved>> /\ \E answer : Answer(t, answer)
    BY <1>2 DEF LoseAnswer, RefuseRequest, GetSession, VerifyAccess, CreateSession
  <2>2. /\ tabs'[t].call = tabs[t].call /\ tabs'[t].screen = tabs[t].screen
        /\ tabs'[t].access = tabs[t].access
    BY <2>1, <1>t DEF Answer, Tab
  <2>3. \A answer : Answer(t, answer) => tabs'[t].answer = answer
    BY <1>t DEF Answer, Tab
  <2>4. CASE ~CreateSession(t)
    <3>1. tabs[t].call # "create" \/ tabs'[t].answer.kind # "session"
      BY <1>2, <2>3, <2>4, <1>p DEF LoseAnswer, RefuseRequest, GetSession, VerifyAccess, Asked
    <3> QED  BY <2>1, <2>2, <3>1, <1>g, <1>s DEF Shows
  <2>5. CASE CreateSession(t)
    <3>1. tabs'[t].answer.kind # "session" \/ ~ \E o \in Sessions : Open(o)
      BY <2>3, <2>5, <1>p DEF CreateSession
    <3>2. (~ \E o \in Sessions : Open(o)) => \A s \in saved : Over(s)
      BY <1>t DEF Over, Ended, Open
    <3> QED  BY <2>1, <2>2, <3>1, <3>2, <1>g, <1>s DEF Shows
  <2> QED  BY <2>4, <2>5
<1>3. CASE Restored(t)
  <2>1. tabs[t].call = "restore" /\ saved' = saved /\ tabs'[t].call = ""
    BY <1>3, <1>t, <1>r DEF Restored, Answered, Tab
  <2>2. CASE stored' = stored
    <3>1. Shows(t)' => tabs'[t].access = tabs[t].access
      BY <1>3, <1>t, <1>r, <2>1 DEF Restored, Shows, Tab
    <3> QED  BY <2>1, <2>2, <3>1, <1>g, <1>s DEF Shows
  <2>3. CASE stored' # stored
    BY <2>1, <2>3, <1>w, <1>h
  <2> QED  BY <2>2, <2>3
<1>4. CASE Start(t) \/ Verified(t) \/ NotStarted(t)
  <2>1. tabs[t].screen = "consent" /\ UNCHANGED <<stored, saved>>
    BY <1>4, <1>s, <1>t DEF Start, Verified, NotStarted, Answered, Stage
  <2>2. /\ tabs'[t].screen # "ready" /\ tabs'[t].call # "restore"
        /\ tabs'[t].call # "create" \/ tabs'[t].answer.kind # "session"
    <3>1. CASE Start(t)
      BY <3>1, <2>1, <1>t DEF Start, Tab
    <3>2. CASE Verified(t)
      <4>1. tabs' = [tabs EXCEPT ![t] = [@ EXCEPT !.call = "create", !.answer = Plain("none")]]
        BY <3>2, <1>t DEF Verified
      <4> QED  BY <4>1, <2>1, <1>t, <1>p DEF Tab
    <3>3. CASE NotStarted(t)
      <4>1. tabs' = [tabs EXCEPT ![t] =
                 [@ EXCEPT !.screen = "error", !.call = "", !.answer = Plain("none")]]
        BY <3>3, <1>t DEF NotStarted
      <4> QED  BY <4>1, <1>t DEF Tab
    <3> QED  BY <1>4, <3>1, <3>2, <3>3
  <2> QED  BY <2>1, <2>2, <1>g DEF Shows
<1>5. CASE Started(t)
  <2> DEFINE s == tabs[t].answer.id
  <2>1. /\ tabs[t].call = "create" /\ tabs[t].answer.kind = "session"
        /\ stored' = s /\ saved' = saved \cup {s}
        /\ tabs'[t].access = s /\ tabs'[t].call = ""
    BY <1>5, <1>t DEF Started, Answered, Tab
  <2> HIDE DEF s
  <2>2. \A o \in saved' : ~Over(o)' => stored' = o
    BY <2>1, <1>s, <1>k
  <2> QED  BY <2>1, <2>2 DEF SoleInv
<1>6. CASE Connect(t) \/ Disconnect(t) \/ Send(t)
  <2>1. /\ tabs'[t].screen = tabs[t].screen /\ tabs'[t].call = tabs[t].call
        /\ tabs'[t].access = tabs[t].access /\ tabs'[t].answer = tabs[t].answer
        /\ UNCHANGED <<stored, saved>>
    <3>1. ASSUME NEW up, tabs' = [tabs EXCEPT ![t].up = up]
          PROVE  /\ tabs'[t].screen = tabs[t].screen /\ tabs'[t].call = tabs[t].call
                 /\ tabs'[t].access = tabs[t].access /\ tabs'[t].answer = tabs[t].answer
      BY <3>1, <1>t DEF Tab
    <3>2. CASE Connect(t)
      BY <3>1, <3>2 DEF Connect
    <3>3. CASE Disconnect(t)
      BY <3>1, <3>3 DEF Disconnect
    <3>4. CASE Send(t)
      BY <3>4 DEF Send
    <3> QED  BY <1>6, <3>2, <3>3, <3>4
  <2> QED  BY <2>1, <1>g, <1>s DEF Shows
<1>7. CASE SessionEvent(t) \/ ClockEffect(t)
  <2>1. tabs[t].screen = "ready" /\ saved' = saved /\ \E view : tabs' = [tabs EXCEPT ![t].view = view]
    BY <1>7, <1>s DEF SessionEvent, ClockEffect, Stage
  <2>2. /\ tabs'[t].screen = tabs[t].screen /\ tabs'[t].call = tabs[t].call
        /\ tabs'[t].access = tabs[t].access
    BY <2>1, <1>t DEF Tab
  <2>3. tabs[t].call # "create"
    BY <2>1, <1>s DEF Stage
  <2>4. CASE stored' = stored
    BY <2>1, <2>2, <2>3, <2>4, <1>g, <1>s DEF Shows
  <2>5. CASE stored' # stored
    BY <2>1, <2>2, <2>3, <2>5, <1>w, <1>h
  <2> QED  BY <2>4, <2>5
<1> QED  BY <1>1, <1>2, <1>3, <1>4, <1>5, <1>6, <1>7 DEF TabStep

(* The consultation of a device with one tab stays reachable from it until  *)
(* it ends: whatever requests fail, are refused by the limiter or are lost, *)
(* whichever other device of the room has been first, however late the      *)
(* events come, and whenever the clock or a reload overtakes them, reading  *)
(* the QR code again finds the token.                                       *)
THEOREM TokenKept ==
    ASSUME OneTab
    PROVE  Spec => []RestorableUntilEnded
<1>1. Init => SoleInv
  <2> SUFFICES ASSUME Init PROVE SoleInv  OBVIOUS
  <2>1. tabs = [t \in Tabs |-> ClosedTab] /\ saved = {}
    BY DEF Init
  <2>2. \A t \in Tabs : tabs[t].screen = "closed" /\ tabs[t].call = ""
    BY <2>1 DEF ClosedTab
  <2> QED  BY <2>1, <2>2 DEF SoleInv, Shows
<1>2. SoleInv /\ PagesInv /\ PagesInv' /\ [Next]_vars => SoleInv'
  <2> SUFFICES ASSUME SoleInv, PagesInv, PagesInv', [Next]_vars PROVE SoleInv'  OBVIOUS
  <2>1. VisitInv /\ GuestTypes'
    BY DEF VisitInv, PagesInv
  <2>2. CASE \E t \in Tabs : TabStep(t)
    BY <2>1, <2>2, TabSole DEF OneTab
  <2>3. CASE ~ \E t \in Tabs : TabStep(t)
    <3>1. UNCHANGED <<stored, saved, tabs>>
      BY <2>3 DEF Next, RemoveRoom, ServerStep, StaffOpens, FirstReply, CopyTold, StaffCloses,
                  Expire, Retention, RivalStarts, Unchanged, vars
    <3> QED  BY <2>1, <3>1, ServerSole
  <2> QED  BY <2>2, <2>3
<1>3. SoleInv => RestorableUntilEnded
  BY DEF SoleInv, RestorableUntilEnded, Running, Over, Ended, Open, Lapsed
<1> QED  BY <1>1, <1>2, <1>3, PagesHearTruth, PTL DEF Spec

=============================================================================
