---------------------------- MODULE RateLimiter ----------------------------
(***************************************************************************)
(* FixedWindowRateLimiter: the memory of past requests that the REST       *)
(* middleware (main.ts) and the message handler of the gateway ask before  *)
(* they do anything else.  allow() and forget() never await, so each is    *)
(* one step of whoever calls it.  A key stands for one source of requests: *)
(* an address with a method and a path, an address with a staff token, or  *)
(* a socket; a socket's key is forgotten when it disconnects, and its name *)
(* here then stands for the key of the next socket.                        *)
(***************************************************************************)
EXTENDS Integers

CONSTANTS
    Keys,       \* the keys of the limiter
    Limit,      \* requests a key may make in one window: 30, 60 or 120
    Window,     \* windowMs
    MaxNow      \* bound of the clock

ASSUME LimiterAssumption ==
    /\ Limit \in Nat \ {0}
    /\ Window \in Nat \ {0}
    /\ MaxNow \in Nat

VARIABLES
    now,            \* Date.now()
    buckets,        \* the Map: count 0 for a key it does not hold
    nextCleanupAt,  \* when expired buckets are next removed
    granted,        \* requests granted to the key in its last window
    openedAt        \* when that window was opened, -Window if never

limiterVars == <<buckets, nextCleanupAt, granted, openedAt>>

NoBucket == [count |-> 0, resetAt |-> 0]

\* Counts above Limit + 1 are all refused alike.
Bucket == [count : 0 .. Limit + 1, resetAt : 0 .. MaxNow + Window]

LimiterTypeOK ==
    /\ now \in 0 .. MaxNow
    /\ buckets \in [Keys -> Bucket]
    /\ nextCleanupAt \in 0 .. MaxNow + Window
    /\ granted \in [Keys -> Nat]
    /\ openedAt \in [Keys -> -Window .. MaxNow]

LimiterInit ==
    /\ now = 0
    /\ buckets = [k \in Keys |-> NoBucket]
    /\ nextCleanupAt = 0
    /\ granted = [k \in Keys |-> 0]
    /\ openedAt = [k \in Keys |-> -Window]

Tick == now < MaxNow /\ now' = now + 1

\* A bug: the clean-up removes every bucket, also those still in their window.
ForgetfulCleanup(k) == IF nextCleanupAt <= now THEN NoBucket ELSE buckets[k]
\* cleanup(): at its time it removes the buckets whose window is over.
Cleanup(k) ==
    IF nextCleanupAt <= now /\ buckets[k].resetAt <= now THEN NoBucket ELSE buckets[k]

InWindow(k) == Cleanup(k).count > 0 /\ now < Cleanup(k).resetAt

\* A bug: the request that exceeds the limit is still let through.
OneTooMany(k) == InWindow(k) => Cleanup(k).count <= Limit
\* What allow() answers to the next request of key k.
Allowed(k) == InWindow(k) => Cleanup(k).count < Limit

\* allow(): every request is counted, a refused one too.
Allow(k) ==
    LET counted == IF Cleanup(k).count <= Limit THEN Cleanup(k).count + 1
                                                ELSE Cleanup(k).count
        bucket == IF InWindow(k) THEN [Cleanup(k) EXCEPT !.count = counted]
                                 ELSE [count |-> 1, resetAt |-> now + Window]
    IN  /\ buckets' = [[j \in Keys |-> Cleanup(j)] EXCEPT ![k] = bucket]
        /\ nextCleanupAt' = IF nextCleanupAt <= now THEN now + Window ELSE nextCleanupAt
        /\ granted' = [granted EXCEPT ![k] =
              IF ~InWindow(k) THEN 1 ELSE IF Allowed(k) THEN @ + 1 ELSE @]
        /\ openedAt' = IF InWindow(k) THEN openedAt ELSE [openedAt EXCEPT ![k] = now]

\* forget(): handleDisconnect drops the bucket of a socket that is gone.
Forget(k) ==
    /\ buckets' = [buckets EXCEPT ![k] = NoBucket]
    /\ granted' = [granted EXCEPT ![k] = 0]
    /\ openedAt' = [openedAt EXCEPT ![k] = -Window]
    /\ UNCHANGED nextCleanupAt

LimiterNext ==
    \/ Tick /\ UNCHANGED limiterVars
    \/ \E k \in Keys : (Allow(k) \/ Forget(k)) /\ UNCHANGED now

LimiterSpec == LimiterInit /\ [][LimiterNext]_<<now, limiterVars>>

(* No key is granted more than Limit requests in one of its windows, though *)
(* refused requests are counted and expired buckets are kept until the next *)
(* clean-up.                                                                *)
LimitHolds == \A k \in Keys : granted[k] <= Limit

(* A key gets a new window, and with it Limit new requests, only when its   *)
(* last window is over: neither the clean-up of all keys nor another key's  *)
(* requests cut a window short.  With LimitHolds, no more than 2 * Limit    *)
(* requests of a key are granted in any interval of length Window.          *)
WindowsDoNotOverlap ==
    [][\A k \in Keys : openedAt'[k] # openedAt[k] /\ openedAt'[k] # -Window
                          => openedAt'[k] >= openedAt[k] + Window]_<<now, limiterVars>>
=============================================================================
