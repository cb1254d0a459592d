---------------------------- MODULE RateLimiter ----------------------------
(***************************************************************************)
(* The sliding-window limiter of login, registration, mails and chat       *)
(* messages (app/security/rate_limit.py), for one key.  A check holds a    *)
(* lock and is one step.  Time passes in ticks, fractions of a second,     *)
(* because the answer to a refused request is in whole seconds.            *)
(***************************************************************************)
EXTENDS Integers, Sequences, FiniteSetsExt

CONSTANTS
    MaxRequests,        \* max_requests
    WindowSeconds,      \* window_seconds
    TicksPerSecond,     \* ticks in a second
    Horizon,            \* bound: ticks
    RefusalBound        \* bound: refusals since the last accepted request

\* __init__ refuses other values; time.monotonic() goes on.
ASSUME RateLimiterAssumption ==
    /\ MaxRequests \in Nat \ {0}
    /\ WindowSeconds \in Nat \ {0}
    /\ TicksPerSecond \in Nat \ {0}
    /\ Horizon \in Nat
    /\ RefusalBound \in Nat

VARIABLES
    now,        \* time.monotonic()
    hits,       \* _hits[key]
    violations, \* _violations[key]
    log,        \* when requests were accepted
    refusal     \* the last refusal, while no request was accepted since

limiterVars == <<now, hits, violations, log, refusal>>

Window == WindowSeconds * TicksPerSecond

\* popleft() while the oldest entry has left the window.
Prune(times) ==
    LET kept == {k \in DOMAIN times : times[k] > now - Window}
    IN IF kept = {} THEN <<>> ELSE SubSeq(times, Min(kept), Len(times))

\* Variant: one request too many.
Full_OffByOne(bucket) == Len(bucket) > MaxRequests

Full(bucket) == Len(bucket) >= MaxRequests

NoRefusal == [until |-> 0]

Greater(a, b) == IF a > b THEN a ELSE b

Accept ==
    LET bucket == Prune(hits) IN
    /\ ~Full(bucket)
    /\ hits' = Append(bucket, now)
    /\ violations' = <<>>
    /\ log' = Append(log, now)
    /\ refusal' = NoRefusal
    /\ UNCHANGED now

\* Variant: the penalty replaces the time left.
RetryAfter_Penalty(bucket, refused) == Len(refused)

\* Whole seconds until the oldest request leaves the window, at least one,
\* and at least as many as requests were refused.
RetryAfter(bucket, refused) ==
    LET left == (Window - (now - bucket[1])) \div TicksPerSecond
    IN Greater(Greater(1, left), Len(refused))

\* The caller is told how long to wait.
Refuse ==
    LET bucket == Prune(hits)
        refused == Append(Prune(violations), now)
    IN
    /\ Full(bucket)
    /\ Len(refused) <= RefusalBound
    /\ hits' = bucket
    /\ violations' = refused
    /\ refusal' = [until |-> now + RetryAfter(bucket, refused) * TicksPerSecond]
    /\ UNCHANGED <<now, log>>

Tick ==
    /\ now < Horizon
    /\ now' = now + 1
    /\ UNCHANGED <<hits, violations, log, refusal>>

LimiterInit ==
    /\ now = 0
    /\ hits = <<>>
    /\ violations = <<>>
    /\ log = <<>>
    /\ refusal = NoRefusal

LimiterNext == Accept \/ Refuse \/ Tick

LimiterSpec == LimiterInit /\ [][LimiterNext]_limiterVars

-----------------------------------------------------------------------------
(* Properties *)

\* In no interval as long as the window are more than MaxRequests requests
\* accepted, wherever it begins.
WindowBound ==
    \A i \in DOMAIN log : i + MaxRequests <= Len(log) =>
        log[i + MaxRequests] - log[i] >= Window

\* What a refused caller is told falls short of the time left by less than a
\* second, the fraction that was cut off: who waits that much longer is
\* accepted, whatever other requests of the key are refused meanwhile.
RetryAfterWithinASecond ==
    refusal # NoRefusal /\ now >= refusal.until + (TicksPerSecond - 1) =>
        ~Full(Prune(hits))
=============================================================================
