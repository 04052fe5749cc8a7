------------------------------ MODULE RateLimit ------------------------------
(***************************************************************************)
(* The fixed-window limiter of dependencies/rate_limit.py, for one key: a  *)
(* client of an authentication endpoint or a user of a protected mutation. *)
(* The store counts the requests of a window in a key that expires with    *)
(* it.  Time is counted in ticks, several to the second, because the store *)
(* expires keys by the millisecond and answers their time to live in       *)
(* seconds, rounded.                                                       *)
(***************************************************************************)
EXTENDS Integers, FiniteSets

CONSTANTS
    Limit,     \* requests of a window
    Window,    \* its length in seconds
    Second,    \* ticks of a second
    MaxTime    \* bound: the clock

VARIABLES
    policy,    \* "auth" or "mutation": which of the two guards the key is used by
    now,
    bucket,    \* the key: its count, 0 when there is none, and its lifetime
    passes,    \* the requests that passed in the last Window seconds; nth tells those of
               \* one tick apart
    refused    \* the latest refusal: when, and the seconds it told the client to wait

vars == <<policy, now, bucket, passes, refused>>

NoBucket == [count |-> 0, since |-> 0, expires |-> 0]

NoRefusal == [at |-> 0, wait |-> 0]

Init ==
    /\ policy \in {"auth", "mutation"}
    /\ now = 1
    /\ bucket = NoBucket
    /\ passes = {}
    /\ refused = NoRefusal

\* The script: INCR, EXPIRE when the key is new.
increment ==
    IF bucket.count = 0
    THEN [count |-> 1, since |-> now, expires |-> now + Window * Second]
    ELSE [bucket EXCEPT !.count = @ + 1]

\* TTL rounds to the nearest second.
ttl(key) == (2 * (key.expires - now) + Second) \div (2 * Second)

AtMost(a, b) == IF a < b THEN a ELSE b

AtLeast(a, b) == IF a > b THEN a ELSE b

OneSecond(key) == 1

retry_after(key) == AtLeast(1, AtMost(AtMost(ttl(key), Window), 3600))

AllowsOneMore(key) == key.count <= Limit + 1

Allows(key) == key.count <= Limit

Pass(counted) ==
    LET earlier == {p \in passes : p.at = now}
        pass == [at |-> now, nth |-> Cardinality(earlier), counted |-> counted]
    IN passes' = passes \cup {pass} /\ UNCHANGED refused

Refuse(wait) == refused' = [at |-> now, wait |-> wait] /\ UNCHANGED passes

\* The store answers.
enforce_rate_limit ==
    /\ bucket' = increment
    /\ IF Allows(bucket') THEN Pass(TRUE) ELSE Refuse(retry_after(bucket'))
    /\ UNCHANGED <<policy, now>>

\* The store fails, perhaps after it ran the script: an authentication request
\* passes all the same, a mutation is refused with 503 and no time to wait.
enforce_without_store ==
    /\ bucket' \in {bucket, increment}
    /\ IF policy = "auth" THEN Pass(FALSE) ELSE UNCHANGED <<passes, refused>>
    /\ UNCHANGED <<policy, now>>

\* The clock moves and the store drops an expired key.
Tick ==
    /\ now < MaxTime
    /\ now' = now + 1
    /\ bucket' = IF bucket.count > 0 /\ now' >= bucket.expires THEN NoBucket ELSE bucket
    /\ passes' = {p \in passes : now' - p.at < Window * Second}
    /\ UNCHANGED <<policy, refused>>

Next == Tick \/ enforce_rate_limit \/ enforce_without_store

Spec == Init /\ [][Next]_vars

-----------------------------------------------------------------------------

\* In any interval as long as a window at most twice the limit pass: the end of
\* one window and the start of the next.  Authentication requests that pass
\* because the store has failed come on top, mutations do not.
IntervalIsBounded ==
    Cardinality({p \in passes : p.counted \/ policy = "mutation"}) <= 2 * Limit

\* Who waits as told, and the half second the store may have rounded off, meets
\* a new window: the one that refused is over, however often it was tried since.
RetryAfterIsEnough ==
    bucket.count > 0 /\ bucket.since <= refused.at =>
        2 * bucket.expires <= 2 * (refused.at + refused.wait * Second) + Second
=============================================================================
