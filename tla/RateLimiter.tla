----------------------------- MODULE RateLimiter -----------------------------
(***************************************************************************)
(* The per-client token bucket of internal/httpapi/ratelimit.go.  A        *)
(* request reads the clock BEFORE it takes the lock, so the readings reach *)
(* the bucket in any order; buckets of silent clients are swept away.      *)
(*                                                                         *)
(* Time is counted in ticks, tokens in shares of which a tick refills      *)
(* PerMinute: a token is then TicksPerMinute shares, and no division is    *)
(* needed but the one the code rounds up.                                  *)
(***************************************************************************)
EXTENDS Integers

CONSTANTS
    Clients,          \* the keys of clientIP
    Requests,         \* calls of Allow that may be in progress at once
    ClientOf,         \* whose each of them is
    PerMinute,        \* API_RATE_LIMIT
    TicksPerSecond,   \* resolution of the clock
    SecondsPerMinute, \* 60
    IdleEviction,     \* idleEviction, in ticks
    MaxLag,           \* bound: ticks between reading the clock and taking the lock
    Horizon           \* bound: the last tick of a behaviour

TicksPerMinute == TicksPerSecond * SecondsPerMinute

ASSUME LimiterAssumption ==
    /\ ClientOf \in [Requests -> Clients]
    /\ PerMinute \in Nat \ {0}
    /\ TicksPerSecond \in Nat \ {0}
    /\ SecondsPerMinute \in Nat \ {0}
    /\ MaxLag \in Nat /\ Horizon \in Nat
    /\ IdleEviction \in Nat
    /\ IdleEviction >= TicksPerMinute + 2 * MaxLag

VARIABLES
    clock,
    reading,  \* reading[r]: what the call r has read from the clock, or NoReading
    buckets,  \* buckets[c]: tokens and time of the last refill, or NoBucket
    sweepAt,  \* when sweep last ran
    spent,    \* history: spent[c][s][t], requests of c admitted with a reading in s..t
    promised  \* history: promised[c], when the last Retry-After c was given ends

vars == <<clock, reading, buckets, sweepAt, spent, promised>>

Time == 0 .. Horizon
Token == TicksPerMinute
Burst == PerMinute * Token
NoBucket == [held |-> FALSE, tokens |-> 0, last |-> 0]
NoReading == -1
NoPromise == -1
Calling(r) == reading[r] # NoReading

Init ==
    /\ clock = 0
    /\ reading = [r \in Requests |-> NoReading]
    /\ buckets = [c \in Clients |-> NoBucket]
    /\ sweepAt = -TicksPerMinute
    /\ spent = [c \in Clients |-> [s \in Time |-> [t \in Time |-> 0]]]
    /\ promised = [c \in Clients |-> NoPromise]

\* A request is not held up between its clock reading and the lock for more than
\* MaxLag: the limiter is on its own there, with a map lookup ahead of it.
Tick ==
    /\ clock < Horizon
    /\ \A r \in Requests : Calling(r) => clock - reading[r] < MaxLag
    /\ clock' = clock + 1
    /\ UNCHANGED <<reading, buckets, sweepAt, spent, promised>>

\* Allow begins: `now := l.now()`, outside the lock.
ReadClock(r) ==
    /\ ~Calling(r)
    /\ reading' = [reading EXCEPT ![r] = clock]
    /\ UNCHANGED <<clock, buckets, sweepAt, spent, promised>>

SweepDue(now) == now - sweepAt >= TicksPerMinute

Idle(b, now) == now - b.last > IdleEviction
Swept(now) ==
    [c \in Clients |-> IF SweepDue(now) /\ Idle(buckets[c], now)
                       THEN NoBucket ELSE buckets[c]]

\* The bucket a call finds, or makes.
Found(b, now) == IF b.held THEN b ELSE [held |-> TRUE, tokens |-> Burst, last |-> now]

Lesser(a, b) == IF a < b THEN a ELSE b

\* Mutant: the refill is not capped.
RefilledWithoutCap(b, now) ==
    [held |-> TRUE, tokens |-> b.tokens + (now - b.last) * PerMinute, last |-> now]

\* Mutant: the refill does not remember that it happened.
RefilledAgain(b, now) ==
    [b EXCEPT !.tokens = Lesser(Burst, @ + (now - b.last) * PerMinute)]

Refilled(b, now) ==
    [held |-> TRUE,
     tokens |-> Lesser(Burst, b.tokens + (now - b.last) * PerMinute),
     last |-> now]

Enough(b) == b.tokens >= Token
Taken(b) == [b EXCEPT !.tokens = @ - Token]

\* Mutant: the wait is rounded down.
RetryAfterDown(b) == (Token - b.tokens) \div (PerMinute * TicksPerSecond)

\* Retry-After, whole seconds: math.Ceil((1-b.tokens)/l.rate).
RetryAfter(b) == -((b.tokens - Token) \div (PerMinute * TicksPerSecond))

\* Allow under the lock: sweep, find or make the bucket, refill, then admit.
Admit(r) ==
    /\ Calling(r)
    /\ LET c == ClientOf[r]
           now == reading[r]
           b == Refilled(Found(Swept(now)[c], now), now)
       IN  /\ Enough(b)
           /\ buckets' = [Swept(now) EXCEPT ![c] = Taken(b)]
           /\ sweepAt' = IF SweepDue(now) THEN now ELSE sweepAt
           /\ spent' = [spent EXCEPT ![c] =
                [s \in Time |-> [t \in Time |->
                    IF s <= now /\ now <= t THEN @[s][t] + 1 ELSE @[s][t]]]]
           /\ promised' = [promised EXCEPT ![c] = NoPromise]
    /\ reading' = [reading EXCEPT ![r] = NoReading]
    /\ UNCHANGED clock

\* Mutant: a rejected request pays for a token as well.
RejectAndTake(r) ==
    /\ Calling(r)
    /\ LET c == ClientOf[r]
           now == reading[r]
           b == Refilled(Found(Swept(now)[c], now), now)
       IN  /\ ~Enough(b)
           /\ buckets' = [Swept(now) EXCEPT ![c] = Taken(b)]
           /\ sweepAt' = IF SweepDue(now) THEN now ELSE sweepAt
           /\ promised' = [promised EXCEPT ![c] = now + RetryAfter(b) * TicksPerSecond]
    /\ reading' = [reading EXCEPT ![r] = NoReading]
    /\ UNCHANGED <<clock, spent>>

\* ... or reject with 429 and a Retry-After.
Reject(r) ==
    /\ Calling(r)
    /\ LET c == ClientOf[r]
           now == reading[r]
           b == Refilled(Found(Swept(now)[c], now), now)
       IN  /\ ~Enough(b)
           /\ buckets' = [Swept(now) EXCEPT ![c] = b]
           /\ sweepAt' = IF SweepDue(now) THEN now ELSE sweepAt
           /\ promised' = [promised EXCEPT ![c] = now + RetryAfter(b) * TicksPerSecond]
    /\ reading' = [reading EXCEPT ![r] = NoReading]
    /\ UNCHANGED <<clock, spent>>

Next ==
    \/ Tick
    \/ \E r \in Requests : ReadClock(r) \/ Admit(r) \/ Reject(r)

Spec == Init /\ [][Next]_vars
-----------------------------------------------------------------------------
(* Properties.                                                             *)

Bucket == [held : BOOLEAN, tokens : Int, last : Time]

\* Every variable has its type, no bucket holds more than the burst, and no call
\* has read a clock that is ahead or has been waiting longer than MaxLag.
TypeOK ==
    /\ clock \in Time
    /\ reading \in [Requests -> Time \cup {NoReading}]
    /\ buckets \in [Clients -> Bucket]
    /\ sweepAt \in Int
    /\ spent \in [Clients -> [Time -> [Time -> Nat]]]
    /\ promised \in [Clients -> Int]
    /\ \A c \in Clients : buckets[c].tokens <= Burst /\ buckets[c].last <= clock
    /\ \A r \in Requests : Calling(r) =>
            reading[r] <= clock /\ clock - reading[r] <= MaxLag

\* "A fixed window lets a caller send 2x the limit across the seam between two
\* windows" (bucket): in no stretch of time, wherever it begins, is a client
\* admitted more often than the burst and what the stretch refills, whatever the
\* order in which its requests get the lock and whichever buckets are swept.
WindowBound ==
    \A c \in Clients : \A s, t \in Time :
        s <= t => spent[c][s][t] * Token <= Burst + (t - s) * PerMinute

\* "A Retry-After that is a fraction short leaves the caller retrying into another
\* rejection" (Allow): a client that has waited as long as it was told to, and has
\* had nothing admitted since, is not rejected again.
RetryAfterSuffices ==
    [][\A r \in Requests : Reject(r) =>
        \/ promised[ClientOf[r]] = NoPromise
        \/ reading[r] < promised[ClientOf[r]]]_vars

\* A client is rejected only when it has used up what the limit allows it: since
\* some moment it was admitted so often that one more would exceed the burst and
\* the refill, but for what a call that held an old reading may have cost it.
RejectsOnlyOverLimit ==
    [][\A r \in Requests : Reject(r) =>
        LET c == ClientOf[r]
            now == reading[r]
        IN  \E s \in Time :
              /\ s <= now
              /\ (spent[c][s][Horizon] + 1) * Token
                  > Burst + (now - s - MaxLag) * PerMinute]_vars
-----------------------------------------------------------------------------
(* Why: what a bucket is worth does not depend on when it is looked at.     *)

\* The tokens of a bucket, brought back to time 0.  A refill leaves it alone
\* unless it is capped, whatever the reading; an admission takes a token off.
Level(b) == b.tokens - b.last * PerMinute

\* Of one client, with bucket b, admissions `spending', at time `at':

WithinBound(spending) ==
    \A s, t \in Time :
        s <= t => spending[s][t] * Token <= Burst + (t - s) * PerMinute

\* What was admitted since s is no longer in the bucket.
CreditSpent(b, spending) ==
    b.held => \A s, t \in Time : s <= t /\ spending[s][t] > 0 =>
        spending[s][t] * Token + Level(b) <= Burst - s * PerMinute

\* A bucket is in debt only for readings that came late.
DebtBounded(b, at) ==
    b.held => \E h \in Time :
        h <= at /\ h <= b.last + MaxLag /\ Level(b) >= -(h * PerMinute)

\* What was admitted before a bucket was swept has been refilled since, for every
\* reading that is still to come.
SweptWhenFull(b, spending, at) ==
    ~b.held => \A s, t \in Time : s <= t /\ spending[s][t] > 0 =>
        spending[s][t] * Token <= (at - MaxLag - s) * PerMinute

\* What is missing from a bucket has been spent since its last cap.
NothingLost(b, spending, at) ==
    b.held => \E s \in Time :
        /\ s = 0 \/ s + MaxLag <= at
        /\ spending[s][Horizon] * Token + Level(b) >= Burst - (s + MaxLag) * PerMinute

Solvent(b, spending, at) ==
    /\ WithinBound(spending)
    /\ CreditSpent(b, spending) /\ DebtBounded(b, at)
    /\ SweptWhenFull(b, spending, at) /\ NothingLost(b, spending, at)

\* By the time a Retry-After ends the bucket holds a token again.
PromiseKept(b, p) ==
    b.held /\ p # NoPromise => Level(b) + p * PerMinute >= Token

IInv ==
    /\ TypeOK
    /\ \A c \in Clients :
        Solvent(buckets[c], spent[c], clock) /\ PromiseKept(buckets[c], promised[c])
=============================================================================
