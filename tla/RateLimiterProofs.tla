-------------------------- MODULE RateLimiterProofs --------------------------
(***************************************************************************)
(* Proofs about RateLimiter, for any limit, clock resolution, eviction age *)
(* and number of clients and calls.  Everything rests on Level: a bucket's *)
(* tokens brought back to time 0, which no refill raises, in whatever      *)
(* order the clock readings arrive.                                        *)
(***************************************************************************)
EXTENDS RateLimiter, TLAPS

\* Adding a share per tick is monotone in the ticks (Refilled, of Allow).
LEMMA SharesMonotone ==
    ASSUME NEW a \in Int, NEW b \in Int, NEW p \in Nat, a <= b
    PROVE  a * p <= b * p
<1>1. \A d \in Nat : d * p >= 0
  OBVIOUS
<1>2. PICK d \in Nat : b = a + d
  <2>1. b - a \in Nat /\ b = a + (b - a)
    OBVIOUS
  <2> QED
    BY <2>1
<1>3. b * p = a * p + d * p
  BY <1>2
<1> QED
  BY <1>1, <1>3

\* The division that rounds a Retry-After up (Allow) leaves no fraction out.
LEMMA QuotientBelow ==
    ASSUME NEW x \in Int, NEW d \in Nat, d > 0
    PROVE  x \div d \in Int /\ (x \div d) * d <= x
<1>1. x \div d \in Int
  OBVIOUS
<1>2. x >= d * (x \div d)
  OBVIOUS
<1> QED
  BY <1>1, <1>2

\* What the proofs use of the configuration (LoadConfig, NewRateLimiter).
LEMMA LimiterConstants ==
    /\ PerMinute \in Nat \ {0} /\ Token \in Nat \ {0}
    /\ Burst \in Nat /\ Burst >= Token /\ Burst = PerMinute * Token
    /\ MaxLag \in Nat /\ IdleEviction \in Nat /\ Horizon \in Nat
    /\ IdleEviction >= Token + 2 * MaxLag
    /\ TicksPerSecond \in Nat \ {0}
<1>1. TicksPerMinute \in Nat \ {0}
  BY LimiterAssumption DEF TicksPerMinute
<1>2. \A p, t \in Nat \ {0} : p * t \in Nat /\ p * t >= t
  <2> TAKE p, t \in Nat \ {0}
  <2>1. 1 * t <= p * t
    BY SharesMonotone
  <2> QED
    BY <2>1
<1> QED
  BY <1>1, <1>2, LimiterAssumption DEF Token, Burst

\* A refill never raises the level of a bucket: it keeps it, or caps it at a full
\* bucket at that moment, which is also what a new bucket is (Allow).
LEMMA RefillKeepsLevel ==
    ASSUME NEW old \in Bucket, NEW now \in Time
    PROVE  LET b == Refilled(Found(old, now), now)
           IN  /\ b \in Bucket /\ b.held /\ b.last = now /\ b.tokens <= Burst
               /\ Level(b) \in Int
               /\ \/ /\ b.tokens = Burst /\ Level(b) = Burst - now * PerMinute
                     /\ old.held => Level(b) <= Level(old)
                  \/ old.held /\ Level(b) = Level(old)
<1> DEFINE f == Found(old, now)
           b == Refilled(f, now)
           refilled == f.tokens + (now - f.last) * PerMinute
<1>1. PerMinute \in Nat /\ Burst \in Nat /\ now \in Int
  BY LimiterConstants DEF Time
<1>2. /\ f \in Bucket /\ f.held
      /\ old.held => f = old
      /\ ~old.held => f.tokens = Burst /\ f.last = now
  BY <1>1 DEF Found, Bucket
<1> HIDE DEF f
<1>3. f.tokens \in Int /\ f.last \in Int
  BY <1>2 DEF Bucket, Time
<1>4. refilled \in Int /\ (now - f.last) * PerMinute \in Int
  BY <1>1, <1>3
<1>5. refilled = f.tokens - f.last * PerMinute + now * PerMinute
  BY <1>1, <1>3
<1>6. b = [held |-> TRUE, tokens |-> Lesser(Burst, refilled), last |-> now]
  BY DEF Refilled
<1> HIDE DEF refilled, b
<1>7. b.held /\ b.last = now /\ b.tokens = Lesser(Burst, refilled)
  BY <1>6
<1>8. b \in Bucket /\ b.tokens \in Int
  BY <1>1, <1>4, <1>6 DEF Bucket, Lesser
<1>9. b.tokens <= Burst /\ b.tokens <= refilled /\ (b.tokens = Burst \/ b.tokens = refilled)
  BY <1>1, <1>4, <1>7 DEF Lesser
<1>10. Level(b) = b.tokens - now * PerMinute /\ now * PerMinute \in Int
  BY <1>1, <1>7 DEF Level
<1>11. Level(f) = f.tokens - f.last * PerMinute /\ Level(f) \in Int
  BY <1>1, <1>3 DEF Level
<1>12. Level(b) \in Int /\ Level(b) <= Level(f)
  BY <1>4, <1>5, <1>8, <1>9, <1>10, <1>11
<1>13. CASE ~old.held
  <2>1. refilled = Burst
    BY <1>1, <1>2, <1>5, <1>13
  <2> QED
    BY <2>1, <1>7, <1>8, <1>9, <1>10, <1>12, <1>13 DEF b, f
<1>14. CASE old.held /\ b.tokens = Burst
  BY <1>2, <1>7, <1>8, <1>9, <1>10, <1>12, <1>14 DEF b, f
<1>15. CASE old.held /\ b.tokens = refilled
  <2>1. Level(b) = Level(f)
    BY <1>3, <1>4, <1>5, <1>8, <1>10, <1>11, <1>15
  <2> QED
    BY <2>1, <1>2, <1>7, <1>8, <1>9, <1>12, <1>15 DEF b, f
<1> QED
  BY <1>9, <1>13, <1>14, <1>15

\* sweep drops only buckets that have been full for a while: after it nothing is
\* missing that the client could still miss.
LEMMA SweptIsSound ==
    ASSUME NEW b \in Bucket, NEW spending \in [Time -> [Time -> Nat]],
           NEW at \in Time, NEW now \in Time,
           Solvent(b, spending, at), b.held, now <= at, Idle(b, now)
    PROVE  Solvent(NoBucket, spending, at)
<1>1. /\ PerMinute \in Nat /\ Burst = PerMinute * Token /\ Token \in Nat
      /\ MaxLag \in Nat /\ IdleEviction \in Nat
      /\ IdleEviction >= Token + 2 * MaxLag
  BY LimiterConstants
<1>2. b.tokens \in Int /\ b.last \in Int /\ at \in Int /\ now \in Int
  BY DEF Bucket, Time
<1>3. ~NoBucket.held
  BY DEF NoBucket
<1>4. SweptWhenFull(NoBucket, spending, at)
  <2> SUFFICES ASSUME NEW s \in Time, NEW t \in Time, s <= t, spending[s][t] > 0
               PROVE  spending[s][t] * Token <= (at - MaxLag - s) * PerMinute
    BY DEF SweptWhenFull
  <2>1. s \in Int /\ spending[s][t] \in Nat
    <3>1. spending[s][t] \in Nat
      OBVIOUS
    <3> QED
      BY <3>1 DEF Time
  <2>2. spending[s][t] * Token + Level(b) <= Burst - s * PerMinute
    BY DEF Solvent, CreditSpent
  <2>3. PICK h \in Time : h <= b.last + MaxLag /\ Level(b) >= -(h * PerMinute)
    BY DEF Solvent, DebtBounded
  <2>4. h \in Int /\ Level(b) \in Int
    BY <1>1, <1>2 DEF Time, Level
  <2>5. Token + h - s <= at - MaxLag - s
    BY <1>1, <1>2, <2>1, <2>3, <2>4 DEF Idle
  <2>6. (Token + h - s) * PerMinute <= (at - MaxLag - s) * PerMinute
    BY SharesMonotone, <1>1, <1>2, <2>1, <2>4, <2>5
  <2>7. /\ spending[s][t] * Token \in Int
        /\ h * PerMinute \in Int /\ s * PerMinute \in Int /\ Burst \in Int
    BY <1>1, <2>1, <2>4
  <2>8. (Token + h - s) * PerMinute = Burst + h * PerMinute - s * PerMinute
    BY <1>1, <2>1, <2>4
  <2>9. spending[s][t] * Token <= Burst + h * PerMinute - s * PerMinute
    BY <2>2, <2>3, <2>4, <2>7
  <2>10. (at - MaxLag - s) * PerMinute \in Int
    BY <1>1, <1>2, <2>1
  <2> QED
    BY <2>6, <2>7, <2>8, <2>9, <2>10
<1> QED
  BY <1>3, <1>4 DEF Solvent, CreditSpent, DebtBounded, NothingLost

\* What a call finds once it holds the lock and has refilled the bucket: everything
\* that was admitted is off its level, and nothing else that a late reading cannot
\* explain.
LEMMA RefilledIsSound ==
    ASSUME NEW old \in Bucket, NEW spending \in [Time -> [Time -> Nat]],
           NEW at \in Time, NEW now \in Time,
           Solvent(old, spending, at), now <= at, at - now <= MaxLag
    PROVE  LET b == Refilled(Found(old, now), now)
           IN  /\ Solvent(b, spending, at)
               /\ \E s \in Time :
                    /\ s = 0 \/ s + MaxLag <= at
                    /\ s <= now
                    /\ spending[s][Horizon] * Token + Level(b)
                          >= Burst - (s + MaxLag) * PerMinute
               /\ \A s, t \in Time : s <= t /\ spending[s][t] > 0 =>
                    spending[s][t] * Token + Level(b) <= Burst - s * PerMinute
<1> DEFINE b == Refilled(Found(old, now), now)
<1>1. /\ PerMinute \in Nat /\ PerMinute > 0
      /\ Burst = PerMinute * Token /\ Burst \in Nat /\ Token \in Nat
      /\ Burst >= Token /\ MaxLag \in Nat /\ Horizon \in Nat
  BY LimiterConstants
<1>2. /\ old.tokens \in Int /\ old.last \in Int /\ old.held \in BOOLEAN
      /\ at \in Int /\ now \in Nat /\ now <= Horizon
  BY DEF Bucket, Time
<1>3. Level(old) \in Int /\ now * PerMinute \in Int
  BY <1>1, <1>2 DEF Level
<1>4. /\ b \in Bucket /\ b.held /\ b.last = now /\ Level(b) \in Int
      /\ \/ /\ b.tokens = Burst /\ Level(b) = Burst - now * PerMinute
            /\ old.held => Level(b) <= Level(old)
         \/ old.held /\ Level(b) = Level(old)
  BY RefillKeepsLevel
<1> HIDE DEF b
<1>5. ASSUME NEW s \in Time, NEW t \in Time, s <= t, spending[s][t] > 0
      PROVE  spending[s][t] * Token + Level(b) <= Burst - s * PerMinute
  <2>1. s \in Int /\ spending[s][t] \in Nat /\ spending[s][t] * Token \in Int
    <3>1. spending[s][t] \in Nat
      OBVIOUS
    <3>2. spending[s][t] * Token \in Int
      BY <1>1, <3>1
    <3> QED
      BY <3>1, <3>2 DEF Time
  <2>2. s * PerMinute \in Int
    BY <1>1, <2>1
  <2>3. CASE old.held
    <3>1. spending[s][t] * Token + Level(old) <= Burst - s * PerMinute
      BY <1>5, <2>3 DEF Solvent, CreditSpent
    <3>2. Level(b) <= Level(old)
      BY <1>3, <1>4, <2>3
    <3>3. spending[s][t] * Token \in Int /\ Level(b) \in Int /\ Level(old) \in Int
      BY <1>3, <1>4, <2>1
    <3> QED
      BY <1>1, <2>2, <3>1, <3>2, <3>3
  <2>4. CASE ~old.held
    <3>1. spending[s][t] * Token <= (at - MaxLag - s) * PerMinute
      BY <1>5, <2>4 DEF Solvent, SweptWhenFull
    <3>2. (at - MaxLag - s) * PerMinute <= (now - s) * PerMinute
      BY SharesMonotone, <1>1, <1>2, <2>1
    <3>3. (now - s) * PerMinute = now * PerMinute - s * PerMinute
      BY <1>1, <1>2, <2>1
    <3>4. (at - MaxLag - s) * PerMinute \in Int
      BY <1>1, <1>2, <2>1
    <3>5. spending[s][t] * Token <= now * PerMinute - s * PerMinute
      BY <1>3, <2>1, <2>2, <3>1, <3>2, <3>3, <3>4
    <3>6. Level(b) = Burst - now * PerMinute
      BY <1>4, <2>4
    <3>7. spending[s][t] * Token \in Int /\ Burst \in Int
      BY <1>1, <2>1
    <3> QED
      BY <1>3, <2>2, <3>5, <3>6, <3>7
  <2> QED
    BY <1>2, <2>3, <2>4
<1>6. \E s \in Time :
        /\ s = 0 \/ s + MaxLag <= at
        /\ s <= now
        /\ spending[s][Horizon] * Token + Level(b) >= Burst - (s + MaxLag) * PerMinute
  <2>1. CASE Level(b) = Burst - now * PerMinute
    <3> DEFINE s == IF now <= MaxLag THEN 0 ELSE now - MaxLag
    <3>1. s \in Time /\ s \in Int /\ (s = 0 \/ s + MaxLag <= at) /\ s <= now
      BY <1>1, <1>2 DEF Time
    <3>2. now <= s + MaxLag
      BY <1>1, <1>2
    <3> HIDE DEF s
    <3>3. now * PerMinute <= (s + MaxLag) * PerMinute
      BY SharesMonotone, <1>1, <1>2, <3>1, <3>2
    <3>4. spending[s][Horizon] \in Nat
      <4>1. Horizon \in Time
        BY <1>1 DEF Time
      <4> QED
        BY <3>1, <4>1
    <3>5. spending[s][Horizon] * Token \in Nat /\ (s + MaxLag) * PerMinute \in Int
      BY <1>1, <3>1, <3>4
    <3>6. spending[s][Horizon] * Token + Level(b) >= Burst - (s + MaxLag) * PerMinute
      BY <1>1, <1>3, <2>1, <3>3, <3>5
    <3> QED
      BY <3>1, <3>6
  <2>2. CASE old.held /\ Level(b) = Level(old)
    <3>1. PICK s \in Time :
             /\ s = 0 \/ s + MaxLag <= at
             /\ spending[s][Horizon] * Token + Level(old)
                    >= Burst - (s + MaxLag) * PerMinute
      BY <2>2 DEF Solvent, NothingLost
    <3>2. s <= now
      BY <1>1, <1>2, <3>1 DEF Time
    <3> QED
      BY <2>2, <3>1, <3>2
  <2> QED
    BY <1>4, <2>1, <2>2
<1>7. CreditSpent(b, spending)
  BY <1>5 DEF CreditSpent
<1>8. NothingLost(b, spending, at)
  BY <1>6 DEF NothingLost
<1>9. DebtBounded(b, at)
  <2>1. CASE Level(b) = Burst - now * PerMinute
    <3>1. Level(b) >= -(now * PerMinute) /\ now <= b.last + MaxLag
      BY <1>1, <1>2, <1>3, <1>4, <2>1
    <3> QED
      BY <3>1 DEF DebtBounded
  <2>2. CASE old.held /\ Level(b) = Level(old)
    <3>1. PICK h \in Time : h <= at /\ Level(old) >= -(h * PerMinute)
      BY <2>2 DEF Solvent, DebtBounded
    <3>2. h <= b.last + MaxLag
      BY <1>1, <1>2, <1>4, <3>1 DEF Time
    <3> QED
      BY <2>2, <3>1, <3>2 DEF DebtBounded
  <2> QED
    BY <1>4, <2>1, <2>2
<1>10. WithinBound(spending) /\ SweptWhenFull(b, spending, at)
  BY <1>4 DEF Solvent, SweptWhenFull
<1> QED
  BY <1>5, <1>6, <1>7, <1>8, <1>9, <1>10 DEF Solvent, b

\* Time passing costs a client nothing (Tick).
LEMMA TimeIsSound ==
    ASSUME NEW b \in Bucket, NEW spending \in [Time -> [Time -> Nat]],
           NEW at \in Time, at + 1 \in Time, Solvent(b, spending, at)
    PROVE  Solvent(b, spending, at + 1)
<1>1. PerMinute \in Nat /\ MaxLag \in Nat /\ Token \in Nat /\ at \in Int
  BY LimiterConstants DEF Time
<1>2. DebtBounded(b, at + 1)
  <2>1. SUFFICES ASSUME b.held
                 PROVE  \E h \in Time : /\ h <= at + 1 /\ h <= b.last + MaxLag
                                        /\ Level(b) >= -(h * PerMinute)
    BY DEF DebtBounded
  <2>2. PICK h \in Time : /\ h <= at /\ h <= b.last + MaxLag
                          /\ Level(b) >= -(h * PerMinute)
    BY <2>1 DEF Solvent, DebtBounded
  <2>3. h <= at + 1
    BY <1>1, <2>2 DEF Time
  <2> QED
    BY <2>2, <2>3
<1>3. NothingLost(b, spending, at + 1)
  <2>1. SUFFICES ASSUME b.held
                 PROVE  \E s \in Time :
                          /\ s = 0 \/ s + MaxLag <= at + 1
                          /\ spending[s][Horizon] * Token + Level(b)
                                >= Burst - (s + MaxLag) * PerMinute
    BY DEF NothingLost
  <2>2. PICK s \in Time : /\ s = 0 \/ s + MaxLag <= at
                          /\ spending[s][Horizon] * Token + Level(b)
                                >= Burst - (s + MaxLag) * PerMinute
    BY <2>1 DEF Solvent, NothingLost
  <2>3. s = 0 \/ s + MaxLag <= at + 1
    BY <1>1, <2>2 DEF Time
  <2> QED
    BY <2>2, <2>3
<1>4. SweptWhenFull(b, spending, at + 1)
  <2>h. SUFFICES ASSUME ~b.held
                 PROVE  \A s, t \in Time : s <= t /\ spending[s][t] > 0 =>
                           spending[s][t] * Token <= ((at + 1) - MaxLag - s) * PerMinute
    BY DEF SweptWhenFull
  <2> TAKE s, t \in Time
  <2> HAVE s <= t /\ spending[s][t] > 0
  <2>1. spending[s][t] \in Nat
    OBVIOUS
  <2>2. spending[s][t] * Token \in Int
    BY <1>1, <2>1
  <2>3. s \in Int
    BY DEF Time
  <2>4. spending[s][t] * Token <= (at - MaxLag - s) * PerMinute
    BY <2>h DEF Solvent, SweptWhenFull
  <2>5. (at - MaxLag - s) * PerMinute <= ((at + 1) - MaxLag - s) * PerMinute
    BY SharesMonotone, <1>1, <2>3
  <2>6. /\ (at - MaxLag - s) * PerMinute \in Int
        /\ ((at + 1) - MaxLag - s) * PerMinute \in Int
    BY <1>1, <2>3
  <2> QED
    BY <2>2, <2>4, <2>5, <2>6
<1> QED
  BY <1>2, <1>3, <1>4 DEF Solvent

\* The history with one more admission at a reading (Admit).
Charged(spending, now) ==
    [s \in Time |-> [t \in Time |->
        IF s <= now /\ now <= t THEN spending[s][t] + 1 ELSE spending[s][t]]]

\* Admitting a call keeps every window within its bound: the bucket that pays for
\* it holds what the window has left.
LEMMA AdmittedIsSound ==
    ASSUME NEW old \in Bucket, NEW spending \in [Time -> [Time -> Nat]],
           NEW at \in Time, NEW now \in Time,
           Solvent(old, spending, at), now <= at, at - now <= MaxLag,
           Enough(Refilled(Found(old, now), now))
    PROVE  LET b == Taken(Refilled(Found(old, now), now))
           IN  /\ b \in Bucket /\ b.held /\ b.last = now /\ b.tokens <= Burst
               /\ Solvent(b, Charged(spending, now), at)
<1> DEFINE full == Refilled(Found(old, now), now)
           b == Taken(full)
           charged == Charged(spending, now)
<1>1. /\ PerMinute \in Nat /\ Burst \in Nat /\ Token \in Nat /\ Token > 0
      /\ MaxLag \in Nat /\ Horizon \in Nat /\ Horizon \in Time
      /\ at \in Int /\ now \in Int /\ now * PerMinute \in Int
  BY LimiterConstants DEF Time
<1>2. /\ full \in Bucket /\ full.held /\ full.last = now /\ full.tokens <= Burst
      /\ Level(full) \in Int
  BY RefillKeepsLevel
<1>3. /\ Solvent(full, spending, at)
      /\ \E s \in Time :
            /\ s = 0 \/ s + MaxLag <= at
            /\ s <= now
            /\ spending[s][Horizon] * Token + Level(full)
                  >= Burst - (s + MaxLag) * PerMinute
      /\ \A s, t \in Time : s <= t /\ spending[s][t] > 0 =>
            spending[s][t] * Token + Level(full) <= Burst - s * PerMinute
  BY RefilledIsSound
<1>4. full.tokens >= Token
  BY DEF Enough
<1> HIDE DEF full
<1>5. full.tokens \in Int /\ Level(full) = full.tokens - now * PerMinute
  BY <1>2 DEF Bucket, Level
<1>6. /\ b \in Bucket /\ b.held /\ b.last = now
      /\ b.tokens = full.tokens - Token
  BY <1>1, <1>2, <1>5 DEF Taken, Bucket
<1> HIDE DEF b
<1>7. b.tokens \in Int /\ b.tokens <= Burst /\ b.tokens >= 0
  BY <1>1, <1>2, <1>4, <1>5, <1>6
<1>8. Level(b) = Level(full) - Token /\ Level(b) \in Int /\ Level(b) >= -(now * PerMinute)
  BY <1>1, <1>2, <1>5, <1>6, <1>7 DEF Level
<1>9. ASSUME NEW s \in Time, NEW t \in Time
      PROVE  /\ spending[s][t] \in Nat /\ charged[s][t] \in Nat
             /\ s \in Int /\ t \in Int
             /\ s * PerMinute \in Int /\ t * PerMinute \in Int
             /\ spending[s][t] * Token \in Int
             /\ charged[s][t] * Token \in Int
             /\ \/ /\ charged[s][t] = spending[s][t] + 1 /\ s <= now /\ now <= t
                   /\ charged[s][t] * Token = spending[s][t] * Token + Token
                \/ /\ charged[s][t] = spending[s][t] /\ ~(s <= now /\ now <= t)
                   /\ charged[s][t] * Token = spending[s][t] * Token
  <2>1. spending[s][t] \in Nat
    OBVIOUS
  <2>2. charged[s][t] = IF s <= now /\ now <= t THEN spending[s][t] + 1 ELSE spending[s][t]
    BY DEF Charged
  <2>3. charged[s][t] \in Nat
    BY <2>1, <2>2
  <2>4. s \in Int /\ t \in Int
    BY DEF Time
  <2>5. s * PerMinute \in Int /\ t * PerMinute \in Int
    BY <1>1, <2>4
  <2>6. spending[s][t] * Token \in Int /\ charged[s][t] * Token \in Int
    BY <1>1, <2>1, <2>3
  <2>7. (spending[s][t] + 1) * Token = spending[s][t] * Token + Token
    BY <1>1, <2>1
  <2> QED
    BY <2>1, <2>2, <2>3, <2>4, <2>5, <2>6, <2>7
<1> HIDE DEF charged
<1>10. CreditSpent(b, charged)
  <2> SUFFICES ASSUME NEW s \in Time, NEW t \in Time, s <= t, charged[s][t] > 0
               PROVE  charged[s][t] * Token + Level(b) <= Burst - s * PerMinute
    BY DEF CreditSpent
  <2>1. CASE spending[s][t] > 0
    <3>1. spending[s][t] * Token + Level(full) <= Burst - s * PerMinute
      BY <1>3, <2>1
    <3>2. charged[s][t] * Token <= spending[s][t] * Token + Token
      BY <1>1, <1>9
    <3> QED
      BY <1>1, <1>2, <1>8, <1>9, <3>1, <3>2
  <2>2. CASE spending[s][t] = 0
    <3>1. charged[s][t] = 1 /\ s <= now
      BY <1>9, <2>2
    <3>2. charged[s][t] * Token = Token
      BY <1>1, <3>1
    <3>3. s * PerMinute <= now * PerMinute
      BY SharesMonotone, <1>1, <1>9, <3>1
    <3>4. Level(b) <= Burst - now * PerMinute - Token
      BY <1>1, <1>2, <1>5, <1>8
    <3>5. charged[s][t] * Token \in Int /\ s * PerMinute \in Int
      BY <1>9
    <3> QED
      BY <1>1, <1>8, <3>2, <3>3, <3>4, <3>5
  <2> QED
    BY <1>9, <2>1, <2>2
<1>11. WithinBound(charged)
  <2> SUFFICES ASSUME NEW s \in Time, NEW t \in Time, s <= t
               PROVE  charged[s][t] * Token <= Burst + (t - s) * PerMinute
    BY DEF WithinBound
  <2>1. (t - s) * PerMinute = t * PerMinute - s * PerMinute
    BY <1>1, <1>9
  <2>2. CASE charged[s][t] = spending[s][t]
    BY <1>3, <2>2 DEF Solvent, WithinBound
  <2>3. CASE charged[s][t] = spending[s][t] + 1 /\ s <= now /\ now <= t
    <3>1. charged[s][t] > 0
      BY <1>9, <2>3
    <3>2. charged[s][t] * Token + Level(b) <= Burst - s * PerMinute
      BY <1>6, <1>10, <3>1 DEF CreditSpent
    <3>3. now * PerMinute <= t * PerMinute
      BY SharesMonotone, <1>1, <1>9, <2>3
    <3>4. charged[s][t] * Token \in Int /\ s * PerMinute \in Int /\ t * PerMinute \in Int
      BY <1>9
    <3> QED
      BY <1>1, <1>8, <2>1, <3>2, <3>3, <3>4
  <2> QED
    BY <1>9, <2>2, <2>3
<1>12. DebtBounded(b, at)
  <2>1. now <= b.last + MaxLag
    BY <1>1, <1>6
  <2> QED
    BY <1>8, <2>1 DEF DebtBounded
<1>13. NothingLost(b, charged, at)
  <2>1. PICK s \in Time :
           /\ s = 0 \/ s + MaxLag <= at
           /\ s <= now
           /\ spending[s][Horizon] * Token + Level(full)
                 >= Burst - (s + MaxLag) * PerMinute
    BY <1>3
  <2>2. now <= Horizon
    BY DEF Time
  <2>3. charged[s][Horizon] * Token = spending[s][Horizon] * Token + Token
    BY <1>1, <1>9, <2>1, <2>2
  <2>4. spending[s][Horizon] * Token \in Int /\ (s + MaxLag) * PerMinute \in Int
    BY <1>1, <1>9
  <2>5. charged[s][Horizon] * Token + Level(b) >= Burst - (s + MaxLag) * PerMinute
    BY <1>1, <1>2, <1>8, <2>1, <2>3, <2>4
  <2> QED
    BY <2>1, <2>5 DEF NothingLost
<1>14. SweptWhenFull(b, charged, at)
  BY <1>6 DEF SweptWhenFull
<1> QED
  BY <1>6, <1>7, <1>10, <1>11, <1>12, <1>13, <1>14 DEF Solvent, b, charged, full

\* A refused call leaves the level alone, so what it was told to wait is enough.
LEMMA RefusedKeepsItsLevel ==
    ASSUME NEW old \in Bucket, NEW now \in Time,
           ~Enough(Refilled(Found(old, now), now))
    PROVE  LET b == Refilled(Found(old, now), now)
           IN  /\ old.held /\ Level(b) = Level(old)
               /\ b.tokens = Level(old) + now * PerMinute
               /\ PromiseKept(b, now + RetryAfter(b) * TicksPerSecond)
               /\ now + RetryAfter(b) * TicksPerSecond \in Int
<1> DEFINE b == Refilled(Found(old, now), now)
           perSecond == PerMinute * TicksPerSecond
           missing == b.tokens - Token
           wait == RetryAfter(b)
<1>1. /\ PerMinute \in Nat /\ PerMinute > 0 /\ Burst \in Nat /\ Token \in Nat
      /\ Burst >= Token /\ TicksPerSecond \in Nat /\ TicksPerSecond > 0
      /\ now \in Int /\ now * PerMinute \in Int
  BY LimiterConstants DEF Time
<1>2. /\ b \in Bucket /\ b.held /\ b.last = now /\ Level(b) \in Int
      /\ b.tokens = Burst \/ (old.held /\ Level(b) = Level(old))
  BY RefillKeepsLevel
<1>3. ~(b.tokens >= Token)
  BY DEF Enough
<1> HIDE DEF b
<1>4. b.tokens \in Int /\ Level(b) = b.tokens - now * PerMinute
  BY <1>2 DEF Bucket, Level
<1>5. old.held /\ Level(b) = Level(old)
  BY <1>1, <1>2, <1>3
<1>6. b.tokens = Level(old) + now * PerMinute
  BY <1>1, <1>2, <1>4, <1>5
<1>7. perSecond \in Nat /\ perSecond > 0
  <2>1. 1 * TicksPerSecond <= PerMinute * TicksPerSecond
    BY SharesMonotone, <1>1
  <2> QED
    BY <1>1, <2>1
<1>8. missing \in Int
  BY <1>1, <1>4
<1>9. missing \div perSecond \in Int /\ (missing \div perSecond) * perSecond <= missing
  <2> HIDE DEF missing, perSecond
  <2> QED
    BY QuotientBelow, <1>7, <1>8
<1>10. wait = -(missing \div perSecond)
  BY DEF RetryAfter
<1> HIDE DEF missing, wait
<1>11. wait \in Int /\ wait * perSecond >= Token - b.tokens
  <2>1. wait \in Int /\ wait * perSecond = -((missing \div perSecond) * perSecond)
    <3> HIDE DEF perSecond
    <3> QED
      BY <1>7, <1>9, <1>10
  <2>2. missing = b.tokens - Token
    BY DEF missing
  <2>3. (missing \div perSecond) * perSecond \in Int
    <3> HIDE DEF perSecond
    <3> QED
      BY <1>7, <1>9
  <2> HIDE DEF perSecond
  <2> QED
    BY <1>1, <1>4, <1>9, <2>1, <2>2, <2>3
<1>12. (now + wait * TicksPerSecond) * PerMinute = now * PerMinute + wait * perSecond
  BY <1>1, <1>11
<1>13. now + wait * TicksPerSecond \in Int /\ wait * perSecond \in Int
  BY <1>1, <1>11
<1>14. Level(b) + (now + wait * TicksPerSecond) * PerMinute >= Token
  <2> HIDE DEF perSecond
  <2> QED
    BY <1>1, <1>4, <1>11, <1>12, <1>13
<1> QED
  BY <1>5, <1>6, <1>13, <1>14 DEF PromiseKept, b, wait

\* sweep, as a whole, keeps every client's bucket sound (Swept).
LEMMA SweptBuckets ==
    ASSUME IInv, NEW c \in Clients, NEW now \in Time, now <= clock
    PROVE  /\ Swept(now) \in [Clients -> Bucket]
           /\ Swept(now)[c].tokens <= Burst /\ Swept(now)[c].last <= clock
           /\ Solvent(Swept(now)[c], spent[c], clock)
           /\ PromiseKept(Swept(now)[c], promised[c])
           /\ Swept(now)[c].held => Swept(now)[c] = buckets[c]
<1>1. /\ buckets \in [Clients -> Bucket] /\ spent \in [Clients -> [Time -> [Time -> Nat]]]
      /\ clock \in Time
      /\ buckets[c].tokens <= Burst /\ buckets[c].last <= clock
      /\ Solvent(buckets[c], spent[c], clock) /\ PromiseKept(buckets[c], promised[c])
  BY DEF IInv, TypeOK
<1>2. Burst \in Nat /\ 0 \in Time /\ 0 <= clock
  BY <1>1, LimiterConstants DEF Time
<1>3. /\ NoBucket \in Bucket /\ NoBucket.tokens <= Burst /\ NoBucket.last <= clock
      /\ ~NoBucket.held /\ PromiseKept(NoBucket, promised[c])
  BY <1>2 DEF NoBucket, Bucket, PromiseKept
<1>4. Swept(now) \in [Clients -> Bucket]
  BY <1>1, <1>3 DEF Swept
<1>5. CASE Swept(now)[c] = buckets[c]
  BY <1>1, <1>4, <1>5
<1>6. CASE Swept(now)[c] = NoBucket /\ ~buckets[c].held
  <2>1. Solvent(NoBucket, spent[c], clock)
    BY <1>1, <1>3, <1>6 DEF Solvent, CreditSpent, DebtBounded, SweptWhenFull, NothingLost
  <2> QED
    BY <1>3, <1>4, <1>6, <2>1
<1>7. CASE Swept(now)[c] = NoBucket /\ buckets[c].held /\ Idle(buckets[c], now)
  <2>1. Solvent(NoBucket, spent[c], clock)
    BY <1>1, <1>7, SweptIsSound
  <2> QED
    BY <1>3, <1>4, <1>7, <2>1
<1>8. Swept(now)[c] = buckets[c]
         \/ (Swept(now)[c] = NoBucket /\ Idle(buckets[c], now))
  BY DEF Swept
<1> QED
  BY <1>5, <1>6, <1>7, <1>8

\* A call that holds the lock has read the clock no more than MaxLag ago.
LEMMA ReadingIsRecent ==
    ASSUME TypeOK, NEW r \in Requests, Calling(r)
    PROVE  /\ reading[r] \in Time /\ reading[r] <= clock /\ clock - reading[r] <= MaxLag
           /\ ClientOf[r] \in Clients
<1>1. reading[r] \in Time
  BY DEF TypeOK, Calling
<1> QED
  BY <1>1, LimiterAssumption DEF TypeOK

\* The initial state has no buckets and nothing admitted.
LEMMA InitIInv ==
    Init => IInv
<1> SUFFICES ASSUME Init
             PROVE  IInv
  OBVIOUS
<1>1. /\ Horizon \in Nat /\ Burst \in Nat /\ PerMinute \in Nat /\ Token \in Nat
      /\ 0 \in Time
  BY LimiterConstants DEF Time
<1>2. TicksPerMinute \in Int
  BY LimiterAssumption DEF TicksPerMinute
<1>3. -TicksPerMinute \in Int
  BY <1>2
<1>4. NoBucket \in Bucket /\ NoBucket.tokens = 0 /\ NoBucket.last = 0 /\ ~NoBucket.held
  BY <1>1 DEF NoBucket, Bucket
<1>5. TypeOK
  BY <1>1, <1>3, <1>4 DEF Init, TypeOK, Calling, NoReading, NoPromise
<1>6. ASSUME NEW c \in Clients
      PROVE  Solvent(buckets[c], spent[c], clock) /\ PromiseKept(buckets[c], promised[c])
  <2>1. buckets[c] = NoBucket
    BY DEF Init
  <2>2. \A s, t \in Time : spent[c][s][t] = 0
    BY DEF Init
  <2>3. WithinBound(spent[c])
    <3> SUFFICES ASSUME NEW s \in Time, NEW t \in Time, s <= t
                 PROVE  spent[c][s][t] * Token <= Burst + (t - s) * PerMinute
      BY DEF WithinBound
    <3>1. s \in Int /\ t \in Int
      BY DEF Time
    <3>2. 0 * PerMinute <= (t - s) * PerMinute
      BY SharesMonotone, <1>1, <3>1
    <3>3. (t - s) * PerMinute \in Int
      BY <1>1, <3>1
    <3>4. spent[c][s][t] * Token = 0
      BY <1>1, <2>2
    <3> QED
      BY <1>1, <3>2, <3>3, <3>4
  <2>4. SweptWhenFull(NoBucket, spent[c], clock)
    BY <2>2 DEF SweptWhenFull
  <2> QED
    BY <1>4, <2>1, <2>3, <2>4 DEF Solvent, CreditSpent, DebtBounded, NothingLost, PromiseKept
<1> QED
  BY <1>5, <1>6 DEF IInv

\* Time passes.
LEMMA TickIInv ==
    ASSUME IInv, Tick
    PROVE  IInv'
<1>1. /\ TypeOK /\ clock \in Time /\ clock' = clock + 1 /\ clock < Horizon
      /\ UNCHANGED <<reading, buckets, sweepAt, spent, promised>>
      /\ MaxLag \in Nat /\ Horizon \in Nat
  BY LimiterConstants DEF IInv, TypeOK, Tick
<1>2. clock' \in Time /\ clock \in Int
  BY <1>1 DEF Time
<1>3. TypeOK'
  <2>1. \A c \in Clients : (buckets[c].tokens <= Burst /\ buckets[c].last <= clock)'
    BY <1>1, <1>2 DEF TypeOK, Bucket, Time
  <2>2. ASSUME NEW r \in Requests, Calling(r)'
        PROVE  (reading[r] <= clock /\ clock - reading[r] <= MaxLag)'
    <3>1. Calling(r)
      BY <1>1, <2>2 DEF Calling
    <3>2. reading[r] \in Int /\ reading[r] <= clock
      BY <1>1, <3>1, ReadingIsRecent DEF Time
    <3>3. clock - reading[r] < MaxLag
      BY <3>1 DEF Tick
    <3> QED
      BY <1>1, <1>2, <3>2, <3>3
  <2> QED
    BY <1>1, <1>2, <2>1, <2>2 DEF TypeOK
<1>4. ASSUME NEW c \in Clients
      PROVE  (Solvent(buckets[c], spent[c], clock) /\ PromiseKept(buckets[c], promised[c]))'
  <2>1. /\ buckets[c] \in Bucket /\ spent[c] \in [Time -> [Time -> Nat]]
        /\ Solvent(buckets[c], spent[c], clock) /\ PromiseKept(buckets[c], promised[c])
    BY DEF IInv, TypeOK
  <2>2. Solvent(buckets[c], spent[c], clock + 1)
    BY <1>1, <1>2, <2>1, TimeIsSound
  <2> QED
    BY <1>1, <2>1, <2>2
<1> QED
  BY <1>3, <1>4 DEF IInv

\* A call reads the clock.
LEMMA ReadClockIInv ==
    ASSUME IInv, NEW r \in Requests, ReadClock(r)
    PROVE  IInv'
<1>1. /\ TypeOK /\ clock \in Time
      /\ reading' = [reading EXCEPT ![r] = clock]
      /\ UNCHANGED <<clock, buckets, sweepAt, spent, promised>>
      /\ MaxLag \in Nat /\ Horizon \in Nat
  BY LimiterConstants DEF IInv, TypeOK, ReadClock
<1>2. TypeOK'
  <2>1. reading' \in [Requests -> Time \cup {NoReading}]
    BY <1>1 DEF TypeOK
  <2>2. ASSUME NEW q \in Requests, Calling(q)'
        PROVE  (reading[q] <= clock /\ clock - reading[q] <= MaxLag)'
    <3>1. CASE q = r
      BY <1>1, <3>1 DEF TypeOK, Time
    <3>2. CASE q # r
      <4>1. Calling(q) /\ reading'[q] = reading[q]
        BY <1>1, <2>2, <3>2 DEF TypeOK, Calling
      <4> QED
        BY <1>1, <4>1, ReadingIsRecent
    <3> QED
      BY <3>1, <3>2
  <2> QED
    BY <1>1, <2>1, <2>2 DEF TypeOK
<1> QED
  BY <1>1, <1>2 DEF IInv

\* What both ends of a call have in common: every bucket but the caller's is as
\* sweep left it.
LEMMA ServedIInv ==
    ASSUME IInv, NEW r \in Requests, Calling(r),
           NEW b \in Bucket, b.tokens <= Burst, b.last <= clock,
           NEW spending \in [Time -> [Time -> Nat]], NEW p \in Int,
           Solvent(b, spending, clock), PromiseKept(b, p),
           buckets' = [Swept(reading[r]) EXCEPT ![ClientOf[r]] = b],
           sweepAt' = IF SweepDue(reading[r]) THEN reading[r] ELSE sweepAt,
           spent' = [spent EXCEPT ![ClientOf[r]] = spending],
           promised' = [promised EXCEPT ![ClientOf[r]] = p],
           reading' = [reading EXCEPT ![r] = NoReading],
           clock' = clock
    PROVE  IInv'
<1> DEFINE now == reading[r]
           swept == Swept(now)
<1>1. /\ now \in Time /\ now <= clock /\ ClientOf[r] \in Clients /\ TypeOK
  BY ReadingIsRecent DEF IInv
<1>2. now \in Int
  BY <1>1 DEF Time
<1>3. swept \in [Clients -> Bucket]
  BY <1>1, SweptBuckets
<1>4. ASSUME NEW c \in Clients, c # ClientOf[r]
      PROVE  /\ swept[c].tokens <= Burst /\ swept[c].last <= clock
             /\ Solvent(swept[c], spent[c], clock) /\ PromiseKept(swept[c], promised[c])
  BY <1>1, SweptBuckets
<1> HIDE DEF swept
<1>5. buckets' = [swept EXCEPT ![ClientOf[r]] = b]
  BY DEF swept
<1>6. TypeOK'
  <2>1. buckets' \in [Clients -> Bucket]
    BY <1>1, <1>3, <1>5
  <2>2. /\ spent' \in [Clients -> [Time -> [Time -> Nat]]]
        /\ promised' \in [Clients -> Int]
        /\ reading' \in [Requests -> Time \cup {NoReading}]
        /\ clock' \in Time
    BY <1>1 DEF TypeOK
  <2>3. sweepAt' \in Int
    BY <1>1, <1>2 DEF TypeOK
  <2>4. ASSUME NEW c \in Clients
        PROVE  (buckets[c].tokens <= Burst /\ buckets[c].last <= clock)'
    BY <1>3, <1>4, <1>5
  <2>5. ASSUME NEW q \in Requests, Calling(q)'
        PROVE  (reading[q] <= clock /\ clock - reading[q] <= MaxLag)'
    <3>1. q # r
      BY <1>1, <2>5 DEF TypeOK, Calling
    <3>2. Calling(q) /\ reading'[q] = reading[q]
      BY <1>1, <2>5, <3>1 DEF TypeOK, Calling
    <3> QED
      BY <1>1, <3>2, ReadingIsRecent
  <2> QED
    BY <2>1, <2>2, <2>3, <2>4, <2>5 DEF TypeOK
<1>7. ASSUME NEW c \in Clients
      PROVE  (Solvent(buckets[c], spent[c], clock) /\ PromiseKept(buckets[c], promised[c]))'
  <2>1. CASE c = ClientOf[r]
    <3>1. buckets'[c] = b /\ spent'[c] = spending /\ promised'[c] = p
      BY <1>1, <1>3, <1>5, <2>1 DEF TypeOK
    <3> QED
      BY <3>1
  <2>2. CASE c # ClientOf[r]
    <3>1. buckets'[c] = swept[c] /\ spent'[c] = spent[c] /\ promised'[c] = promised[c]
      BY <1>1, <1>3, <1>5, <2>2 DEF TypeOK
    <3> QED
      BY <1>4, <2>2, <3>1
  <2> QED
    BY <2>1, <2>2
<1> QED
  BY <1>6, <1>7 DEF IInv

\* Allow admits.
LEMMA AdmitIInv ==
    ASSUME IInv, NEW r \in Requests, Admit(r)
    PROVE  IInv'
<1> DEFINE c == ClientOf[r]
           now == reading[r]
           old == Swept(now)[c]
           b == Taken(Refilled(Found(old, now), now))
           spending == Charged(spent[c], now)
<1>1. /\ Calling(r) /\ Enough(Refilled(Found(old, now), now))
      /\ buckets' = [Swept(now) EXCEPT ![c] = b]
      /\ sweepAt' = IF SweepDue(now) THEN now ELSE sweepAt
      /\ spent' = [spent EXCEPT ![c] =
                [s \in Time |-> [t \in Time |->
                    IF s <= now /\ now <= t THEN @[s][t] + 1 ELSE @[s][t]]]]
      /\ promised' = [promised EXCEPT ![c] = NoPromise]
      /\ reading' = [reading EXCEPT ![r] = NoReading]
      /\ clock' = clock
  BY DEF Admit
<1>2. /\ now \in Time /\ now <= clock /\ clock - now <= MaxLag /\ c \in Clients
  BY <1>1, ReadingIsRecent DEF IInv
<1>3. clock \in Time /\ spent[c] \in [Time -> [Time -> Nat]]
  BY <1>2 DEF IInv, TypeOK
<1>4. old \in Bucket /\ Solvent(old, spent[c], clock)
  BY <1>2, SweptBuckets
<1> HIDE DEF now, c
<1>5. /\ b \in Bucket /\ b.held /\ b.last = now /\ b.tokens <= Burst
      /\ Solvent(b, spending, clock)
  BY <1>1, <1>2, <1>3, <1>4, AdmittedIsSound
<1>6. spending \in [Time -> [Time -> Nat]]
  <2>1. ASSUME NEW s \in Time, NEW t \in Time
        PROVE  (IF s <= now /\ now <= t THEN spent[c][s][t] + 1 ELSE spent[c][s][t]) \in Nat
    <3>1. spent[c][s][t] \in Nat
      BY <1>3
    <3> QED
      BY <3>1
  <2> QED
    BY <2>1 DEF Charged
<1>7. spent' = [spent EXCEPT ![c] = spending]
  BY <1>1 DEF Charged
<1>8. PromiseKept(b, NoPromise) /\ NoPromise \in Int
  BY DEF PromiseKept, NoPromise
<1> HIDE DEF b, spending
<1> QED
  BY <1>1, <1>2, <1>5, <1>6, <1>7, <1>8, ServedIInv DEF now, c

\* Allow rejects.
LEMMA RejectIInv ==
    ASSUME IInv, NEW r \in Requests, Reject(r)
    PROVE  IInv'
<1> DEFINE c == ClientOf[r]
           now == reading[r]
           old == Swept(now)[c]
           b == Refilled(Found(old, now), now)
           p == now + RetryAfter(b) * TicksPerSecond
<1>1. /\ Calling(r) /\ ~Enough(b)
      /\ buckets' = [Swept(now) EXCEPT ![c] = b]
      /\ sweepAt' = IF SweepDue(now) THEN now ELSE sweepAt
      /\ spent' = spent
      /\ promised' = [promised EXCEPT ![c] = p]
      /\ reading' = [reading EXCEPT ![r] = NoReading]
      /\ clock' = clock
  BY DEF Reject
<1>2. /\ now \in Time /\ now <= clock /\ clock - now <= MaxLag /\ c \in Clients
  BY <1>1, ReadingIsRecent DEF IInv
<1>3. /\ clock \in Time /\ spent[c] \in [Time -> [Time -> Nat]]
      /\ spent \in [Clients -> [Time -> [Time -> Nat]]]
  BY <1>2 DEF IInv, TypeOK
<1>4. old \in Bucket /\ Solvent(old, spent[c], clock)
  BY <1>2, SweptBuckets
<1> HIDE DEF now, c
<1>5. b \in Bucket /\ b.last = now /\ b.tokens <= Burst
  BY <1>2, <1>4, RefillKeepsLevel
<1>6. Solvent(b, spent[c], clock)
  BY <1>2, <1>3, <1>4, RefilledIsSound
<1>7. PromiseKept(b, p) /\ p \in Int
  BY <1>1, <1>2, <1>4, RefusedKeepsItsLevel
<1>8. spent' = [spent EXCEPT ![c] = spent[c]]
  BY <1>1, <1>2, <1>3
<1> HIDE DEF b, p
<1> QED
  BY <1>1, <1>2, <1>3, <1>5, <1>6, <1>7, <1>8, ServedIInv DEF now, c

\* Every step keeps the invariant.
LEMMA NextIInv ==
    IInv /\ [Next]_vars => IInv'
<1> SUFFICES ASSUME IInv, [Next]_vars
             PROVE  IInv'
  OBVIOUS
<1>1. CASE Tick
  BY <1>1, TickIInv
<1>2. ASSUME NEW r \in Requests, ReadClock(r)
      PROVE  IInv'
  BY <1>2, ReadClockIInv
<1>3. ASSUME NEW r \in Requests, Admit(r)
      PROVE  IInv'
  BY <1>3, AdmitIInv
<1>4. ASSUME NEW r \in Requests, Reject(r)
      PROVE  IInv'
  BY <1>4, RejectIInv
<1>5. CASE UNCHANGED vars
  BY <1>5 DEF vars, IInv, TypeOK, Calling
<1> QED
  BY <1>1, <1>2, <1>3, <1>4, <1>5 DEF Next

\* The reason the limiter keeps its promises: every bucket's level accounts for
\* what was admitted (Allow, sweep).
THEOREM LimiterInvariant ==
    Spec => []IInv
<1> QED
  BY InitIInv, NextIInv, PTL DEF Spec

\* Every variable keeps its type and no bucket exceeds the burst (NewRateLimiter).
THEOREM TypeCorrect ==
    Spec => []TypeOK
<1>1. IInv => TypeOK
  BY DEF IInv
<1> QED
  BY <1>1, LimiterInvariant, PTL

\* No stretch of time, wherever it begins, admits a client more often than the
\* burst and its refill (bucket: "a fixed window lets a caller send 2x").
THEOREM LimitHoldsInEveryWindow ==
    Spec => []WindowBound
<1>1. IInv => WindowBound
  BY DEF IInv, Solvent, WithinBound, WindowBound
<1> QED
  BY <1>1, LimiterInvariant, PTL

\* A client that waits for as long as Retry-After says is not turned away again
\* (Allow: "leaves the caller retrying into another rejection").
THEOREM WaitingPays ==
    Spec => RetryAfterSuffices
<1>1. IInv /\ [Next]_vars =>
        [\A r \in Requests : Reject(r) =>
            \/ promised[ClientOf[r]] = NoPromise
            \/ reading[r] < promised[ClientOf[r]]]_vars
  <2> SUFFICES ASSUME IInv, NEW r \in Requests, Reject(r),
                      promised[ClientOf[r]] # NoPromise
               PROVE  reading[r] < promised[ClientOf[r]]
    OBVIOUS
  <2> DEFINE c == ClientOf[r]
             now == reading[r]
             old == Swept(now)[c]
             b == Refilled(Found(old, now), now)
  <2>1. Calling(r) /\ ~Enough(b)
    BY DEF Reject
  <2>2. now \in Time /\ now <= clock /\ c \in Clients
    BY <2>1, ReadingIsRecent DEF IInv
  <2>3. old \in Bucket /\ PromiseKept(old, promised[c]) /\ promised[c] \in Int
    BY <2>2, SweptBuckets DEF IInv, TypeOK
  <2> HIDE DEF c, now, old
  <2>4. old.held /\ b.tokens = Level(old) + now * PerMinute
    BY <2>1, <2>2, <2>3, RefusedKeepsItsLevel
  <2>5. ~(b.tokens >= Token)
    BY <2>1 DEF Enough
  <2>6. promised[c] # NoPromise
    BY DEF c
  <2>7. Level(old) + promised[c] * PerMinute >= Token
    BY <2>3, <2>4, <2>6 DEF PromiseKept
  <2> HIDE DEF b
  <2>8. PerMinute \in Nat /\ Token \in Nat /\ now \in Int
    BY <2>2, LimiterConstants DEF Time
  <2>9. Level(old) \in Int /\ promised[c] * PerMinute \in Int /\ now * PerMinute \in Int
    BY <2>3, <2>8 DEF Level, Bucket, Time
  <2>10. ~(promised[c] * PerMinute <= now * PerMinute)
    BY <2>4, <2>5, <2>7, <2>8, <2>9
  <2>11. ~(promised[c] <= now)
    BY <2>3, <2>8, <2>10, SharesMonotone
  <2> QED
    BY <2>3, <2>8, <2>11 DEF c, now
<1> QED
  BY <1>1, LimiterInvariant, PTL DEF Spec, RetryAfterSuffices

\* A client is turned away only when it has had all the limit allows it, but for
\* what a late clock reading costs (Allow).
THEOREM RejectionIsDeserved ==
    Spec => RejectsOnlyOverLimit
<1>1. IInv /\ [Next]_vars =>
        [\A r \in Requests : Reject(r) =>
            LET c == ClientOf[r]
                now == reading[r]
            IN  \E s \in Time :
                  /\ s <= now
                  /\ (spent[c][s][Horizon] + 1) * Token
                      > Burst + (now - s - MaxLag) * PerMinute]_vars
  <2> SUFFICES ASSUME IInv, NEW r \in Requests, Reject(r)
               PROVE  \E s \in Time :
                        /\ s <= reading[r]
                        /\ (spent[ClientOf[r]][s][Horizon] + 1) * Token
                            > Burst + (reading[r] - s - MaxLag) * PerMinute
    OBVIOUS
  <2> DEFINE c == ClientOf[r]
             now == reading[r]
             old == Swept(now)[c]
             b == Refilled(Found(old, now), now)
  <2>1. Calling(r) /\ ~Enough(b)
    BY DEF Reject
  <2>2. now \in Time /\ now <= clock /\ clock - now <= MaxLag /\ c \in Clients
    BY <2>1, ReadingIsRecent DEF IInv
  <2>3. old \in Bucket /\ Solvent(old, spent[c], clock)
    BY <2>2, SweptBuckets
  <2>4. spent[c] \in [Time -> [Time -> Nat]]
    BY <2>2 DEF IInv, TypeOK
  <2> HIDE DEF c, now, old
  <2>5. old.held /\ b.tokens = Level(old) + now * PerMinute
    BY <2>1, <2>2, <2>3, RefusedKeepsItsLevel
  <2>6. ~(b.tokens >= Token)
    BY <2>1 DEF Enough
  <2> HIDE DEF b
  <2>7. PICK s \in Time :
           /\ s = 0 \/ s + MaxLag <= clock
           /\ spent[c][s][Horizon] * Token + Level(old) >= Burst - (s + MaxLag) * PerMinute
    BY <2>3, <2>5 DEF Solvent, NothingLost
  <2>8. /\ PerMinute \in Nat /\ Token \in Nat /\ Burst \in Nat /\ MaxLag \in Nat
        /\ Horizon \in Time /\ now \in Int /\ s \in Int
    BY <2>2, LimiterConstants DEF Time
  <2>9. spent[c][s][Horizon] \in Nat
    BY <2>4, <2>8
  <2>10. Level(old) \in Int
    BY <2>3, <2>8 DEF Level, Bucket, Time
  <2>11. /\ now * PerMinute \in Int /\ (s + MaxLag) * PerMinute \in Int
         /\ spent[c][s][Horizon] * Token \in Int
    BY <2>8, <2>9
  <2>12. (spent[c][s][Horizon] + 1) * Token = spent[c][s][Horizon] * Token + Token
    BY <2>8, <2>9
  <2>13. (now - s - MaxLag) * PerMinute = now * PerMinute - (s + MaxLag) * PerMinute
    BY <2>8
  <2>14. (spent[c][s][Horizon] + 1) * Token > Burst + (now - s - MaxLag) * PerMinute
    BY <2>5, <2>6, <2>7, <2>8, <2>10, <2>11, <2>12, <2>13
  <2>15. clock \in Int
    BY DEF IInv, TypeOK, Time
  <2>16. s <= now
    BY <2>2, <2>7, <2>8, <2>15 DEF Time
  <2> QED
    BY <2>14, <2>16 DEF c, now
<1> QED
  BY <1>1, LimiterInvariant, PTL DEF Spec, RejectsOnlyOverLimit
=============================================================================
