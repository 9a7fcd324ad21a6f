------------------------------ MODULE Reconcile ------------------------------
(***************************************************************************)
(* Which rows of one tour internal/identity takes for one person: the      *)
(* scores, the pairs proposed among namesakes, and the decisions of        *)
(* configs/player_overrides.json.  Nothing here has state.                 *)
(*                                                                         *)
(* A player is a record: id and sid (source id), key (the folded name that *)
(* groups namesakes), country, born, year (derived from the ages on match  *)
(* rows), matches (how many) and matchOnly.  Confidences are hundredths.   *)
(***************************************************************************)
EXTENDS Integers

CONSTANTS
    Numeric,          \* source ids made of digits alone
    HandMerges,       \* overrides that merge: [tour, duplicate, canonical]
    HandSeparations   \* overrides with same_person false: [tour, pair]

AutoLink == 90
ReviewFloor == 50

NoCountry == "no country"
NoYear == 0
NoDay == [year |-> NoYear, day |-> 0]

Stub(p) == p.sid \notin Numeric \/ p.matchOnly

BirthYear(p) == IF p.born # NoDay THEN p.born.year ELSE p.year

SameCountry(a, b) == a.country # NoCountry /\ a.country = b.country

OtherCountry(a, b) ==
    a.country # NoCountry /\ b.country # NoCountry /\ a.country # b.country

YearsApart(a, b) ==
    LET gap == BirthYear(a) - BirthYear(b) IN IF gap < 0 THEN -gap ELSE gap

ScoreByYear(a, b) ==
    IF a.year # NoYear /\ a.year = b.year THEN 90
    ELSE IF a.born = NoDay /\ b.born = NoDay THEN 0
    ELSE CASE YearsApart(a, b) = 0 -> 90
           [] YearsApart(a, b) = 1 -> 70
           [] OTHER                -> 0

\* Symmetric, and only ever asked of two rows with one key.
Score(a, b) ==
    IF a.born # NoDay /\ b.born # NoDay
    THEN IF a.born # b.born THEN 0 ELSE IF OtherCountry(a, b) THEN 70 ELSE 100
    ELSE IF ~SameCountry(a, b) THEN 40
    ELSE IF BirthYear(a) = NoYear \/ BirthYear(b) = NoYear THEN 60
    ELSE ScoreByYear(a, b)

\* A proposed link.  "turn" is its place in a pass: stubs, then the rows one
\* source holds twice, then what only the overrides file links.
Link(dup, canonical, confidence, turn) ==
    [dup |-> dup.id, dupSid |-> dup.sid,
     canonical |-> canonical.id, canonicalSid |-> canonical.sid,
     confidence |-> confidence, turn |-> turn]

IsAuto(m) == m.confidence >= AutoLink

\* foldSameSource: backed rows with one name and one date of birth; the longest
\* career is kept, the first written among equals.
LongerCareer(p, q) ==
    p.matches > q.matches \/ (p.matches = q.matches /\ p.id < q.id)
SameBirthday(p, rows) ==
    {q \in rows : q.key = p.key /\ q.born # NoDay /\ q.born = p.born}
Keeper(p, rows) ==
    CHOOSE k \in SameBirthday(p, rows) :
        \A q \in SameBirthday(p, rows) \ {k} : LongerCareer(k, q)
FoldedAway(rows) == {p \in rows : p.born # NoDay /\ p # Keeper(p, rows)}
FoldLinks(rows) ==
    {Link(p, Keeper(p, rows), Score(Keeper(p, rows), p), 2) : p \in FoldedAway(rows)}

\* bestTwo: the candidates no other scores better than.
Best(stub, rows) ==
    LET candidates == {p \in rows : p.key = stub.key}
    IN  {p \in candidates : \A q \in candidates : Score(q, stub) <= Score(p, stub)}

\* Mutant: the first of the best candidates is taken.
StubLinkToFirst(stub, best, rows) == Link(stub, best, Score(best, stub), 1)

\* Two equally good candidates go to a human, whichever of them is named.
StubLink(stub, best, rows) ==
    Link(stub, best, IF Best(stub, rows) = {best} THEN Score(best, stub) ELSE ReviewFloor, 1)

Backed(players) == {p \in players : ~Stub(p)}
Candidates(players) == Backed(players) \ FoldedAway(Backed(players))
LinkedStubs(players) ==
    {s \in players : Stub(s) /\ \E p \in Best(s, Candidates(players)) :
                                    Score(p, s) >= ReviewFloor}

\* Reconcile: the sets of links it can return; which of two equally good rows a
\* review names depends on the order the database returned them in.
Reconciled(players) ==
    LET rows == Candidates(players)
        picks == {f \in [LinkedStubs(players) -> rows] :
                      \A s \in LinkedStubs(players) : f[s] \in Best(s, rows)}
    IN  {FoldLinks(Backed(players)) \cup {StubLink(s, f[s], rows) : s \in LinkedStubs(players)}
             : f \in picks}

Separated(tour, a, b) == [tour |-> tour, pair |-> {a, b}] \in HandSeparations
Merged(tour, a, b) ==
    \E o \in HandMerges : o.tour = tour /\ {o.duplicate, o.canonical} = {a, b}

\* Decisions.Apply: a separated pair is dropped, a merge decided by hand is
\* certain, and one that nobody proposed is added if both rows are there.
Applied(tour, players, links) ==
    LET kept == {m \in links : ~Separated(tour, m.dupSid, m.canonicalSid)}
        decided == {[m EXCEPT !.confidence =
                        IF Merged(tour, m.dupSid, m.canonicalSid) THEN 100 ELSE @] : m \in kept}
        unseen == {o \in HandMerges : o.tour = tour /\ \A m \in kept :
                        {m.dupSid, m.canonicalSid} # {o.duplicate, o.canonical}}
    IN  decided \cup
        {Link(pq[1], pq[2], 100, 3) : pq \in {pq \in players \X players :
            \E o \in unseen : pq[1].sid = o.duplicate /\ pq[2].sid = o.canonical}}

\* What a pass over one tour may set out to do.
Proposals(tour, players) == {Applied(tour, players, links) : links \in Reconciled(players)}
=============================================================================
