------------------------------- MODULE SiteData -------------------------------
(* The tables the site reads, as its queries join them. A match row carries    *)
(* its tournament's columns and both serve lines; the two rows match_players   *)
(* has for it are read off it by side. Dates are days, day 0 a Monday.         *)
EXTENDS Integers, Sequences, SequencesExt, FiniteSets, FiniteSetsExt, Folds, Functions

CONSTANTS
    Null,          \* an SQL NULL
    Players,       \* ids of players: naturals, not 0, which is a bye's
    TourOf,        \* player -> tour
    NameOf,        \* player -> the place of its name among all, no two alike
    Official       \* the published rankings: [player, date, rank], fixed

ASSUME SiteDataAssumption ==
    /\ Players \subseteq Nat \ {0}
    /\ \A p, q \in Players : NameOf[p] = NameOf[q] => p = q

Surfaces == {"hard", "clay", "grass", "carpet"}
Tiers == {"tour", "challenger", "futures", "itf"}

\* match_players, a row for each side of a match.
PlayedBy(rows, p) == {m \in rows : p \in {m.winner, m.loser}}
Won(p, m) == m.winner = p
Opponent(p, m) == IF Won(p, m) THEN m.loser ELSE m.winner
Line(p, m) == IF Won(p, m) THEN m.winnerLine ELSE m.loserLine
RankOf(p, m) == IF Won(p, m) THEN m.winnerRank ELSE m.loserRank

\* sum over rows of a function of the row
Total(rows, value) == MapThenSumSet(LAMBDA m : value[m], rows)

\* SQL's row comparison, and a tuple that comes first under it
Precedes(a, b) ==
    \E i \in DOMAIN a : a[i] < b[i] /\ \A j \in 1 .. i - 1 : a[j] = b[j]
Least(rows, key) == CHOOSE r \in rows : \A s \in rows : ~Precedes(key[s], key[r])
InOrder(rows, key) ==
    LET place == [r \in rows |-> Cardinality({s \in rows : Precedes(key[s], key[r])})]
    IN [i \in 1 .. Cardinality(rows) |-> CHOOSE r \in rows : place[r] = i - 1]
Limited(seq, limit) == SubSeq(seq, 1, Min({limit, Len(seq)}))

\* the rows of a page past its cursor, in order
Past(rows, key, after) == {r \in rows : after # Null => Precedes(after, key[r])}
PageInOrder(rows, key, after) ==
    LET past == Past(rows, key, after) IN InOrder(past, [r \in past |-> key[r]])

\* "Retirements and walkovers are counted here and excluded from every rate".
Finished(rows) == {m \in rows : ~m.incomplete}
\* WeekOf: the Monday of the week a date falls in
WeekOf(day) == day - (day % 7)
===============================================================================
