------------------------------- MODULE Rankings -------------------------------
(* The leaderboards, and what the player page shows of ratings and published  *)
(* rankings. `table` is the table of ratings; a filter not given is Null.     *)
EXTENDS SiteData

Overall == "overall"
\* rating_surface, in the order of the enum, which is the order SQL sorts it in
SeriesOrder == <<Overall, "hard", "clay", "grass", "carpet">>
Series == Range(SeriesOrder)
SeriesRank == [s \in Series |-> CHOOSE i \in DOMAIN SeriesOrder : SeriesOrder[i] = s]

EndOfTime == 1000000
ActiveWindow == 52 * 7

OfTour(p, tour) == tour = Null \/ TourOf[p] = tour
\* the last snapshot of each key, which the sparse table makes its value then
Latest(rows) == {r \in rows : \A s \in rows :
                    s.player = r.player /\ s.series = r.series => s.asOf <= r.asOf}
AsOf(rows, day) == Latest({r \in rows : r.asOf <= day})
Held(rows, p, value) == \* Go's map of a page's players, absent where unrated
    LET found == {r \in rows : r.player = p}
    IN IF found = {} THEN Null ELSE (CHOOSE r \in found : TRUE)[value]

EffectiveEloDate(table, series, tour, onOrBefore) ==
    LET dates == {r.asOf : r \in {s \in table : s.series = series /\ s.asOf <= onOrBefore
                                                /\ OfTour(s.player, tour)}}
    IN IF dates = {} THEN Null ELSE Max(dates)
EffectiveOfficialDate(tour, onOrBefore) ==
    LET dates == {o.date : o \in {r \in Official : r.date <= onOrBefore /\ OfTour(r.player, tour)}}
    IN IF dates = {} THEN Null ELSE Max(dates)

\* rank() OVER (elo DESC, player_id): the board a page is cut from
EloBoard(table, series, asOf, tour) ==
    {r \in AsOf({s \in table : s.series = series}, asOf) :
        r.asOf > asOf - ActiveWindow /\ OfTour(r.player, tour)}
ListEloRankings(table, series, asOf, tour, after, limit) ==
    LET board == EloBoard(table, series, asOf, tour)
        key == [r \in board |-> <<-r.elo, r.player>>]
        order == PageInOrder(board, key, after)
    IN Limited([i \in DOMAIN order |->
           [player |-> order[i].player, elo |-> order[i].elo, matches |-> order[i].matches,
            position |-> 1 + Cardinality({s \in board : Precedes(key[s], key[order[i]])})]], limit)
ListOfficialRankings(date, tour, after, limit) ==
    LET week == {o \in Official : o.date = date /\ OfTour(o.player, tour)}
    IN Limited(PageInOrder(week, [o \in week |-> <<o.rank, o.player>>], after), limit)

PeakEloAsOf(table, series, day, p) ==
    LET elos == {r.elo : r \in {s \in table : s.player = p /\ s.series = series /\ s.asOf <= day}}
    IN IF elos = {} THEN Null ELSE Max(elos)
CurrentEloAsOf(table, series, day, p) ==
    Held(AsOf({r \in table : r.series = series}, day), p, "elo")
BestSurfaceEloAsOf(table, day, p) ==
    LET own == {r \in AsOf({s \in table : s.series # Overall /\ s.player = p}, day) :
                   r.asOf > day - ActiveWindow}
    IN IF own = {} THEN Null
       ELSE Least(own, [r \in own |-> <<-r.elo, SeriesRank[r.series]>>]).series

\* A row of either list; its last place is the key its cursor would carry.
EloRow(table, series, asOf, officialDate, r) ==
    LET official == Held({o \in Official : o.date = officialDate}, r.player, "rank")
    IN [player |-> r.player, position |-> r.position, elo |-> r.elo,
        peak |-> PeakEloAsOf(table, series, asOf, r.player),
        best |-> BestSurfaceEloAsOf(table, asOf, r.player), official |-> official,
        delta |-> IF official = Null THEN Null ELSE official - r.position,
        key |-> <<-r.elo, r.player>>]
OfficialRow(table, series, asOf, o) ==
    [player |-> o.player, position |-> o.rank, elo |-> CurrentEloAsOf(table, series, asOf, o.player),
     peak |-> PeakEloAsOf(table, series, asOf, o.player),
     best |-> BestSurfaceEloAsOf(table, asOf, o.player), official |-> o.rank,
     delta |-> Null, key |-> <<o.rank, o.player>>]

-----------------------------------------------------------------------------
\* One player: every series with its last value and the first week of its peak,
\* overall first, then by the matches behind it.
GetPlayerRatings(table, p) ==
    LET own == {r \in table : r.player = p}
        now == Latest(own)
        Peak(s) == LET rows == {r \in own : r.series = s}
                   IN Least(rows, [r \in rows |-> <<-r.elo, r.asOf>>])
        order == InOrder(now, [r \in now |->
                     <<IF r.series = Overall THEN 0 ELSE 1, -r.matches, SeriesRank[r.series]>>])
    IN [i \in DOMAIN order |->
           [series |-> order[i].series, matches |-> order[i].matches,
            elo |-> order[i].elo, asOf |-> order[i].asOf,
            peak |-> Peak(order[i].series).elo, peakAsOf |-> Peak(order[i].series).asOf]]

Within(day, from, to) == (from = Null \/ day >= from) /\ (to = Null \/ day <= to)
Covered(points) == \* the range covered, not the one asked for
    IF points = <<>> THEN [from |-> Null, to |-> Null]
    ELSE [from |-> Head(points).on, to |-> Last(points).on]
ListPlayerRatingSeries(table, p, series, from, to) ==
    LET own == {r \in table : r.player = p /\ r.series = series /\ Within(r.asOf, from, to)}
        order == InOrder(own, [r \in own |-> <<r.asOf>>])
        points == [i \in DOMAIN order |-> [on |-> order[i].asOf, elo |-> order[i].elo]]
    IN [points |-> points, range |-> Covered(points)]
ListPlayerRankingHistory(p, from, to) ==
    LET own == {o \in Official : o.player = p /\ Within(o.date, from, to)}
        order == InOrder(own, [o \in own |-> <<o.date>>])
        points == [i \in DOMAIN order |-> [on |-> order[i].date, rank |-> order[i].rank]]
    IN [points |-> points, range |-> Covered(points),
        best |-> FoldLeft(LAMBDA best, point : IF best = Null \/ point.rank < best.rank
                                               THEN point ELSE best, Null, points)]
===============================================================================
