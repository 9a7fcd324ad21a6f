-------------------------------- MODULE Career --------------------------------
(* One player's pages: the profile, the highlights and the match history,     *)
(* from the matches a statement saw. Shares are tenths of a percent.          *)
EXTENDS SiteData

CONSTANTS
    YearOf,                 \* of a day
    Statistics,             \* first season with serve lines at tour level,
    ChallengerStatistics,   \* and at Challenger level
    RoundOrder,             \* the rounds the site can place, deepest last
    EliteElo, RowLimit      \* of the list of best wins and of rivals

\* percent, round1: no rate over nothing, nor of more than there was
percent(n, d) == IF d <= 0 \/ n > d THEN Null ELSE (2000 * n + d) \div (2 * d)
PerMatch(n, matches) == (20 * n + matches) \div (2 * matches)

Wins(rows, p) == Cardinality({m \in rows : Won(p, m)})
Record(rows, p) == [matches |-> Cardinality(rows), wins |-> Wins(rows, p)]
Grouped(rows, p, by) ==  \* GROUP BY
    {[name |-> g] @@ Record({m \in rows : by[m] = g}, p) : g \in {by[m] : m \in rows}}
\* the sum of one column over the lines of a side that are there
Column(lines, column) == FoldSet(LAMBDA l, n : n + l.line[column], 0, lines)
Lines(rows, p) == {[id |-> m.id, line |-> Line(p, m)] : m \in {r \in rows : Line(p, r) # Null}}
OtherLines(rows, p) ==
    {[id |-> m.id, line |-> Line(Opponent(p, m), m)] : m \in {r \in rows : Line(Opponent(p, r), r) # Null}}

GetPlayerCareerSummary(rows, p) ==
    LET own == PlayedBy(rows, p)
        titles == {m \in own : Won(p, m) /\ m.round = "F" /\ ~m.qualifying}
        lines == Lines(Finished(own), p)
    IN IF own = {} THEN Null
       ELSE Record(own, p) @@
            [losses |-> Cardinality(own) - Wins(own, p),
             incomplete |-> Cardinality(own \ Finished(own)), titles |-> Cardinality(titles),
             majors |-> Cardinality({m \in titles : m.level = "G"}),
             first |-> Min({m.playedOn : m \in own}), last |-> Max({m.playedOn : m \in own}),
             lastYear |-> YearOf[Max({m.playedOn : m \in own})], lines |-> lines]
GetPlayerSurfaceSplits(rows, p) ==
    LET own == PlayedBy(rows, p) IN Grouped(own, p, [m \in own |-> m.surface])
GetPlayerTierSplits(rows, p) ==
    LET own == PlayedBy(rows, p)
    IN {[tier |-> t, matches |-> Cardinality({m \in own : m.tier = t}),
         withStats |-> Cardinality({m \in own : m.tier = t /\ m.winnerLine # Null /\ m.loserLine # Null})] :
        t \in {m.tier : m \in own}}
GetPlayerReturnSummary(rows, p) ==
    LET played == Finished(PlayedBy(rows, p))
        returned == {m \in played : Line(Opponent(p, m), m) # Null}
    IN [lines |-> OtherLines(played, p), own |-> Lines(returned, p)]

\* explainMissingStats, explainMatchStats, explainMeetings: why there is no line
Explain(tiers, year) ==
    CASE tiers = {} -> "not recorded"
      [] tiers # {} /\ tiers \subseteq {"futures", "itf"} -> "never for tier"
      [] ~(tiers \subseteq {"futures", "itf"})
         /\ (year < Statistics \/ ("tour" \notin tiers /\ year < ChallengerStatistics)) -> "never in era"
      [] OTHER -> "not recorded"

buildCareer(summary, surfaces, tiers) ==
    [summary |-> summary, share |-> percent(summary.wins, summary.matches),
     surfaces |-> surfaces, tiers |-> tiers]
Availability(lines, summary, tiers) ==
    CASE lines = {} -> Explain({t.tier : t \in tiers}, summary.lastYear)
      [] lines # {} /\ Cardinality(lines) < summary.matches - summary.incomplete -> "partial"
      [] OTHER -> "recorded"
ServeRates(lines) ==
    LET Sum(column) == Column(lines, column)
    IN [aces |-> PerMatch(Sum("aces"), Cardinality(lines)),
        faults |-> PerMatch(Sum("faults"), Cardinality(lines)),
        firstIn |-> percent(Sum("first"), Sum("points")),
        firstWon |-> percent(Sum("firstWon"), Sum("first")),
        secondWon |-> percent(Sum("secondWon"), Sum("points") - Sum("first")),
        saved |-> percent(Sum("saved"), Sum("faced"))]
buildServe(summary, tiers) ==
    LET Sum(column) == Column(summary.lines, column)
    IN [matches |-> Cardinality(summary.lines), availability |-> Availability(summary.lines, summary, tiers),
        rates |-> IF summary.lines = {} THEN Null
                  ELSE ServeRates(summary.lines) @@
                       [held |-> percent(Sum("games") - (Sum("faced") - Sum("saved")), Sum("games"))]]
buildReturn(summary, returns, tiers) ==
    LET Sum(column) == Column(returns.lines, column)
        second == Sum("points") - Sum("first")
        broken == Sum("faced") - Sum("saved")
    IN [matches |-> Cardinality(returns.lines), availability |-> Availability(returns.lines, summary, tiers),
        rates |-> IF returns.lines = {} THEN Null
                  ELSE [points |-> percent(Sum("points") - Sum("firstWon") - Sum("secondWon"), Sum("points")),
                        first |-> percent(Sum("first") - Sum("firstWon"), Sum("first")),
                        second |-> percent(second - Sum("secondWon"), second),
                        breaks |-> percent(broken, Sum("faced")), games |-> percent(broken, Sum("games"))]]
buildPoints(returns) ==
    LET Theirs(column) == Column(returns.lines, column)
        Own(column) == Column(returns.own, column)
        won == Own("firstWon") + Own("secondWon")
        returnWon == Theirs("points") - Theirs("firstWon") - Theirs("secondWon")
        lost == Own("points") - won
    IN IF returns.own = {} THEN Null
       ELSE [matches |-> Cardinality(returns.own),
             total |-> percent(won + returnWon, Own("points") + Theirs("points")),
             dominance |-> IF lost <= 0 \/ Theirs("points") <= 0 THEN Null
                           ELSE (200 * returnWon * Own("points") + lost * Theirs("points"))
                                \div (2 * lost * Theirs("points"))]

-----------------------------------------------------------------------------
\* buildSplits: the record by the rank the opponent held on the day
Bands == {1, 5, 10, 20, 50, 100}
ListPlayerOpponentRanks(rows, p) == {m \in Finished(PlayedBy(rows, p)) : ~m.team}
buildSplits(rows, p) ==
    LET ranked == {m \in rows : RankOf(Opponent(p, m), m) # Null}
        both == {m \in ranked : RankOf(p, m) # Null}
        Above(m) == RankOf(Opponent(p, m), m) < RankOf(p, m)
        Below(m) == RankOf(Opponent(p, m), m) > RankOf(p, m)
    IN IF rows = {} THEN Null
       ELSE [bands |-> [b \in Bands |-> Record({m \in ranked : RankOf(Opponent(p, m), m) <= b}, p)],
             outside |-> Record({m \in ranked : RankOf(Opponent(p, m), m) > Max(Bands)}, p),
             unranked |-> Record(rows \ ranked, p), ranked |-> Cardinality(ranked),
             higher |-> Record({m \in both : Above(m)}, p), lower |-> Record({m \in both : Below(m)}, p),
             tiebreaks |-> Record({m \in rows : m.scored /\ m.deciding = TRUE /\ m.lastTb}, p),
             scored |-> Cardinality({m \in rows : m.scored})]

\* RunsApart: the difference of a match's place among all and among
\* those of the same result is one within a run
Streak(run, p) ==
    [won |-> \E m \in run : Won(p, m), length |-> Cardinality(run),
     from |-> Min({m.playedOn : m \in run}), to |-> Max({m.playedOn : m \in run})]
RunsByDay(played, p) == \* a plausible slip: the matches of a day have no order
    LET Before(m) == {n \in played : n.playedOn < m.playedOn}
        Run(m) == <<Won(p, m), Cardinality(Before(m))
                               - Cardinality({n \in Before(m) : Won(p, n) = Won(p, m)})>>
    IN {{n \in played : Run(n) = r} : r \in {Run(m) : m \in played}}
RunsApart(played, p) ==
    LET Before(m) == {n \in played : Precedes(<<n.playedOn, n.id>>, <<m.playedOn, m.id>>)}
        Run(m) == <<Won(p, m), Cardinality(Before(m))
                               - Cardinality({n \in Before(m) : Won(p, n) = Won(p, m)})>>
    IN {{n \in played : Run(n) = r} : r \in {Run(m) : m \in played}}
ListPlayerStreaks(rows, p) ==
    LET runs == RunsApart(ListPlayerOpponentRanks(rows, p), p)
        Longest(of) == IF of = {} THEN Null
                       ELSE Streak(Least(of, [r \in of |-> <<-Cardinality(r), -Streak(r, p).to>>]), p)
    IN [best |-> Longest({r \in runs : Streak(r, p).won}),
        worst |-> Longest({r \in runs : ~Streak(r, p).won}),
        current |-> IF runs = {} THEN Null
                    ELSE Streak(Least(runs, [r \in runs |->
                             <<-Streak(r, p).to, -Max({m.id : m \in r})>>]), p)]

\* the rating an opponent held on the day, by the snapshots up to it
EloOn(table, p, day) ==
    LET held == {r \in table : r.player = p /\ r.series = "overall" /\ r.asOf <= day}
    IN IF held = {} THEN Null ELSE Least(held, [r \in held |-> <<-r.asOf>>]).elo
ListPlayerBestWins(rows, table, p) ==
    LET wins == {m \in Finished(rows) : m.winner = p /\ ~m.team /\ ~m.qualifying
                                        /\ EloOn(table, m.loser, m.playedOn) # Null}
        order == InOrder(wins, [m \in wins |-> <<-EloOn(table, m.loser, m.playedOn), -m.playedOn, m.id>>])
    IN Limited([i \in DOMAIN order |-> [id |-> order[i].id,
                   elo |-> EloOn(table, order[i].loser, order[i].playedOn)]], RowLimit)
GetPlayerOpponentQuality(rows, table, p) ==
    LET faced == {m \in ListPlayerOpponentRanks(rows, p) :
                     EloOn(table, Opponent(p, m), m.playedOn) # Null}
        Elo(m) == EloOn(table, Opponent(p, m), m.playedOn)
        elite == {m \in faced : Elo(m) >= EliteElo}
        n == Cardinality(faced)
    IN [rated |-> n, elite |-> Record(elite, p),
        highest |-> IF n = 0 THEN Null ELSE Max({Elo(m) : m \in faced}),
        average |-> IF n = 0 THEN Null
                    ELSE (2 * FoldSet(LAMBDA m, sum : sum + Elo(m), 0, faced) + n) \div (2 * n)]

\* orderRounds: deepest last, one it cannot place after them
ListPlayerRoundRecord(rows, p) ==
    LET own == {m \in ListPlayerOpponentRanks(rows, p) : ~m.qualifying}
    IN Grouped(own, p, [m \in own |-> m.round])
orderRounds(records) ==
    LET Known(round) == {r \in records : r.name = round}
        unknown == {r \in records : r.name \notin Range(RoundOrder)}
    IN FlattenSeq([i \in DOMAIN RoundOrder |-> IF Known(RoundOrder[i]) = {} THEN <<>>
                      ELSE <<CHOOSE r \in Known(RoundOrder[i]) : TRUE>>])
       \o FoldSet(LAMBDA r, seq : Append(seq, r), <<>>, unknown)

\* categoryOf and ListPlayerFinalsByCategory's CASE, which name levels alike
Category(m) ==
    CASE m.level = "D" -> "team"
      [] m.level = "G" -> "slam"
      [] m.level \in {"M", "PM", "1000"} -> "masters"
      [] m.level = "F" -> "finals"
      [] m.level = "O" -> "olympics"
      [] OTHER -> m.tier
FinalCategory(m) == IF m.link = "team" THEN "team" ELSE Category(m)
ListPlayerFinalsByCategory(rows, p) ==
    LET finals == {m \in PlayedBy(rows, p) : m.round = "F" /\ ~m.qualifying}
    IN Grouped(finals, p, [m \in finals |-> FinalCategory(m)])

\* who a career was spent against
ListPlayerRivals(rows, p) ==
    LET own == {m \in PlayedBy(rows, p) : ~m.team}
        rivals == {Opponent(p, m) : m \in own}
        Met(q) == PlayedBy(own, q)
        LastPlayed(q) == Max({m.playedOn : m \in Met(q)})
        order == InOrder(rivals, [q \in rivals |-> <<-Cardinality(Met(q)), -LastPlayed(q), NameOf[q]>>])
    IN Limited([i \in DOMAIN order |-> [name |-> order[i], last |-> LastPlayed(order[i])]
                                       @@ Record(Met(order[i]), p)], RowLimit)

\* a page of the history, most recent first
Filtered(rows, p, filter) ==
    {m \in PlayedBy(rows, p) :
        /\ filter.surface # Null => m.surface = filter.surface
        /\ filter.tier # Null => m.tier = filter.tier
        /\ filter.season # Null => m.season = filter.season
        /\ filter.opponent # Null => Opponent(p, m) = filter.opponent}
ListPlayerMatches(rows, p, filter, after, limit) ==
    LET kept == Filtered(rows, p, filter)
        order == PageInOrder(kept, [m \in kept |-> <<-m.playedOn, -m.id>>], after)
    IN Limited([i \in DOMAIN order |->
           [id |-> order[i].id, won |-> Won(p, order[i]), opponent |-> Opponent(p, order[i]),
            serve |-> IF Line(p, order[i]) = Null THEN Explain({order[i].tier}, order[i].season)
                      ELSE "recorded",
            key |-> <<-order[i].playedOn, -order[i].id>>]], limit)
===============================================================================
