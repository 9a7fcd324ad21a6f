--------------------------------- MODULE MCSite ---------------------------------
(* Five players of two tours and seven draws: one whole, one with a bye, one a *)
(* round of which does not feed the next, one of groups, a tie of teams, and   *)
(* two played in a week with another. Days 0 .. 30 are four weeks and the next *)
(* year's first.                                                               *)
EXTENDS Site

MCPlayers == 1 .. 5
MCTourOf == [p \in MCPlayers |-> IF p = 5 THEN 2 ELSE 1]
MCNameOf == [p \in MCPlayers |-> <<30, 10, 20, 50, 40>>[p]]
MCOfficial ==
    {[player |-> p[1], date |-> p[2], rank |-> p[3]] :
        p \in {<<1, 7, 4>>, <<2, 7, 4>>, <<3, 7, 9>>, <<5, 14, 1>>, <<1, 21, 2>>, <<2, 21, 4>>,
               <<3, 21, 2>>, <<4, 21, 120>>, <<1, 28, 3>>}}

MCYearOf == [day \in 0 .. 40 |-> IF day < 28 THEN 2000 ELSE 2001]
MCKOf == [n \in Nat |-> 1313 \div (n + 1) + 200]
MCExpected == [d \in Int |-> IF d < -3500 THEN 5 ELSE IF d > 3500 THEN 95 ELSE 50 + d \div 80]
MCCoinOf == [n \in 0 .. 9 |-> (37 * n + 11) % 100]
MCRoundOrder == <<"R128", "R64", "R32", "R16", "QF", "SF", "F", "RR", "BR">>
MCSimilar == [p \in MCPlayers |-> <<50, 50, 40, Null, 50>>[p]]

-----------------------------------------------------------------------------
Draw(draw, event, tier, level, surface, start) ==
    [draw |-> draw, event |-> event, name |-> IF draw \in {1, 4} THEN 91 ELSE 92,
     tour |-> 1, tier |-> tier, level |-> level, season |-> MCYearOf[start], start |-> start, playedOn |-> start, surface |-> surface,
     bestOf |-> IF level = "G" THEN 5 ELSE 3, team |-> level = "D",
     link |-> IF level = "D" THEN "team" ELSE Null, qualifying |-> FALSE, incomplete |-> FALSE,
     walkover |-> FALSE, scored |-> TRUE, deciding |-> FALSE, tb |-> <<0, 0>>, lastTb |-> FALSE,
     winnerLine |-> Null, loserLine |-> Null, winnerRank |-> Null, loserRank |-> Null]
Serve(points, saved) ==
    [aces |-> 3, faults |-> 1, points |-> points, first |-> points \div 2, firstWon |-> points \div 3,
     secondWon |-> points \div 5, games |-> 10, saved |-> saved, faced |-> saved + 2]
Slam == Draw(1, 1, "tour", "G", "hard", 7)
Byes == Draw(2, 2, "challenger", "C", "clay", 14)
Torn3 == Draw(3, 3, "tour", "M", "grass", 14)
Groups == Draw(4, 4, "tour", "F", "hard", 21)
Tie == Draw(5, 5, "tour", "D", Null, 21)
Small == Draw(6, 6, "futures", "15", "carpet", 9)
NextYear == Draw(7, 1, "tour", "G", "hard", 28)

Match(d, id, round, num, w, l) ==
    [id |-> id, round |-> round, num |-> num, winner |-> w, loser |-> l] @@ d
Recorded(m, wl, ll, wr, lr) ==
    [m EXCEPT !.winnerLine = wl, !.loserLine = ll, !.winnerRank = wr, !.loserRank = lr]
Close(m, tb, last) == [m EXCEPT !.deciding = TRUE, !.tb = tb, !.lastTb = last]
Retired(m) == [m EXCEPT !.incomplete = TRUE, !.scored = FALSE, !.deciding = Null, !.tb = Null]

Semi == Recorded(Match(Slam, 1, "SF", 1, 1, 2), Serve(40, 1), Serve(44, 2), 4, 120)
FirstLoad ==
    {Semi,
     Close(Recorded(Match(Slam, 2, "SF", 2, 3, 4), Serve(60, 4), Null, 9, Null), <<1, 2>>, TRUE),
     Recorded(Match(Slam, 3, "F", 3, 1, 3), Serve(50, 0), Serve(51, 3), 4, 1),
     Match(Byes, 4, "SF", 2, 2, 4),
     Close(Match(Byes, 5, "F", 3, 2, 3), <<2, 0>>, FALSE),
     [Match(Byes, 6, "Q1", 1, 4, 1) EXCEPT !.qualifying = TRUE],
     [Retired(Match(Small, 7, "F", 1, 2, 1)) EXCEPT !.deciding = Null]}
SecondLoad ==
    {Match(Torn3, 8, "SF", 1, 1, 2), Match(Torn3, 9, "SF", 2, 4, 3), Match(Torn3, 10, "F", 3, 1, 3),
     [Match(Groups, 11, "RR", 1, 3, 1) EXCEPT !.walkover = TRUE, !.incomplete = TRUE],
     Match(Groups, 12, "RR", 2, 1, 2), Match(Tie, 13, "RR", 1, 2, 1),
     Match(NextYear, 14, "F", 1, 3, 2)}
MCLoads == <<[add |-> FirstLoad, gone |-> {}],
             [add |-> SecondLoad \cup {[Semi EXCEPT !.round = "QF"]}, gone |-> {Semi}]>>

-----------------------------------------------------------------------------
Row(tour, tourney, num, on, round, level) ==
    [tour |-> tour, tourney |-> tourney, num |-> num, on |-> on, round |-> round, level |-> level,
     winner |-> num]
Version(rows) == [rows |-> rows, twice |-> FALSE, tagged |-> TRUE]
MCFiles == <<"ongoing", "wta_ongoing">>
MCPublished ==
    [f \in Range(MCFiles) |->
        IF f = "ongoing"
        THEN <<[Version({Row(1, 1, 1, 29, "SF", "M")}) EXCEPT !.tagged = FALSE],
               Version({Row(1, 1, 1, 29, "SF", "M"), Row(1, 1, 2, 30, "F", "M"),
                        Row(1, 2, 1, 21, "R32", "A")}),
               Version({Row(1, 3, 1, 35, "R32", "G")})>>
        ELSE <<[rows |-> {Row(2, 1, 1, 30, "QF", "PM")}, twice |-> TRUE, tagged |-> TRUE],
               Version({Row(2, 1, 1, 30, "QF", "PM")})>>]

-----------------------------------------------------------------------------
Of(kind, p) == [kind |-> kind, player |-> p]
Every == [level |-> Null, round |-> Null, bestOf |-> Null, surface |-> Null, deciders |-> FALSE,
          tiebreaks |-> FALSE, from |-> Null, to |-> Null]
Between(p, q, filter) == [kind |-> "meetings", player |-> p, other |-> q, filter |-> filter]
Simulate(event, season) ==
    [kind |-> "draw", player |-> Null, tour |-> Null, event |-> event, season |-> season, runs |-> 5, seed |-> 1]
PageAsks ==
    {Of(kind, p) : kind \in {"profile", "highlights"}, p \in 1 .. 4}
    \cup {Between(1, 2, f) : f \in {Every, [Every EXCEPT !.deciders = TRUE],
             [Every EXCEPT !.level = "slam", !.bestOf = 5], [Every EXCEPT !.round = "Q"],
             [Every EXCEPT !.from = 2000, !.to = 2000, !.surface = "hard"]}}
    \cup {Between(3, 2, [Every EXCEPT !.tiebreaks = TRUE]), Between(3, 2, [Every EXCEPT !.round = "F"])}
    \cup {[kind |-> "common", player |-> 1, other |-> q, limit |-> 2] : q \in {2, 3}}
    \cup {[kind |-> "series", player |-> p, series |-> s, from |-> f, to |-> Null] :
             p \in {1, 3}, s \in {Overall, "clay"}, f \in {Null, 14}}
    \cup {[kind |-> "rankings", player |-> p, from |-> Null, to |-> Null] : p \in {1, 3}}
    \cup {Simulate(e, 2000) : e \in {1, 2, 3, 4, 9}} \cup {Simulate(1, 2001)}
    \cup {[Simulate(92, 2000) EXCEPT !.tour = t] : t \in {1, 2}}
WalkAsks ==
    {[kind |-> "history", player |-> p, filter |-> NoFilter, limit |-> 2] : p \in {1, 2}}
    \cup {[kind |-> "history", player |-> 1, limit |-> 1,
           filter |-> [NoFilter EXCEPT !.surface = "hard", !.opponent = 3]],
          [kind |-> "history", player |-> 2, limit |-> 1,
           filter |-> [NoFilter EXCEPT !.tier = "tour", !.season = 2000]]}
    \cup {[kind |-> "elo", series |-> s, tour |-> t, date |-> d, limit |-> 1] :
             s \in {Overall, "hard"}, t \in {Null, 1}, d \in {13, EndOfTime}}
    \cup {[kind |-> "official", tour |-> t, date |-> d, limit |-> 1] : t \in {Null, 1}, d \in {6, 22}}
    \cup {[kind |-> "search", tour |-> t, limit |-> 1] : t \in {Null, 1}}

Quiet == [loads |-> 0, rates |-> 0, faults |-> 0, polls |-> 0, publishes |-> 0, pages |-> 0,
          walks |-> 0, asks |-> {}]
MCPlans ==
    {[Quiet EXCEPT !.loads = 2, !.rates = 1, !.pages = 1, !.asks = PageAsks],
     [Quiet EXCEPT !.loads = 2, !.rates = 2, !.faults = 1],
     [Quiet EXCEPT !.loads = 2, !.rates = 1, !.walks = 1, !.asks = WalkAsks],
     [Quiet EXCEPT !.polls = 3, !.publishes = 3, !.faults = 1, !.pages = 1, !.asks = {Of("week", Null)}]}
SamplePlans == {[Quiet EXCEPT !.loads = 1, !.rates = 1, !.pages = 1, !.asks = {Of("sample", Null)}]}
===============================================================================
