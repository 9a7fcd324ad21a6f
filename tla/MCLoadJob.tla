----------------------------- MODULE MCLoadJob -----------------------------
(***************************************************************************)
(* Instances of LoadJob: deployments that each exercise some stages.       *)
(***************************************************************************)
EXTENDS LoadJob

CONSTANTS p1, p2, p3, p4

MCPlayers == {p1, p2, p3, p4}
MCLegacyName == [words |-> 8, edition |-> 0]

\* Scores: straight sets with a tiebreak, three sets, an unfinished one, one
\* that cannot be read, and the shape the source files give an odd one in.
Straight == <<Games(6, 4), WithPoints(Games(7, 6), 5)>>
Decider == <<Games(6, 4), Games(6, 7), Games(7, 5)>>
Retired == <<Games(6, 4), Marker("retired")>>
Broken == <<Games(6, 4), Field("broken")>>

Line(w, l, line, level) ==
    [winner |-> w, loser |-> l, line |-> line, surface |-> "hard", bestOf |-> 3,
     wstats |-> "good", lstats |-> "good", level |-> level, name |-> [words |-> 1, edition |-> 0]]

\* Keys m1..m3: matches two sources describe; f1 the fused one; c1..c3 charted;
\* v1..v7 one per draw of the events deployment.
MatchKeys == {"m1", "m2"}
ChartKeys == {"c1", "c2", "c3"}
EventKeys == {"v1", "v2", "v3", "v4", "v5", "v6", "v7", "v8"}
MCKeys == MatchKeys \cup {"f1"} \cup ChartKeys \cup EventKeys
MCDraws == MCKeys
MCDrawOf == [k \in MCKeys |-> k]
MCPairOf == [k \in MCKeys |-> {p1, p2}]
MCIdOf == [k \in MCKeys |-> CASE k = "f1" -> 1 [] k = "m1" -> 2 [] k = "m2" -> 3 [] OTHER -> 4]
MCSeasonOf == [d \in MCDraws |->
    CASE d = "m2" -> 2010 [] d = "m1" -> 2009 [] d = "f1" -> 2008
      [] d = "v1" -> 2015 [] d \in {"v2", "v3", "v4", "v5"} -> 2016
      [] d \in {"v6", "v7", "v8"} -> 2017 [] OTHER -> 2020]
MCUnitOf == [k \in MCKeys |->
    CASE k \in MatchKeys -> 2009 [] k = "f1" -> 2008 [] k \in ChartKeys -> 2020
      [] k \in {"v1", "v2", "v3", "v5"} -> 2015 [] OTHER -> 2016]
MCFallbackTier == [s \in {"tml", "sack"} |-> IF s = "tml" THEN "tour" ELSE "challenger"]

-----------------------------------------------------------------------------
\* Events: a WTA number that means nothing before 2016, a second number under
\* the same name, a weekly name twice a season, a team tie, another tour, an
\* override of a code.
MCTourOf == [d \in MCDraws |-> IF d = "v5" THEN "atp" ELSE "wta"]
MCIdShape == [d \in MCDraws |->
    CASE d \in {"v1", "v2"} -> [kind |-> "number", value |-> 540]
      [] d = "v5" -> [kind |-> "number", value |-> 404]
      [] d = "v6" -> [kind |-> "number", value |-> 609]
      [] d = "v7" -> [kind |-> "code", value |-> "M006"]
      [] OTHER -> [kind |-> "none", value |-> Null]]
MCStartOf == [d \in MCDraws |-> CASE d = "v3" -> 200 [] d = "v4" -> 100 [] OTHER -> 1]
Order == <<"v1", "v2", "v3", "v4", "v5", "v6", "v7", "v8", "c1", "c2", "c3", "m1", "m2", "f1">>
MCIdRank == [d \in MCDraws |-> CHOOSE i \in DOMAIN Order : Order[i] = d]
MCOverrideTo == (<<"wta", "code", "M006">> :> 609)
MCPinnedName == (<<"atp", 404>> :> [words |-> 9, edition |-> 0])
MCCompetitionAliases == (5 :> 6)

Draw(level, words, edition) ==
    [Line(p1, p2, Straight, level) EXCEPT !.name = [words |-> words, edition |-> edition]]
At(k, row) == [key |-> k, row |-> row]

-----------------------------------------------------------------------------
Nothing == << <<>> >>
MCFeedRows == [f \in {"tml", "sack"} \X Range(MCUnitOf) |->
    CASE f = <<"tml", 2009>> ->
            << <<At("m1", Line(p1, p2, Straight, "G")), At("m2", Line(p1, p2, Decider, "G"))>>,
               <<At("m1", [Line(p1, p2, Blank, "G") EXCEPT !.surface = Null, !.bestOf = 5])>> >>
      [] f = <<"sack", 2009>> ->
            << <<At("m1", [Line(p2, p1, Decider, "") EXCEPT !.lstats = "impossible"]),
                 At("m2", Line(p1, p2, Broken, "D"))>> >>
      [] f = <<"tml", 2008>>  -> << <<At("f1", Line(p1, p2, Straight, "G"))>> >>
      [] f = <<"sack", 2008>> -> << <<At("f1", Line(p2, p1, Retired, "G"))>> >>
      [] f = <<"tml", 2020>>  ->
            << <<At("c1", Line(p1, p2, Straight, "G")), At("c3", Line(p1, p2, Straight, "G"))>>,
               <<At("c2", Line(p2, p1, Straight, "G"))>> >>
      [] f = <<"tml", 2015>>  ->
            << <<At("v1", Draw("I", 1, 0)), At("v3", Draw("15", 2, 0))>>,
               <<At("v2", Draw("I", 1, 0)), At("v5", Draw("I", 1, 0))>> >>
      [] f = <<"tml", 2016>>  ->
            << <<At("v4", Draw("15", 2, 2)), At("v8", Draw("D", 5, 0))>>,
               <<At("v6", Draw("I", 1, 0)), At("v7", Draw("I", 3, 0))>> >>
      [] OTHER -> Nothing]

\* What an instance leaves out, and its bounds.
Bare == [files |-> {}, reference |-> FALSE, charting |-> FALSE, legacy |-> {},
         publishes |-> 0, faults |-> 0, manual |-> 0]
MCDeployments ==
    {[Bare EXCEPT !.files = {<<"tml", 2009>>, <<"sack", 2009>>}, !.publishes = 1, !.faults = 1, !.manual = 1],
     [Bare EXCEPT !.files = {<<"tml", 2008>>, <<"sack", 2008>>}, !.legacy = {"f1"}, !.faults = 1, !.manual = 1],
     [Bare EXCEPT !.files = {<<"tml", 2008>>}, !.charting = TRUE, !.legacy = {"f1"}, !.manual = 1],
     [Bare EXCEPT !.reference = TRUE, !.publishes = 2],
     [Bare EXCEPT !.reference = TRUE, !.faults = 1, !.manual = 1],
     [Bare EXCEPT !.files = {<<"tml", 2020>>}, !.charting = TRUE, !.publishes = 1, !.faults = 1],
     [Bare EXCEPT !.files = {<<"tml", 2015>>, <<"tml", 2016>>}, !.publishes = 2, !.manual = 1]}

-----------------------------------------------------------------------------
\* Reference: two versions of the player table, a ranking file in batches.
MCBioRows == << {p1, p3}, {p1, p3, p4} >>
Entry(id, date, rank) == [id |-> id, date |-> date, rank |-> rank]
MCRankPaths == <<"old", "current">>
MCRankRows == [f \in {"old", "current"} |->
    IF f = "old" THEN << <<Entry(p1, 1, 5), Entry(p4, 1, 7)>>, <<Entry(p1, 1, 5), Entry(p3, 1, 6)>> >>
    ELSE << <<Entry(p1, 2, 4), Entry(p1, 2, 3)>>, <<Entry(p4, 1, 2), Entry(p3, 2, 2)>> >>]
MCMergePairs == {<<p4, p3>>}

-----------------------------------------------------------------------------
\* Charting: two matches of the same pair three weeks apart, one charted under
\* the round of the other, one that is nowhere, one of a name two players fit.
MCNames == {"one", "two", "both"}
MCSamePerson == {<<"one", p1>>, <<"two", p2>>, <<"both", p1>>, <<"both", p2>>}
Chart(id, a, b, round, day) == [id |-> id, names |-> <<a, b>>, round |-> round, day |-> day]
MCChartRows == << <<Chart(1, "one", "two", "F", 12), Chart(2, "two", "one", "R16", 33)>>,
                  <<Chart(1, "one", "two", "F", 90), Chart(3, "both", "two", "SF", 16),
                    Chart(4, "two", "one", "F", 16)>> >>
MCFigureNames == << (1 :> {"one", "two"}) @@ (2 :> {"one"}), (1 :> {"one", "two"}) @@ (3 :> {"two"}) >>
MCRoundOf == [k \in MCKeys |-> IF k = "c2" THEN "QF" ELSE "F"]
MCPlayedOn == [k \in MCKeys |-> CASE k = "c1" -> 10 [] k = "c2" -> 28 [] k = "c3" -> 14
                                   [] k = "f1" -> 10 [] OTHER -> 500]
MCYearOf == [d \in {12, 16, 33, 90} |-> IF d < 30 THEN 1 ELSE 2]
=============================================================================
