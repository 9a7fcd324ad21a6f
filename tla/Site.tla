---------------------------------- MODULE Site ----------------------------------
(* The read API beside the jobs that change what it reads: loads, the rating  *)
(* run, the hourly refresh. A request is the statements its handler makes, one *)
(* a step, each seeing what is committed then: nothing makes them one         *)
(* transaction. A walk is a client following next_cursor.                      *)
EXTENDS HeadToHead, RatingRun, Ongoing

CONSTANTS
    Loads,         \* what each load in turn adds to and takes from the matches
    Similar,       \* player -> how like the query, in hundredths, or Null
    Today, Latest4, \* the day, and weekLatest
    Plans          \* what happens in a behaviour, at most: see Init

\* A row of the table of matches. Nobody plays himself (Parse refuses the row, and
\* match_players has a player of a match once). Its id is its own: a load that adds
\* another row of an id has taken the first away. The official list has a player's
\* rank at a date once. A walk is of a kind that has cursors, a row a page or more.
IsMatch(m) ==
    /\ m.id \in Int /\ m.playedOn \in Nat /\ m.draw \in Int /\ m.num \in Int
    /\ {m.winner, m.loser} \subseteq Players /\ m.winner # m.loser
    /\ m.surface \in Surfaces \cup {Null}
Walks == {"history", "elo", "official", "search"}
ASSUME SiteAssumption ==
    /\ IsFiniteSet(Players) /\ Null \notin Int \X Int
    /\ IsFiniteSet(Official)
    /\ \A o \in Official : o.player \in Players /\ o.rank \in Int
    /\ \A o, q \in Official : o.player = q.player /\ o.date = q.date => o = q
    /\ Similar \in [Players -> Int \cup {Null}]
    /\ Loads \in Seq(Range(Loads))
    /\ \A i \in DOMAIN Loads :
        /\ IsFiniteSet(Loads[i].add)
        /\ \A m \in Loads[i].add : IsMatch(m)
        /\ \A j \in i .. Len(Loads) : \A m \in Loads[i].add, n \in Loads[j].add :
              m.id = n.id /\ m # n => \E k \in i + 1 .. j : m \in Loads[k].gone
    /\ \A p \in Plans :
        /\ DOMAIN p = {"loads", "rates", "faults", "polls", "publishes", "pages", "walks", "asks"}
        /\ p.loads \in 0 .. Len(Loads)
        /\ p.walks \in Nat
        /\ p.walks > 0 => \A ask \in p.asks : ask.kind \in Walks /\ ask.limit \in Nat \ {0}

VARIABLES
    prominence,    \* player -> best tier, as the last refresh derived it
    page,          \* Null, or [ask, got, still]: the answers so far
    walk,          \* Null, or [ask, after, seen, held, done]
    plan           \* what may still happen

siteVars == <<matches, ratings, rate, mirror, week, refresh, prominence, page, walk, plan>>

Spent(what) == plan[what] > 0 /\ plan' = [plan EXCEPT ![what] = @ - 1]
\* a commit while a page is being made: its statements saw different tables
Torn == page' = IF page = Null THEN Null ELSE [page EXCEPT !.still = FALSE]

-----------------------------------------------------------------------------
\* A load commits its matches, and later derives the players' prominence.
BestTier(rows, p) ==
    LET reached == {i \in 1 .. 4 : \E m \in PlayedBy(rows, p) :
                       m.tier = <<"tour", "challenger", "futures", "itf">>[i]}
    IN IF reached = {} THEN 5 ELSE Min(reached)
LoadCommits ==
    /\ Spent("loads")
    /\ LET load == Loads[Len(Loads) + 1 - plan.loads]
       IN matches' = (matches \ load.gone) \cup load.add
    /\ Torn
    /\ UNCHANGED <<ratings, rate, mirror, week, refresh, prominence, walk>>
LoadRefreshes ==
    /\ prominence' = [p \in Players |-> BestTier(matches, p)]
    /\ prominence' # prominence
    /\ Torn
    /\ UNCHANGED <<matches, ratings, rate, mirror, week, refresh, walk, plan>>

RatingJob ==
    \/ RateTruncates /\ Spent("rates") /\ UNCHANGED page
    \/ (RateReads \/ RateRow) /\ UNCHANGED <<page, plan>>
    \/ RateDies /\ Spent("faults") /\ UNCHANGED page
    \/ RateCommits /\ Torn /\ UNCHANGED plan
OngoingJob(j) ==
    \/ RefreshStarts(j) /\ Spent("polls") /\ UNCHANGED page
    \/ (ReadTag(j) \/ Fetch(j) \/ Delete(j) \/ Deleted(j)) /\ UNCHANGED <<page, plan>>
    \/ RollBack(j) /\ (IF Refused(j) THEN UNCHANGED plan ELSE Spent("faults")) /\ UNCHANGED page
    \/ (FetchFails(j) \/ RefreshDies(j)) /\ Spent("faults") /\ UNCHANGED page
    \/ Commit(j) /\ Torn /\ UNCHANGED plan

-----------------------------------------------------------------------------
\* The statements of each handler. Null ends a page early: not found, or a
\* player without a match.
NoFilter == [surface |-> Null, tier |-> Null, season |-> Null, opponent |-> Null]
Statements ==
    [profile |-> <<"ratings", "summary", "surfaces", "tiers", "ranks", "returns">>,
     highlights |-> <<"streaks", "wins", "finals", "rounds", "rivals", "quality">>,
     meetings |-> <<"meetings">>, common |-> <<"common">>,
     series |-> <<"series">>, rankings |-> <<"rankings">>,
     draw |-> <<"edition", "simulation">>, week |-> <<"week">>, sample |-> <<"sample">>]
ReadsRatings == {"ratings", "wins", "quality", "series", "simulation", "sample", "elo", "official"}

SampleRatedMatches(rows, table) ==
    LET On(p, day) == {r \in AsOf({s \in table : s.series = Overall}, day) : r.player = p}
    IN {[match |-> m, elos |-> [p \in {m.winner, m.loser} |-> CHOOSE r \in On(p, m.playedOn) : TRUE]] :
        m \in {r \in rows : /\ r.deciding # Null /\ ~r.team /\ r.surface # Null
                            /\ \A p \in {r.winner, r.loser} : On(p, r.playedOn) # {}}}

Answer(ask, statement, got) ==
    LET p == ask.player
    IN CASE statement = "ratings" -> GetPlayerRatings(ratings, p)
         [] statement = "summary" -> GetPlayerCareerSummary(matches, p)
         [] statement = "surfaces" -> GetPlayerSurfaceSplits(matches, p)
         [] statement = "tiers" -> GetPlayerTierSplits(matches, p)
         [] statement = "ranks" -> buildSplits(ListPlayerOpponentRanks(matches, p), p)
         [] statement = "returns" -> GetPlayerReturnSummary(matches, p)
         [] statement = "streaks" -> ListPlayerStreaks(matches, p)
         [] statement = "wins" -> ListPlayerBestWins(matches, ratings, p)
         [] statement = "finals" -> ListPlayerFinalsByCategory(matches, p)
         [] statement = "rounds" -> orderRounds(ListPlayerRoundRecord(matches, p))
         [] statement = "rivals" -> ListPlayerRivals(matches, p)
         [] statement = "quality" -> GetPlayerOpponentQuality(matches, ratings, p)
         [] statement = "meetings" ->
                buildHeadToHead(p, ask.other, Meetings(matches, p, ask.other), ask.filter)
         [] statement = "common" ->
                CommonOpponents(ListCommonOpponents(matches, p, ask.other, ask.limit))
         [] statement = "series" -> ListPlayerRatingSeries(ratings, p, ask.series, ask.from, ask.to)
         [] statement = "rankings" -> ListPlayerRankingHistory(p, ask.from, ask.to)
         [] statement = "edition" ->
                IF ask.tour = Null THEN FindEdition(matches, ask.event, ask.season)
                ELSE FindTournament(matches, ask.tour, ask.season, ask.event)
         [] statement = "simulation" -> Simulation(matches, ratings, got[1], ask.runs, ask.seed)
         [] statement = "week" -> buildThisWeek(UNION {week[f].rows : f \in Range(Files)},
                                                Today, Latest4, 7)
         [] statement = "sample" -> SampleRatedMatches(matches, ratings)

Ask ==
    /\ page = Null /\ Spent("pages")
    /\ \E ask \in plan.asks : page' = [ask |-> ask, got |-> <<>>, still |-> TRUE]
    /\ UNCHANGED <<matches, ratings, rate, mirror, week, refresh, prominence, walk>>
Complete == page # Null
            /\ \/ Len(page.got) = Len(Statements[page.ask.kind])
               \/ page.got # <<>> /\ Last(page.got) = Null
Statement ==
    /\ page # Null /\ ~Complete
    /\ LET statement == Statements[page.ask.kind][Len(page.got) + 1]
       IN /\ statement \in ReadsRatings => Readable
          /\ page' = [page EXCEPT !.got = Append(@, Answer(page.ask, statement, @))]
    /\ UNCHANGED <<matches, ratings, rate, mirror, week, refresh, prominence, walk, plan>>
Respond ==
    /\ Complete /\ page' = Null
    /\ UNCHANGED <<matches, ratings, rate, mirror, week, refresh, prominence, walk, plan>>

-----------------------------------------------------------------------------
\* SearchPlayers: similarity weighted by the best tier reached; best first.
SearchRank(p) == Similar[p] * <<100, 85, 70, 70, 60>>[prominence[p]]
Searched(tour) == {p \in Players : Similar[p] # Null /\ OfTour(p, tour)}
SearchKey(p) == <<-SearchRank(p), p>>
SearchPlayersByRank(tour, after, limit) == \* a plausible slip: no tiebreak in the cursor
    LET found == {p \in Searched(tour) : after # Null => -SearchRank(p) > after[1]}
        order == InOrder(found, [p \in found |-> SearchKey(p)])
    IN Limited([i \in DOMAIN order |-> [player |-> order[i], key |-> SearchKey(order[i])]], limit)
SearchPlayers(tour, after, limit) ==
    LET found == Searched(tour)
        order == PageInOrder(found, [p \in found |-> SearchKey(p)], after)
    IN Limited([i \in DOMAIN order |-> [player |-> order[i], key |-> SearchKey(order[i])]], limit)

\* eloRankings, officialRankings: the date is resolved anew on every page.
eloRankings(ask, after, limit) ==
    LET asOf == EffectiveEloDate(ratings, ask.series, ask.tour, ask.date)
        published == EffectiveOfficialDate(ask.tour, asOf)
        rows == ListEloRankings(ratings, ask.series, asOf, ask.tour, after, limit)
    IN IF asOf = Null THEN <<>>
       ELSE [i \in DOMAIN rows |-> EloRow(ratings, ask.series, asOf, published, rows[i])]
officialRankings(ask, after, limit) ==
    LET date == EffectiveOfficialDate(ask.tour, ask.date)
        rows == ListOfficialRankings(date, ask.tour, after, limit)
    IN IF date = Null THEN <<>> ELSE [i \in DOMAIN rows |-> OfficialRow(ratings, Overall, date, rows[i])]

PageOf(ask, after, limit) ==
    CASE ask.kind = "history" -> ListPlayerMatches(matches, ask.player, ask.filter, after, limit)
      [] ask.kind = "elo" -> eloRankings(ask, after, limit)
      [] ask.kind = "official" -> officialRankings(ask, after, limit)
      [] ask.kind = "search" -> SearchPlayers(ask.tour, after, limit)
Keys(rows) == [i \in DOMAIN rows |-> rows[i].key]
AllKeys(ask) == Range(Keys(PageOf(ask, Null, 1000)))

WalkStarts ==
    /\ walk = Null /\ Spent("walks")
    /\ \E ask \in plan.asks :
          walk' = [ask |-> ask, after |-> Null, seen |-> <<>>, held |-> {}, done |-> FALSE]
    /\ UNCHANGED <<matches, ratings, rate, mirror, week, refresh, prominence, page>>
\* A page: a cursor to the next only when it is full.
WalkTakes ==
    /\ walk # Null /\ ~walk.done
    /\ walk.ask.kind \in ReadsRatings => Readable
    /\ LET rows == PageOf(walk.ask, walk.after, walk.ask.limit)
           now == AllKeys(walk.ask)
       IN walk' = [walk EXCEPT !.seen = @ \o Keys(rows), !.done = Len(rows) < walk.ask.limit,
                               !.after = IF rows = <<>> THEN @ ELSE Last(rows).key,
                               !.held = IF walk.after = Null THEN now ELSE @ \cap now]
    /\ UNCHANGED <<matches, ratings, rate, mirror, week, refresh, prominence, page, plan>>

-----------------------------------------------------------------------------
Init ==
    /\ matches = {} /\ prominence = [p \in Players |-> 5]
    /\ RatingInit /\ OngoingInit /\ page = Null /\ walk = Null /\ plan \in Plans

Next ==
    \/ LoadCommits \/ LoadRefreshes
    \/ RatingJob /\ UNCHANGED <<mirror, week, refresh, prominence, walk>>
    \/ \E f \in Range(Files) : Publish(f) /\ Spent("publishes")
          /\ UNCHANGED <<matches, ratings, rate, prominence, page, walk>>
    \/ \E j \in Jobs : OngoingJob(j) /\ UNCHANGED <<matches, ratings, rate, prominence, walk>>
    \/ Ask \/ Statement \/ Respond
    \/ WalkStarts \/ WalkTakes

Spec == Init /\ [][Next]_siteVars

-----------------------------------------------------------------------------
\* What pages that saw one moment must agree on.
Sum(rows, column) == FoldSet(LAMBDA r, n : n + r[column], 0, rows)
Rated(p) == {m \in PlayedBy(matches, p) : ~Excluded(m)}
RatedNow == ratings = TableOf(matches)

ProfileAgrees(p, got) ==
    LET summary == got[2]
        profile == [career |-> buildCareer(summary, got[3], got[4]), serve |-> buildServe(summary, got[4]),
                    return |-> buildReturn(summary, got[6], got[4]), points |-> buildPoints(got[6])]
        splits == got[5]
        finished == Cardinality({m \in PlayedBy(matches, p) : ~m.incomplete /\ ~m.team})
    IN /\ \A column \in {"matches", "wins"} :
             Sum(profile.career.surfaces, column) = summary[column]
       /\ Sum(profile.career.tiers, "matches") = summary.matches
       /\ Sum(profile.career.tiers, "withStats") <= summary.matches
       /\ profile.points # Null => profile.points.matches <= Min({profile.serve.matches, profile.return.matches})
       /\ IF splits = Null THEN finished = 0
          ELSE /\ splits.bands[100].matches + splits.outside.matches = splits.ranked
               /\ splits.ranked + splits.unranked.matches = finished
               /\ \A a, b \in Bands : a < b => splits.bands[a].matches <= splits.bands[b].matches
               /\ splits.higher.matches + splits.lower.matches <= splits.ranked
       /\ RatedNow => /\ (got[1] = <<>>) = (Rated(p) = {})
                      /\ \A i \in DOMAIN got[1] : got[1][i].matches = Cardinality(
                             {m \in Rated(p) : got[1][i].series \in {Overall, m.surface}})
       /\ \A i \in DOMAIN got[1] : got[1][i].peak >= got[1][i].elo /\ got[1][i].peakAsOf <= got[1][i].asOf

\* the runs of one result after another, said directly
RunsOf(p) ==
    LET played == ListPlayerOpponentRanks(matches, p)
        order == InOrder(played, [m \in played |-> <<m.playedOn, m.id>>])
        Same(i, j) == \A k \in i .. j : Won(p, order[k]) = Won(p, order[i])
        Whole(r) == /\ r[1] <= r[2] /\ Same(r[1], r[2])
                    /\ r[1] = 1 \/ ~Same(r[1] - 1, r[2])
                    /\ r[2] = Len(order) \/ ~Same(r[1], r[2] + 1)
    IN {[won |-> Won(p, order[r[1]]), length |-> r[2] + 1 - r[1], ends |-> r[2]] :
           r \in {ij \in (DOMAIN order) \X (DOMAIN order) : Whole(ij)}}
HighlightsAgree(p, got) ==
    LET summary == GetPlayerCareerSummary(matches, p)
        LengthOf(won) == Max({r.length : r \in {s \in RunsOf(p) : s.won = won}} \cup {0})
        Length(streak) == IF streak = Null THEN 0 ELSE streak.length
        rounds == Range(got[4])
        quality == got[6]
    IN /\ Length(got[1].best) = LengthOf(TRUE) /\ Length(got[1].worst) = LengthOf(FALSE)
       /\ Sum(got[3], "wins") = (IF summary = Null THEN 0 ELSE summary.titles)
       /\ \A r \in rounds : r.wins <= r.matches
       /\ Cardinality(rounds) = Len(got[4])
       /\ Sum(rounds, "matches") <= Cardinality(ListPlayerOpponentRanks(matches, p))
       /\ \A i \in DOMAIN got[2] : quality.highest # Null /\ quality.highest >= got[2][i].elo
       /\ quality.elite.matches <= quality.rated
       /\ \A i \in DOMAIN got[5] :
             LET met == {m \in Meetings(matches, p, got[5][i].name) : ~m.team}
             IN Record(met, p) = [matches |-> got[5][i].matches, wins |-> got[5][i].wins]

\* the same page, asked for the other way round
Swapped(h) ==
    LET Turn(s) == [s EXCEPT !.wins = <<@[2], @[1]>>]
        Turned(splits) == {Turn(s) : s \in splits}
    IN [h EXCEPT !.record = Turn(@), !.surfaces = Turned(@), !.tiers = Turned(@),
                 !.serve = <<@[2], @[1]>>,
                 !.closeness = [@ EXCEPT !.deciders = Turn(@), !.tiebreaks = Turn(@)],
                 !.meetings = {[m EXCEPT !.winner = 3 - @,
                                         !.tiebreaks = IF @ = Null THEN @ ELSE <<@[2], @[1]>>] : m \in @}]
MeetingsAgree(ask, h) ==
    /\ Swapped(h) = buildHeadToHead(ask.other, ask.player,
                                    Meetings(matches, ask.other, ask.player), ask.filter)
    /\ h.record.wins[1] + h.record.wins[2] = h.record.matches
    /\ Sum(h.surfaces, "matches") = h.record.matches /\ Sum(h.tiers, "matches") = h.record.matches
    /\ Cardinality(h.meetings) = h.record.matches /\ h.record.matches <= h.total
    /\ h.closeness.tiebreaks.matches
       = FoldSet(LAMBDA m, n : n + m.tb[1] + m.tb[2], 0,
                 {m \in Meetings(matches, ask.player, ask.other) : m.tb # Null})
    /\ h.closeness.deciders.matches <= h.closeness.scored /\ h.closeness.scored <= h.total
CommonAgrees(ask, c) ==
    LET Against(p, q) == Record({m \in Meetings(matches, p, q) : ~m.team}, p)
    IN \A i \in DOMAIN c.opponents :
          c.opponents[i].sides = <<Against(ask.player, c.opponents[i].opponent),
                                   Against(ask.other, c.opponents[i].opponent)>>
SeriesAgrees(ask, s) ==
    LET strip == GetPlayerRatings(ratings, ask.player)
    IN ask.from = Null /\ ask.to = Null /\ s.points # <<>> =>
          \E i \in DOMAIN strip : strip[i].series = ask.series
             /\ strip[i].elo = Last(s.points).elo /\ strip[i].asOf = s.range.to
             /\ \A k \in DOMAIN s.points : s.points[k].elo <= strip[i].peak
RankingsAgree(ask, h) ==
    \A k \in DOMAIN h.points : h.best.rank <= h.points[k].rank
        /\ (h.best.rank = h.points[k].rank => h.best.on <= h.points[k].on)
WeekAgrees(events) ==
    \A i \in DOMAIN events :
        /\ Len(events[i].latest) = Min({Latest4, events[i].matches})
        /\ events[i].champion # Null => events[i].round = Depth("F")
        /\ events[i].latest[1].on = events[i].last /\ Today - events[i].last <= 7

\* Every figure of the site has one definition: what two pages, or two blocks of
\* one page, say of a player made from one state of the tables agrees, and a
\* page whose statements straddled a commit is the only one that may not.
PagesOfOneMomentAgree ==
    Complete /\ page.still /\ Last(page.got) # Null =>
        LET ask == page.ask
            got == page.got
        IN CASE ask.kind = "profile" -> ProfileAgrees(ask.player, got)
             [] ask.kind = "highlights" -> HighlightsAgree(ask.player, got)
             [] ask.kind = "meetings" -> MeetingsAgree(ask, got[1])
             [] ask.kind = "common" -> CommonAgrees(ask, got[1])
             [] ask.kind = "series" -> SeriesAgrees(ask, got[1])
             [] ask.kind = "rankings" -> RankingsAgree(ask, got[1])
             [] ask.kind = "week" -> WeekAgrees(got[1])
             [] OTHER -> TRUE

\* "A cursor names the last row seen": a walk shows its rows in order, none
\* twice, and every row whose key held still while it ran, whatever moved
\* around it -- a load, a whole new set of ratings, a week that arrived.
WalksKeepTheirPlace ==
    walk # Null =>
        /\ \A i \in 2 .. Len(walk.seen) : Precedes(walk.seen[i - 1], walk.seen[i])
        /\ walk.done => walk.held \subseteq Range(walk.seen)

\* A draw is simulated when, and only when, its matches link up to the final;
\* played with the results it had, the bracket gives back every match of it;
\* and however the runs are shared out, each round of each is decided once,
\* and an empty line never wins.
BracketsReplayTheDraw ==
    Complete /\ page.ask.kind = "draw" /\ Last(page.got) # Null =>
        LET s == page.got[2]
        IN /\ (s.line # Null) = LinksUp(s.matches)
           /\ s.line # Null =>
                /\ Replays(s.line, s.matches)
                /\ \A r \in 1 .. Len(RoundsOf(s.matches)) :
                      Sum({[line |-> i, won |-> s.odds[i][r]] : i \in DOMAIN s.odds}, "won")
                      = s.runs * (Len(s.line) \div 2^r)

\* "As of the match, never after it": the rating a sampled match is read with
\* knows the matches of each side that were played before it, and no other, even
\* where the ratings are those of the matches as they stand.
RatedBeforeTheyPlayed ==
    Complete /\ page.still /\ RatedNow /\ page.ask.kind = "sample" =>
        \A sampled \in Last(page.got) : \A p \in DOMAIN sampled.elos :
            sampled.elos[p].matches <= Cardinality(
                {m \in Rated(p) : Precedes(<<m.playedOn, m.draw, RoundRank(m.round), m.num, m.id>>,
                    <<sampled.match.playedOn, sampled.match.draw, RoundRank(sampled.match.round),
                      sampled.match.num, sampled.match.id>>)})
===============================================================================
