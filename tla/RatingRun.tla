------------------------------ MODULE RatingRun ------------------------------
(* cmd/rate and internal/rating: the whole history replayed from scratch in   *)
(* one transaction, a snapshot of each series for each week it moved.         *)
(*                                                                            *)
(* A rating is in tenths of a point. K and Expected are functions given as     *)
(* constants: what the replay does with them does not depend on their floating *)
(* point.                                                                      *)
EXTENDS Draws

CONSTANTS
    Base,          \* what a player never rated starts from
    KOf,           \* matches played before -> K
    Batch,         \* snapshots per COPY
    TeamEvents     \* cfg.IncludeTeamEvents

ASSUME RatingAssumption == Batch \in Nat \ {0} /\ TeamEvents \in BOOLEAN

VARIABLES
    matches,       \* the table of matches
    ratings,       \* the table of ratings, as committed
    rate           \* the run: Null, or what it holds

ratingVars == <<ratings, rate>>

\* the order matches are replayed in
ReplayOrder(rows) ==
    InOrder(rows, [m \in rows |-> <<m.playedOn, m.draw, RoundRank(m.round), m.num, m.id>>])
Excluded(m) == (m.team /\ ~TeamEvents) \/ m.walkover

\* what a result counts for, in percent
Weight(m) ==
    CASE m.tier = "challenger" -> 80
      [] m.tier \in {"futures", "itf"} -> 60
      [] m.level = "G" /\ m.round = "F" -> 120
      [] m.level \in {"G", "F"} -> 110
      [] m.level = "M" -> 105
      [] m.level = "D" -> 80
      [] OTHER -> 100
For(m) == Weight(m) * (IF m.qualifying THEN 90 ELSE 100)
Gain(played, weight, surprise) == (KOf[played] * weight * surprise) \div 1000000

\* the engine: every series it has seen, those that moved this week, the week
StateOf(series, key) == IF key \in DOMAIN series THEN series[key] ELSE [elo |-> Base, matches |-> 0]
Rate(e, m, s) ==
    LET won == <<m.winner, s>>
        lost == <<m.loser, s>>
        w == StateOf(e.series, won)
        l == StateOf(e.series, lost)
        surprise == 100 - Expected[w.elo - l.elo]
        Moved(state, by) == [elo |-> state.elo + by, matches |-> state.matches + 1]
        after == [k \in DOMAIN e.series \cup {won, lost} |->
                     IF k = won THEN Moved(w, Gain(w.matches, For(m), surprise))
                     ELSE IF k = lost THEN Moved(l, -Gain(l.matches, For(m), surprise))
                     ELSE e.series[k]]
    IN [e EXCEPT !.series = after, !.touched = @ \cup {won, lost}]

\* the writer behind emit: snapshots wait in buf until there are Batch of them. What
\* emitting rows in turn leaves: every full batch is copied, the rest waits.
CopyOut(w) == [buf |-> <<>>, copied |-> w.copied \cup Range(w.buf)]
Emit(w, rows) ==
    LET all == w.buf \o rows
        full == Len(all) - (Len(all) % Batch)
    IN [buf |-> SubSeq(all, full + 1, Len(all)),
        copied |-> w.copied \cup Range(SubSeq(all, 1, full))]

\* Go's order of the series, by name
SeriesByName == [carpet |-> 1, clay |-> 2, grass |-> 3, hard |-> 4, overall |-> 5]
Snapshots(e, dated) ==
    LET keys == InOrder(e.touched, [k \in e.touched |-> <<k[1], SeriesByName[k[2]]>>])
    IN [i \in DOMAIN keys |->
           [player |-> keys[i][1], series |-> keys[i][2], asOf |-> dated,
            elo |-> e.series[keys[i]].elo, matches |-> e.series[keys[i]].matches]]
FlushNext(e, week) == \* a plausible slip: the rows dated to the week that opens
    [e EXCEPT !.touched = {}, !.week = week, !.out = Emit(@, Snapshots(e, week))]
Flush(e, week) ==
    [e EXCEPT !.touched = {}, !.week = week, !.out = Emit(@, Snapshots(e, e.week))]

Add(e, m) ==
    LET week == WeekOf(m.playedOn)
        opened == IF week > e.week THEN Flush(e, week) ELSE e
        rated == Rate(opened, m, Overall)
    IN IF m.surface = Null THEN rated ELSE Rate(rated, m, m.surface)

NewEngine == [series |-> <<>>, touched |-> {}, week |-> -1, out |-> [buf |-> <<>>, copied |-> {}]]

-----------------------------------------------------------------------------
RatingInit == ratings = {} /\ rate = Null

\* TRUNCATE: until the run ends its lock keeps every reader of ratings waiting.
RateTruncates ==
    /\ rate = Null
    /\ rate' = [at |-> "truncated", from |-> {}, left |-> <<>>, engine |-> NewEngine]
    /\ UNCHANGED <<matches, ratings>>
Readable == rate = Null

\* The matches are read on another connection, as they are when its query runs.
RateReads ==
    /\ rate # Null /\ rate.at = "truncated"
    /\ rate' = [rate EXCEPT !.at = "replaying", !.from = matches, !.left = ReplayOrder(matches)]
    /\ UNCHANGED <<matches, ratings>>

\* A row: excluded, or rated. One of an earlier week than the engine's would be
\* an error, which ends the run as RateDies does.
RateRow ==
    /\ rate # Null /\ rate.left # <<>>
    /\ LET m == Head(rate.left)
       IN /\ Excluded(m) \/ WeekOf(m.playedOn) >= rate.engine.week
          /\ rate' = [rate EXCEPT !.left = Tail(@), !.engine = IF Excluded(m) THEN @ ELSE Add(@, m)]
    /\ UNCHANGED <<matches, ratings>>

\* Close, the writer's last flush, COMMIT.
RateCommits ==
    /\ rate # Null /\ rate.at = "replaying" /\ rate.left = <<>>
    /\ ratings' = CopyOut(Flush(rate.engine, rate.engine.week).out).copied
    /\ rate' = Null
    /\ UNCHANGED matches

\* Killed, cancelled or failed: the transaction is rolled back.
RateDies ==
    /\ rate # Null /\ rate' = Null
    /\ UNCHANGED <<matches, ratings>>

-----------------------------------------------------------------------------
\* What a table of ratings should be, without weeks that open and close: what
\* every series was worth after the last match of each week it moved in.
Feeds(m) == {Overall} \cup ({m.surface} \ {Null})
Fed(m) == {m.winner, m.loser} \X Feeds(m)
Unrated == [k \in Players \X Series |-> [elo |-> Base, matches |-> 0]]
Counted(table, m) ==
    [k \in Players \X Series |->
        LET w == table[m.winner, k[2]]
            l == table[m.loser, k[2]]
            by == 100 - Expected[w.elo - l.elo]
        IN IF k \notin Fed(m) THEN table[k]
           ELSE IF k[1] = m.winner
           THEN [elo |-> w.elo + Gain(w.matches, For(m), by), matches |-> w.matches + 1]
           ELSE [elo |-> l.elo - Gain(l.matches, For(m), by), matches |-> l.matches + 1]]
\* the series after each of the matches, from none
Replayed(order) ==
    LET after[n \in 0 .. Len(order)] ==
            IF n = 0 THEN Unrated
            ELSE IF Excluded(order[n]) THEN after[n - 1] ELSE Counted(after[n - 1], order[n])
    IN after
WeekEnd(order, week) == Cardinality({i \in DOMAIN order : WeekOf(order[i].playedOn) <= week})
RowOf(order, k, week) ==
    LET state == Replayed(order)[WeekEnd(order, week)][k]
    IN [player |-> k[1], series |-> k[2], asOf |-> week, elo |-> state.elo, matches |-> state.matches]
TableOf(rows) ==
    LET order == ReplayOrder(rows)
    IN UNION {{RowOf(order, k, WeekOf(order[i].playedOn)) : k \in Fed(order[i])} :
              i \in {j \in DOMAIN order : ~Excluded(order[j])}}

\* "Run recomputes every rating from scratch": what is committed is the replay of
\* the matches the run read, whole, with the last week and the last batch in it;
\* and a run that dies leaves the ratings of the one before.
RatingsFollowReplay == [][ratings' # ratings => rate # Null /\ ratings' = TableOf(rate.from)]_ratings
=============================================================================
