--------------------------------- MODULE Draws ---------------------------------
(* A draw rebuilt from its matches and played again: simulate.BuildBracket,   *)
(* RunDraw, and the ratings simulateDraw reads for it. An entrant is a        *)
(* player's id, 0 an empty line. A draw that does not link up is Null.        *)
EXTENDS Rankings

CONSTANTS
    Expected,      \* one rating less the other -> chance of winning, in percent
    CoinOf,        \* a worker's stream of random numbers, 0 .. 99, for a seed
    Workers        \* GOMAXPROCS

Bye == 0
Rounds == <<"Q1", "Q2", "Q3", "Q4", "Q5", "ER", "RR", "R128", "R64", "R32", "R16", "QF",
            "SF", "BR", "F", "CR">>
RoundRank(round) ==
    IF round \in Range(Rounds) THEN (CHOOSE i \in DOMAIN Rounds : Rounds[i] = round) - 1
    ELSE Len(Rounds)

\* An edition by its event and season: the first, where there are several.
FindEdition(rows, event, season) ==
    LET editions == {m \in rows : m.event = event /\ m.season = season}
    IN IF editions = {} THEN Null
       ELSE Least(editions, [m \in editions |-> <<m.start, m.draw>>])
\* The older form: by tour and name, whatever the case. Of two that start on one
\* day Postgres may give either; here the first by id.
FindTournament(rows, tour, season, name) ==
    LET named == {m \in rows : m.tour = tour /\ m.season = season /\ m.name = name}
    IN IF named = {} THEN Null
       ELSE Least(named, [m \in named |-> <<m.start, m.draw>>])
ListDrawMatches(rows, draw) ==
    {m \in rows : m.draw = draw /\ ~m.qualifying /\ ~m.team /\ m.round # "BR"}

RoundsOf(matches) == LET ranks == {RoundRank(m.round) : m \in matches}
                     IN InOrder(ranks, [r \in ranks |-> <<r>>])
Played(matches, rank) == {m \in matches : RoundRank(m.round) = rank}
WonBy(matches, rank, p) == {m \in Played(matches, rank) : m.winner = p}

\* every round above the first full, the first short by the byes
Sized(matches) ==
    LET order == RoundsOf(matches)
        Want(i) == 2^(Len(order) - i)
    IN \A i \in DOMAIN order :
          LET n == Cardinality(Played(matches, order[i]))
          IN n <= Want(i) /\ (i > 1 => n = Want(i))

\* walk: from the final down, the two who met in the match each player won
Walk(matches) ==
    LET order == RoundsOf(matches)
        depth == Len(order)
        final == CHOOSE m \in Played(matches, Last(order)) : TRUE
        Feeders(p, d) ==
            LET won == WonBy(matches, order[d], p)
            IN IF won # {} THEN LET m == Least(won, [w \in won |-> <<-w.num>>]) IN <<m.winner, m.loser>>
               ELSE IF d = 1 THEN <<p, Bye>> ELSE <<Null>>
        Below(line, d) == IF Null \in Range(line) THEN <<Null>>
                          ELSE FlattenSeq([i \in DOMAIN line |-> Feeders(line[i], d)])
    IN FoldLeft(LAMBDA line, i : Below(line, depth + 1 - i), <<final.winner>>, [i \in 1 .. depth |-> i])
Entered(line) == Cardinality({i \in DOMAIN line : line[i] # Bye})
WalkOnly(matches) == \* a plausible slip: the players reached are not counted
    LET line == IF matches = {} \/ ~Sized(matches) THEN <<Null>> ELSE Walk(matches)
    IN IF Null \in Range(line) THEN Null ELSE line
BuildBracket(matches) ==
    LET line == IF matches = {} \/ ~Sized(matches) THEN <<Null>> ELSE Walk(matches)
    IN IF Null \in Range(line) \/ Entered(line) # Cardinality(matches) + 1 THEN Null ELSE line

\* What each is rated going in: overall, and on the surface by the matches
\* behind it, up to three quarters at forty.
Blend(surface, overall) ==
    LET w == Min({30, surface.matches}) IN (w * surface.elo + (40 - w) * overall.elo) \div 40
RatingsAsOf(table, line, series, day) ==
    LET rows == AsOf({r \in table : r.player \in Range(line)}, day)
        Row(p, s) == CHOOSE r \in rows : r.player = p /\ r.series = s
        Has(p, s) == \E r \in rows : r.player = p /\ r.series = s
    IN [p \in {q \in Range(line) : Has(q, Overall)} |->
           IF series # Overall /\ Has(p, series) THEN Blend(Row(p, series), Row(p, Overall))
           ELSE Row(p, Overall).elo]

\* newPairOdds: nobody loses to an empty line, one without a rating is even,
\* and the mirror of a pair is its complement.
PairOdds(line, elos) ==
    [i, j \in DOMAIN line |->
        LET Chance(a, b) ==
                CASE line[a] = Bye -> 0
                  [] line[a] # Bye /\ line[b] = Bye -> 100
                  [] OTHER -> IF {line[a], line[b]} \subseteq DOMAIN elos
                              THEN Expected[elos[line[a]] - elos[line[b]]] ELSE 50
        IN IF i < j THEN Chance(i, j) ELSE 100 - Chance(j, i)]

\* playOnce: the lines that won each round, as one worker's coins fall
playOnce(line, odds, rounds, seed, worker, run) ==
    LET Coin(r, i) == CoinOf[(seed + worker * 7 + run * 5 + r * 3 + i) % 10]
        Next(field, r) ==
            [i \in 1 .. Len(field) \div 2 |->
                IF Coin(r, i) < odds[field[2 * i - 1], field[2 * i]] THEN field[2 * i - 1]
                ELSE field[2 * i]]
        fields == FoldLeft(LAMBDA f, r : Append(f, Next(Last(f), r)),
                           <<[i \in DOMAIN line |-> i]>>, [r \in 1 .. rounds |-> r])
    IN [r \in 1 .. rounds |-> Range(fields[r + 1])]
\* RunDraw: the runs shared out over the workers, the tallies summed
RunDraw(line, elos, rounds, runs, seed) ==
    LET odds == PairOdds(line, elos)
        workers == Min({Workers, runs})
        Share(w) == (runs \div workers) + (IF w < runs % workers THEN 1 ELSE 0)
        played == UNION {{<<w, i>> : i \in 1 .. Share(w)} : w \in 0 .. workers - 1}
        won == [k \in played |-> playOnce(line, odds, rounds, seed, k[1], k[2])]
    IN [i \in {j \in DOMAIN line : line[j] # Bye} |->
           [r \in 1 .. rounds |-> Cardinality({k \in played : i \in won[k][r]})]]

Simulation(rows, table, draw, runs, seed) ==
    LET matches == ListDrawMatches(rows, draw.draw)
        line == BuildBracket(matches)
        series == IF draw.surface = Null THEN Overall ELSE draw.surface
    IN IF line = Null THEN [line |-> Null, matches |-> matches]
       ELSE [line |-> line, matches |-> matches, runs |-> runs,
             elos |-> RatingsAsOf(table, line, series, draw.start),
             odds |-> RunDraw(line, RatingsAsOf(table, line, series, draw.start),
                              Len(RoundsOf(matches)), runs, seed)]

-----------------------------------------------------------------------------
\* A draw that links up, said from the bottom: rounds halve, and whoever plays
\* above the first round won below, except in the second, where a bye will do;
\* whoever wins below the final plays above, and nobody wins a round twice.
LinksUp(matches) ==
    LET order == RoundsOf(matches)
        Sides(i) == UNION {{m.winner, m.loser} : m \in Played(matches, order[i])}
        Winners(i) == {m.winner : m \in Played(matches, order[i])}
    IN /\ matches # {} /\ Sized(matches)
       /\ \A i \in DOMAIN order : Cardinality(Winners(i)) = Cardinality(Played(matches, order[i]))
       /\ \A i \in 2 .. Len(order) :
             Winners(i - 1) \subseteq Sides(i) /\ (i > 2 => Sides(i) \subseteq Winners(i - 1))
\* the bracket played forward, every pair decided as it was
Replays(line, matches) ==
    LET order == RoundsOf(matches)
        Beat(r, a, b) == \E m \in Played(matches, order[r]) : m.winner = a /\ m.loser = b
        Next(field, r) == [i \in 1 .. Len(field) \div 2 |->
                              IF field[2 * i] = Bye \/ Beat(r, field[2 * i - 1], field[2 * i])
                              THEN field[2 * i - 1] ELSE field[2 * i]]
        fields == FoldLeft(LAMBDA f, r : Append(f, Next(Last(f), r)), <<line>>,
                           [r \in 1 .. Len(order) |-> r])
        Met(r) == {<<fields[r + 1][i], {fields[r][2 * i - 1], fields[r][2 * i]}>> :
                      i \in 1 .. Len(fields[r]) \div 2}
    IN \A r \in DOMAIN order :
          {<<m.winner, {m.winner, m.loser}>> : m \in Played(matches, order[r])}
          = {t \in Met(r) : Bye \notin t[2]}
===============================================================================
