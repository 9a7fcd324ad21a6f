------------------------------ MODULE HeadToHead ------------------------------
(* Two players: their meetings, and the people both have played.              *)
EXTENDS Career

\* ListHeadToHeadMeetings, whose order the rows carry
Meetings(rows, a, b) == PlayedBy(PlayedBy(rows, a), b)

\* meetingFilter.keep; a filter's field that was not asked for is Null or FALSE
Keep(f, m) ==
    /\ f.level # Null => Category(m) = f.level
    /\ f.round = "Q" => m.qualifying
    /\ f.round \notin {Null, "Q"} => m.round = f.round /\ ~m.qualifying
    /\ f.bestOf # Null => m.bestOf = f.bestOf
    /\ f.surface # Null => m.surface = f.surface
    /\ f.deciders => m.deciding = TRUE
    /\ f.tiebreaks => m.tb # Null /\ m.tb[1] + m.tb[2] > 0
    /\ f.from # Null => m.season >= f.from
    /\ f.to # Null => m.season <= f.to

\* matches won by each, in the order the players were asked for
Split(rows, a, b) == [matches |-> Cardinality(rows), wins |-> <<Wins(rows, a), Wins(rows, b)>>]
SplitsBy(rows, a, b, by) ==
    {[name |-> g] @@ Split({m \in rows : by[m] = g}, a, b) : g \in {by[m] : m \in rows}}

\* over every meeting, whatever was asked for
Closeness(rows, a, b) ==
    LET counted == {m \in rows : m.tb # Null}
        TiebreaksOf(p) == FoldSet(LAMBDA m, n : n + m.tb[IF Won(p, m) THEN 1 ELSE 2], 0, counted)
    IN [scored |-> Cardinality({m \in rows : m.deciding # Null}),
        deciders |-> Split({m \in rows : m.deciding = TRUE}, a, b),
        tiebreaks |-> [matches |-> TiebreaksOf(a) + TiebreaksOf(b),
                       wins |-> <<TiebreaksOf(a), TiebreaksOf(b)>>]]

\* a side's serve line over the meetings, or why there is none
ServeOver(rows, p) ==
    LET lines == Lines(rows, p)
    IN [matches |-> Cardinality(lines),
        availability |-> IF lines # {} THEN "recorded"
                         ELSE Explain({m.tier : m \in rows}, Max({m.season : m \in rows} \cup {0})),
        rates |-> IF lines = {} THEN Null ELSE ServeRates(lines)]

buildHeadToHead(a, b, rows, filter) ==
    LET kept == {m \in rows : Keep(filter, m)}
    IN [record |-> Split(kept, a, b), incomplete |-> Cardinality(kept \ Finished(kept)),
        total |-> Cardinality(rows), closeness |-> Closeness(rows, a, b),
        surfaces |-> SplitsBy(kept, a, b, [m \in kept |-> m.surface]),
        tiers |-> SplitsBy(kept, a, b, [m \in kept |-> m.tier]),
        serve |-> <<ServeOver(kept, a), ServeOver(kept, b)>>,
        meetings |-> {[id |-> m.id, winner |-> IF m.winner = b THEN 2 ELSE 1,
                       tiebreaks |-> IF m.tb = Null THEN Null
                                     ELSE [i \in 1 .. 2 |-> m.tb[IF (i = 1) = Won(a, m) THEN 1 ELSE 2]]] :
                      m \in kept}]

\* ListCommonOpponents, and the totals of the rows it returned
ListCommonOpponents(rows, a, b, limit) ==
    LET Faced(p) == {m \in PlayedBy(rows, p) : ~m.team}
        Opponents(p) == {Opponent(p, m) : m \in Faced(p)}
        both == (Opponents(a) \cap Opponents(b)) \ {a, b}
        Against(p, q) == Record(PlayedBy(Faced(p), q), p)
        order == InOrder(both, [q \in both |->
                     <<-(Against(a, q).matches + Against(b, q).matches), NameOf[q]>>])
    IN Limited([i \in DOMAIN order |-> [opponent |-> order[i],
                   sides |-> <<Against(a, order[i]), Against(b, order[i])>>]], limit)
CommonOpponents(opponents) ==
    [opponents |-> opponents, total |-> Len(opponents),
     totals |-> [s \in 1 .. 2 |->
        FoldLeft(LAMBDA t, o : [matches |-> t.matches + o.sides[s].matches, wins |-> t.wins + o.sides[s].wins],
                 [matches |-> 0, wins |-> 0], opponents)]]
===============================================================================
