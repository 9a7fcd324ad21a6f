----------------------------- MODULE MatchStore -----------------------------
(***************************************************************************)
(* The match tables and what is derived from them (internal/ingest/store*, *)
(* prune.go): rows upserted by natural key from sources that disagree,     *)
(* columns the score parser derives, the tables the pages read, and the    *)
(* prune that repairs rows written under older rules.                      *)
(*                                                                         *)
(* A transaction carries one row here (-batch 1); a larger batch runs the  *)
(* same statements row after row. IngestPipeline has the batches.          *)
(***************************************************************************)
EXTENDS ScoreLine, FiniteSets, FiniteSetsExt, Functions

CONSTANTS
    Players,      \* source ids of one tour; a player row has the id it came with
    Draws,        \* tournaments rows
    SeasonOf,     \* the season of a draw: the year in its id
    Keys,         \* natural keys of matches
    DrawOf,       \* the draw of a key
    PairOf,       \* the two players of a key
    IdOf,         \* the order in which matches got their ids
    Sources,      \* match sources of the registry
    FallbackTier, \* the tier the registry gives a source
    UnitOf,       \* UnitOf[k]: the season of the file that carries the key
    ClutchBatch,  \* clutchBatch: matches derived per page
    ThirdMan,     \* a player a fused row holds besides the two of its key
    Inherited,    \* the score such a row was stored with
    LegacyName,   \* the name of the draw such a row is in
    Versions,     \* versions a mirror may serve of a file
    FeedRows,     \* FeedRows[file][version]: its rows, a sequence of [key, row]
    Null

Tiers == {"tour", "challenger", "futures", "itf"}
Files == Sources \X Range(UnitOf)

VARIABLES
    players,      \* players rows
    alias,        \* alias[id]: the player an id was merged into, or Null
    tournaments,  \* tournaments[d]: the row of a draw (tier, name, level), or Null
    matches,      \* matches[k]: the row, or Null
    appearances,  \* match_players of a key, by player
    ledger,       \* ingest_files: the version recorded of <<source, season>>, or Null
    prominence,   \* players.career_matches and best_tier
    clutch, serve, totals,  \* clutch_baselines, serve_baselines, player_totals
    derivedTo     \* the page cursor of deriveClutchColumns

tables == <<players, alias, tournaments, matches, appearances, ledger>>
derivedTables == <<prominence, clutch, serve, totals>>
matchVars == <<tables, derivedTables, derivedTo>>

-----------------------------------------------------------------------------
(* Rows of a match file, after parseRow, and what is stored of them.       *)
\* parseStats: a line that cannot describe a real match is not kept.
ParsedStats(line) == IF line = "impossible" THEN "none" ELSE line

IsTeamEvent(level) == level \in {"D", "T"}
\* MatchRow.Tier: what the level code says, the source's tier where it is empty.
TierOf(level, fallback) ==
    CASE level = ""           -> fallback
      [] level \in {"C", "125"} -> "challenger"
      [] level = "S"          -> "futures"
      [] level \in {"15", "25"} -> "itf"
      [] OTHER                -> "tour"

Derived(s, bestOf) ==
    [tiebreaks |-> Tiebreaks(s), decider |-> WentToDecider(s, bestOf),
     sets |-> SetsDecided(s), games |-> GamesPlayed(s)]

\* classifyScore: incomplete, and the columns the parser derives, or Null.
Classified(line, bestOf) ==
    LET s == Parse(line)
        unfinished == s.err \/ Incomplete(s)
    IN [incomplete |-> unfinished,
        derived |-> IF unfinished THEN Null ELSE Derived(s, bestOf)]

\* Which player an id is: the one it was merged into, before its own row.
Resolve(id) == IF alias[id] # Null THEN alias[id] ELSE id

Coalesce(new, old) == IF new = Null THEN old ELSE new
Blank == <<>>

\* Mutant: a score is filled in once and then stays.
FirstScore(new, old) == IF old = Blank THEN new ELSE old

StoredScore(new, old) == IF new = Blank THEN old ELSE new

\* upsertTournaments: name, level and tier are overwritten by each row.
UpsertedDraw(source, row) ==
    [tier |-> TierOf(row.level, FallbackTier[source]), name |-> row.name, level |-> row.level]

\* upsertMatches: a blank score or surface keeps what is stored; everything
\* else is overwritten, the columns derived from a blank score included.
UpsertedMatch(old, source, row) ==
    LET c == Classified(row.line, row.bestOf) IN
    [source     |-> source,
     winner     |-> Resolve(row.winner),
     line       |-> IF old = Null THEN row.line ELSE StoredScore(row.line, old.line),
     surface    |-> IF old = Null THEN row.surface ELSE Coalesce(row.surface, old.surface),
     bestOf     |-> row.bestOf,
     incomplete |-> c.incomplete,
     derived    |-> c.derived,
     team       |-> IsTeamEvent(row.level),
     detailed   |-> "none" \notin {ParsedStats(row.wstats), ParsedStats(row.lstats)}]

\* Mutant: a side keeps the result it was first stored with.
SidesUpsertedOnce(old, row) ==
    LET side(id, won, line) == [won |-> IF old[Resolve(id)] = Null THEN won ELSE old[Resolve(id)].won,
                                stats |-> ParsedStats(line)]
    IN [old EXCEPT ![Resolve(row.winner)] = side(row.winner, TRUE, row.wstats),
                   ![Resolve(row.loser)] = side(row.loser, FALSE, row.lstats)]

\* upsertMatchPlayers: both sides, every column overwritten.
UpsertedSides(old, row) ==
    [old EXCEPT ![Resolve(row.winner)] = [won |-> TRUE, stats |-> ParsedStats(row.wstats)],
                ![Resolve(row.loser)] = [won |-> FALSE, stats |-> ParsedStats(row.lstats)]]

\* Store.WriteBatch of one row, in one transaction. The key is the draw, the
\* number and the two players the ids resolve to, whoever of them won.
WriteRow(source, k, row) ==
    /\ PairOf[k] = {Resolve(row.winner), Resolve(row.loser)}
    /\ players' = players \cup PairOf[k]
    /\ tournaments' = [tournaments EXCEPT ![DrawOf[k]] = UpsertedDraw(source, row)]
    /\ matches' = [matches EXCEPT ![k] = UpsertedMatch(@, source, row)]
    /\ appearances' = [appearances EXCEPT ![k] = UpsertedSides(@, row)]
    /\ UNCHANGED <<alias, ledger, derivedTables, derivedTo>>

RecordMatchFile(file, version) ==
    /\ ledger' = [ledger EXCEPT ![file] = version]
    /\ UNCHANGED <<players, alias, tournaments, matches, appearances, derivedTables, derivedTo>>

-----------------------------------------------------------------------------
(* What the files carry, and what a row of a table can be.                 *)
FileRows == {e.row : e \in UNION {Range(feed) : feed \in UNION {Range(FeedRows[f]) : f \in Files}}}
Lines == {r.line : r \in FileRows} \cup {Inherited}
Formats == {r.bestOf : r \in FileRows} \cup {3}
Stats == {r.wstats : r \in FileRows} \cup {r.lstats : r \in FileRows} \cup {"none", "impossible"}

MatchRow ==
    [source : Sources, winner : Players, line : Lines,
     surface : {r.surface : r \in FileRows} \cup {Null}, bestOf : Formats,
     incomplete : BOOLEAN,
     derived : {Derived(Parse(l), n) : l \in Lines, n \in Formats} \cup {Null},
     team : BOOLEAN, detailed : BOOLEAN]
Side == [won : BOOLEAN, stats : Stats]

\* The files are sequences of rows of players there may be, a match has two
\* players, ids count from 1.
ASSUME MatchStoreAssumption ==
    /\ IsFiniteSet(Players) /\ IsFiniteSet(Keys) /\ ThirdMan \in Players
    /\ \A k \in Keys : \E p, q \in Players : p # q /\ PairOf[k] = {p, q}
    /\ DrawOf \in [Keys -> Draws] /\ IdOf \in [Keys -> Nat \ {0}]
    /\ ClutchBatch \in Nat \ {0}
    /\ \A f \in Files : /\ FeedRows[f] \in Seq(Seq([key : Keys, row : FileRows]))
                        /\ Min(Versions) \in DOMAIN FeedRows[f]
    /\ \A r \in FileRows : {r.winner, r.loser} \subseteq Players

\* Null is none of the values it stands for the lack of.
ASSUME NullAssumption ==
    /\ Null \notin Nat /\ Null \notin Players
    /\ Null \notin Sources \X {SeasonOf[d] : d \in Draws}
    /\ Null \notin MatchRow /\ Null \notin Side
    /\ Null \notin {Derived(Parse(l), n) : l \in Lines, n \in Formats}

\* What is read off a score are counts, of the winner and of the loser.
ASSUME ScoreAssumption ==
    \A l \in Lines, n \in Formats : \A column \in {"tiebreaks", "sets", "games"} :
        Derived(Parse(l), n)[column] \in Nat \X Nat

-----------------------------------------------------------------------------
(* The derived tables, as the SQL computes them from the rows.             *)
Held == {k \in Keys : matches[k] # Null}
SidesOf(k) == {p \in Players : appearances[k][p] # Null}
Appearances == {a \in Held \X Players : a[2] \in SidesOf(a[1])}
Tier(k) == tournaments[DrawOf[k]].tier
Won(k, p) == appearances[k][p].won
Served(k, p) == appearances[k][p].stats # "none"
Season(k) == SeasonOf[DrawOf[k]]
Decade(k) == (Season(k) \div 10) * 10

TierRank(t) == CASE t = "tour" -> 1 [] t = "challenger" -> 2 [] t = "futures" -> 3 [] OTHER -> 4
BestTier(ks) ==
    CHOOSE t \in {Tier(k) : k \in ks} : \A k \in ks : TierRank(t) <= TierRank(Tier(k))

\* RefreshProminence writes the players that have a match, and no others.
ProminenceOf(p) ==
    LET mine == {k \in Held : p \in SidesOf(k)} IN
    [matches |-> Cardinality(mine), tier |-> BestTier(mine)]
WithMatches == {p \in Players : \E k \in Held : p \in SidesOf(k)}

\* Mutant: the first figure is taken for both sides.
FirstOfPair(k, p, pair) == pair[1]

\* A figure of the side p of k: the winner's, or the loser's, of a derived pair.
SideOf(k, p, pair) == IF Won(k, p) THEN pair[1] ELSE pair[2]
Of(k, column) == IF matches[k].derived = Null THEN <<0, 0>> ELSE matches[k].derived[column]
Mine(k, p, column) == SideOf(k, p, Of(k, column))
Both(k, column) == Of(k, column)[1] + Of(k, column)[2]
ToDecider(k) == matches[k].derived # Null /\ matches[k].derived.decider

\* One line of clutch_baselines per tier and decade, per appearance.
ClutchLine(cell) ==
    LET rows == {a \in Appearances : /\ ~matches[a[1]].team
                                     /\ <<Tier(a[1]), Decade(a[1])>> = cell}
    IN [cell |-> cell, appearances |-> Cardinality(rows),
        tiebreaksWon |-> SumFunction([a \in rows |-> Mine(a[1], a[2], "tiebreaks")]),
        tiebreaksPlayed |-> SumFunction([a \in rows |-> Both(a[1], "tiebreaks")]),
        decidersWon |-> Cardinality({a \in rows : ToDecider(a[1]) /\ Won(a[1], a[2])}),
        deciders |-> Cardinality({a \in rows : ToDecider(a[1])})]
ClutchTable == {ClutchLine(<<Tier(k), Decade(k)>>) : k \in {h \in Held : ~matches[h].team /\ SidesOf(h) # {}}}

\* One line of serve_baselines per tier, surface and decade, where points were counted.
ServeRows == {a \in Appearances :
    ~matches[a[1]].team /\ matches[a[1]].surface # Null /\ Served(a[1], a[2])}
ServeCell(k) == <<Tier(k), matches[k].surface, Decade(k)>>
ServeTable ==
    {[cell |-> ServeCell(a[1]),
      appearances |-> Cardinality({b \in ServeRows : ServeCell(b[1]) = ServeCell(a[1])})] : a \in ServeRows}

\* One line of player_totals per player, season, tier and surface. Every
\* appearance is joined to every other side of its match.
TotalRows ==
    {r \in Held \X Players \X Players :
        /\ r[2] # r[3] /\ {r[2], r[3]} \subseteq SidesOf(r[1])
        /\ ~matches[r[1]].incomplete /\ ~matches[r[1]].team}
TotalCell(r) == <<r[2], Season(r[1]), Tier(r[1]), matches[r[1]].surface>>
TotalLine(cell) ==
    LET rows == {r \in TotalRows : TotalCell(r) = cell}
        mine(column) == SumFunction([r \in rows |-> Mine(r[1], r[2], column)])
        both(column) == SumFunction([r \in rows |-> Both(r[1], column)])
    IN [cell |-> cell, matches |-> Cardinality(rows),
        wins |-> Cardinality({r \in rows : Won(r[1], r[2])}),
        withStats |-> Cardinality({r \in rows : matches[r[1]].detailed}),
        withServe |-> Cardinality({r \in rows : Served(r[1], r[2])}),
        withReturn |-> Cardinality({r \in rows : Served(r[1], r[3])}),
        scored |-> Cardinality({r \in rows : matches[r[1]].derived # Null}),
        setsWon |-> mine("sets"), setsPlayed |-> both("sets"),
        gamesWon |-> mine("games"), gamesPlayed |-> both("games"),
        tiebreaksWon |-> mine("tiebreaks"), tiebreaksPlayed |-> both("tiebreaks"),
        decidersWon |-> Cardinality({r \in rows : ToDecider(r[1]) /\ Won(r[1], r[2])}),
        deciders |-> Cardinality({r \in rows : ToDecider(r[1])})]
TotalsTable == {TotalLine(TotalCell(r)) : r \in TotalRows}

-----------------------------------------------------------------------------
RefreshProminence ==
    /\ prominence' = [p \in Players |->
           IF p \in WithMatches THEN ProminenceOf(p) ELSE prominence[p]]
    /\ UNCHANGED <<tables, clutch, serve, totals, derivedTo>>

\* The rows a page of deriveClutchColumns asks for: the next ones by id that
\* are finished, have a score, and are not derived yet unless forced.
Pending(force) ==
    {k \in Held : /\ force \/ matches[k].derived = Null
                  /\ ~matches[k].incomplete
                  /\ matches[k].line # Blank
                  /\ IdOf[k] > derivedTo}
Page(force) ==
    {k \in Pending(force) :
        Cardinality({j \in Pending(force) : IdOf[j] < IdOf[k]}) < ClutchBatch}
LastPage(force) == Cardinality(Page(force)) < ClutchBatch

DerivePage(force) ==
    /\ matches' = [k \in Keys |->
           IF k \in Page(force) /\ Classified(matches[k].line, matches[k].bestOf).derived # Null
           THEN [matches[k] EXCEPT !.derived = Classified(matches[k].line, matches[k].bestOf).derived]
           ELSE matches[k]]
    /\ derivedTo' = IF LastPage(force) THEN 0 ELSE Max({IdOf[k] : k \in Page(force)})
    /\ UNCHANGED <<players, alias, tournaments, appearances, ledger, derivedTables>>

RebuildClutchBaselines ==
    /\ clutch' = ClutchTable
    /\ UNCHANGED <<tables, prominence, serve, totals, derivedTo>>

RefreshServeBaselines ==
    /\ serve' = ServeTable
    /\ UNCHANGED <<tables, prominence, clutch, totals, derivedTo>>

\* Mutant: the totals of before are not deleted.
AddPlayerTotals ==
    /\ totals' = totals \cup TotalsTable
    /\ UNCHANGED <<tables, prominence, clutch, serve, derivedTo>>

RefreshPlayerTotals ==
    /\ totals' = TotalsTable
    /\ UNCHANGED <<tables, prominence, clutch, serve, derivedTo>>

-----------------------------------------------------------------------------
(* Prune, in one transaction: impossible stat lines are cleared, matches    *)
(* holding other than two players are deleted, and the ledger forgets the   *)
(* source and season they were last written from.                           *)
Collapsed == {k \in Held : Cardinality(SidesOf(k)) # 2}
\* Mutant: asked once the rows are deleted.
SeasonsOfTheDeleted == {<<matches[k].source, Season(k)>> : k \in {j \in Collapsed : j \notin Held}}

CollapsedSeasons == {<<matches[k].source, Season(k)>> : k \in Collapsed}

NoSides == [p \in Players |-> Null]
WithoutStats(side) ==
    IF side # Null /\ side.stats = "impossible" THEN [side EXCEPT !.stats = "none"] ELSE side
ClearedSides(k) == [p \in Players |-> WithoutStats(appearances[k][p])]

Prune ==
    /\ appearances' = [k \in Keys |-> IF k \in Collapsed THEN NoSides ELSE ClearedSides(k)]
    /\ matches' = [k \in Keys |->
           IF k \in Collapsed THEN Null
           ELSE IF ClearedSides(k) # appearances[k] THEN [matches[k] EXCEPT !.detailed = FALSE]
           ELSE matches[k]]
    /\ ledger' = [f \in Files |-> IF f \in CollapsedSeasons THEN Null ELSE ledger[f]]
    /\ UNCHANGED <<players, alias, tournaments, derivedTables, derivedTo>>

-----------------------------------------------------------------------------
\* A row fused by the key that migration 00011 replaced: three players, the stat lines of before Stats.consistent, no
\* derived columns, its files recorded.
FusedRow(s, k) ==
    [source |-> s, winner |-> CHOOSE p \in PairOf[k] : TRUE, line |-> Inherited,
     surface |-> Null, bestOf |-> 3, incomplete |-> Classified(Inherited, 3).incomplete,
     derived |-> Null, team |-> FALSE, detailed |-> TRUE]
FusedSides(k) ==
    [p \in Players |-> IF p \in PairOf[k] \cup {ThirdMan}
                       THEN [won |-> p \in {ThirdMan, FusedRow(Null, k).winner},
                             stats |-> "impossible"]
                       ELSE Null]

\* A database that holds the fused rows of legacy keys, or none.
MatchInit(legacy) ==
    /\ players = UNION {PairOf[k] \cup {ThirdMan} : k \in legacy}
    /\ alias = [p \in Players |-> Null]
    /\ tournaments = [d \in Draws |-> IF \E k \in legacy : DrawOf[k] = d
                        THEN [tier |-> "tour", name |-> LegacyName, level |-> "G"] ELSE Null]
    /\ \E s \in IF legacy = {} THEN {Null} ELSE Sources :
          /\ matches = [k \in Keys |-> IF k \in legacy THEN FusedRow(s, k) ELSE Null]
          /\ ledger = [f \in Files |-> IF \E k \in legacy : f[2] = UnitOf[k]
                                       THEN Min(Versions) ELSE Null]
    /\ appearances = [k \in Keys |-> IF k \in legacy THEN FusedSides(k) ELSE NoSides]
    /\ prominence = [p \in Players |-> [matches |-> 0, tier |-> Null]]
    /\ clutch = {} /\ serve = {} /\ totals = {}
    /\ derivedTo = 0
=============================================================================
