------------------------------ MODULE Charting ------------------------------
(***************************************************************************)
(* The Match Charting Project's figures (internal/charting), attached to   *)
(* matches the database already holds. One tour's pair of files: the       *)
(* charted matches, and the figures of their players.                      *)
(***************************************************************************)
EXTENDS MatchStore

CONSTANTS
    Names,        \* names as the project writes them
    SamePerson,   \* the <<name, player>> samePerson accepts
    ChartRows,    \* ChartRows[v]: the clean rows, a sequence of [id, names, round, day]
    FigureNames,  \* FigureNames[v]: charted id :> the names version v has figures of
    RoundOf,      \* the round of a key
    PlayedOn,     \* played_on of a key: the day its event started
    YearOf        \* the year of a day

ChartFiles == {"matches", "stats"}
before == 7
after == 21

Charts == UNION {Range(ChartRows[v]) : v \in Versions}
Figures == UNION {[ps -> Versions] : ps \in SUBSET Players}
Attachments == [id : {m.id : m \in Charts}, figures : Figures]

\* ReadMatches: a row whose id was seen is rejected, and so is one without a
\* date. Versions count up, days are counted.
ASSUME ChartingAssumption ==
    /\ Versions \subseteq Nat /\ Min(Versions) \in Versions
    /\ \A v \in Versions :
          /\ ChartRows[v] \in Seq(Charts)
          /\ \A i, j \in DOMAIN ChartRows[v] :
                ChartRows[v][i].id = ChartRows[v][j].id => i = j
    /\ \A m \in Charts : m.day \in Nat /\ YearOf[m.day] \in Nat
    /\ PlayedOn \in [Keys -> Nat]
    /\ Null \notin Attachments \cup {"no match", "more than one"}

VARIABLES
    chartServed,     \* the version the mirror has of each file, or Null: not there
    chartLedger,     \* ingest_files of the two
    charted,         \* charted_matches: charted[k] = [id, figures], or Null
    chartUnresolved, \* unresolved_references of the charting source: [id, reason]
    ct               \* the loader

chartTables == <<chartLedger, charted, chartUnresolved>>
chartVars == <<chartServed, chartTables, ct>>

\* at: idle, matches, stats (the file to open), reopen, years, detach,
\* explain, record, failed or done. body: the versions read, tag: the
\* validators they came with. lost: the [id, reason] that did not resolve.
ChartIdle == [at |-> "idle", known |-> [f \in ChartFiles |-> Null],
              body |-> [f \in ChartFiles |-> Null], tag |-> [f \in ChartFiles |-> Null],
              years |-> {}, lost |-> {}, reason |-> Null]

ChartInit ==
    /\ chartServed = [f \in ChartFiles |-> Min(Versions)]
    /\ chartLedger = [f \in ChartFiles |-> Null]
    /\ charted = [k \in Keys |-> Null]
    /\ chartUnresolved = {}
    /\ ct = ChartIdle

-----------------------------------------------------------------------------
(* Resolve: by the round first, then by the two players alone.             *)
Is(name, p) == <<name, p>> \in SamePerson
Winner(k) == matches[k].winner
Loser(k) == CHOOSE p \in PairOf[k] : p # Winner(k)

InWindow(day, start) == day >= start - before /\ day <= start + after
\* A day before the start is further than any day after it.
Distance(day, start) == IF day < start THEN start - day + after ELSE day - start

SamePair(m, k) ==
    \/ Is(m.names[1], Winner(k)) /\ Is(m.names[2], Loser(k))
    \/ Is(m.names[1], Loser(k)) /\ Is(m.names[2], Winner(k))
Candidates(m, rounds) ==
    {k \in Held : RoundOf[k] \in rounds /\ InWindow(m.day, PlayedOn[k]) /\ SamePair(m, k)}
Found(m) ==
    LET here == Candidates(m, {m.round}) IN
    IF here = {} THEN Candidates(m, Range(RoundOf)) ELSE here
Nearest(m) ==
    {k \in Found(m) : \A j \in Found(m) :
        Distance(m.day, PlayedOn[k]) <= Distance(m.day, PlayedOn[j])}
Reason(m) ==
    CASE Found(m) = {}                 -> "no match"
      [] Cardinality(Nearest(m)) > 1   -> "more than one"
      [] OTHER                         -> Null
RowOf(m) == CHOOSE k \in Nearest(m) : TRUE

\* The stored player a charted name is: the winner if the first name fits him.
PlayerOf(m, name) ==
    LET k == RowOf(m)
        straight == Is(m.names[1], Winner(k))
    IN IF (name = m.names[1]) = straight THEN Winner(k) ELSE Loser(k)

-----------------------------------------------------------------------------
\* Run: the ledger is read once, unless the run is forced.
ChartStart(force) ==
    /\ ct.at = "idle"
    /\ ct' = [ChartIdle EXCEPT !.at = "matches", !.known = IF force THEN @ ELSE chartLedger]
    /\ UNCHANGED <<chartServed, chartTables>>

\* open: an unchanged file has no body and no validator; a missing one ends
\* the load without an error.
OpenChart ==
    /\ ct.at \in ChartFiles
    /\ LET f == ct.at
           next == IF f = "matches" THEN "stats" ELSE "reopen"
           version == chartServed[f]
       IN ct' = CASE version = Null        -> [ct EXCEPT !.at = "done"]
                  [] version = ct.known[f] -> [ct EXCEPT !.at = next]
                  [] OTHER -> [ct EXCEPT !.at = next, !.body[f] = version, !.tag[f] = version]
    /\ UNCHANGED <<chartServed, chartTables>>

SkipCharting ==
    /\ ct.at = "reopen" /\ \A f \in ChartFiles : ct.body[f] = Null
    /\ ct' = [ct EXCEPT !.at = "done"]
    /\ UNCHANGED <<chartServed, chartTables>>

\* One changed: the other is fetched unconditionally, without a validator.
\* Gone by now, it is an error.
Reopen ==
    /\ ct.at = "reopen" /\ \E f \in ChartFiles : ct.body[f] # Null
    /\ LET body == [f \in ChartFiles |-> IF ct.body[f] = Null THEN chartServed[f] ELSE ct.body[f]]
       IN ct' = IF \E f \in ChartFiles : body[f] = Null THEN [ct EXCEPT !.at = "failed"]
                ELSE [ct EXCEPT !.at = "years", !.body = body,
                                !.years = {YearOf[m.day] : m \in Range(ChartRows[body["matches"]])}]
    /\ UNCHANGED <<chartServed, chartTables>>

\* Rows are told by their place in the file, which is the order of a batch.
ChartedIn(year) ==
    {i \in DOMAIN ChartRows[ct.body["matches"]] :
        YearOf[ChartRows[ct.body["matches"]][i].day] = year}
FiguresOf(m) ==
    LET version == ct.body["stats"]
        given == IF m.id \in DOMAIN FigureNames[version] THEN FigureNames[version][m.id] ELSE {}
    IN [p \in {PlayerOf(m, n) : n \in given \cap Range(m.names)} |-> version]

\* Store.Write of a batch: whatever either key had is replaced, and a later
\* row replaces an earlier one.
Attached(rows, batch) ==
    [k \in Keys |->
        LET here == {i \in batch : RowOf(rows[i]) = k} IN
        IF here # {} THEN [id |-> rows[Max(here)].id, figures |-> FiguresOf(rows[Max(here)])]
        ELSE IF charted[k] # Null /\ charted[k].id \in {rows[i].id : i \in batch} THEN Null
        ELSE charted[k]]
\* A year, in one transaction.
WriteYear ==
    /\ ct.at = "years" /\ ct.years # {}
    /\ LET year == Min(ct.years)
           rows == ChartRows[ct.body["matches"]]
           batch == {i \in ChartedIn(year) : Reason(rows[i]) = Null}
           lost == {rows[i] : i \in ChartedIn(year) \ batch}
       IN /\ charted' = Attached(rows, batch)
          /\ chartUnresolved' = {x \in chartUnresolved : x.id \notin {rows[i].id : i \in batch}}
          /\ ct' = [ct EXCEPT !.years = @ \ {year},
                              !.lost = @ \cup {[id |-> m.id, reason |-> Reason(m)] : m \in lost}]
    /\ UNCHANGED <<chartServed, chartLedger>>

\* RecordUnresolved, reason by reason: detached from what an earlier run
\* found, then, in a statement of its own, listed. The key of the table has the
\* reason in it: an id listed for another one stays listed for it too.
Because(reason) == {x \in ct.lost : x.reason = reason}
\* Mutant: what an earlier run attached stays attached.
DetachNothing ==
    /\ ct.at = "years" /\ ct.years = {}
    /\ \E x \in ct.lost : ct' = [ct EXCEPT !.at = "explain", !.reason = x.reason]
    /\ UNCHANGED <<chartServed, chartTables>>

Detach ==
    /\ ct.at = "years" /\ ct.years = {}
    /\ \E x \in ct.lost :
          /\ charted' = [k \in Keys |->
                IF charted[k] # Null /\ charted[k].id \in {y.id : y \in Because(x.reason)}
                THEN Null ELSE charted[k]]
          /\ ct' = [ct EXCEPT !.at = "explain", !.reason = x.reason]
    /\ UNCHANGED <<chartServed, chartLedger, chartUnresolved>>
Explain ==
    /\ ct.at = "explain"
    /\ chartUnresolved' = chartUnresolved \cup Because(ct.reason)
    /\ ct' = [ct EXCEPT !.at = "years", !.reason = Null, !.lost = @ \ Because(ct.reason)]
    /\ UNCHANGED <<chartServed, chartLedger, charted>>

\* Mutant: recorded while years are left to write.
ReadEnough == ct.at = "years"

AllWritten == ct.at = "years" /\ ct.years = {} /\ ct.lost = {}

\* record, of one file and then the other; without a validator there is
\* nothing to record, and a record that fails is a warning.
RecordChart ==
    /\ AllWritten \/ ct.at = "record"
    /\ LET f == IF ct.at = "years" THEN "matches" ELSE "stats" IN
       /\ chartLedger' \in {chartLedger,
              IF ct.tag[f] = Null THEN chartLedger ELSE [chartLedger EXCEPT ![f] = ct.tag[f]]}
       /\ ct' = [ct EXCEPT !.at = IF f = "matches" THEN "record" ELSE "done"]
    /\ UNCHANGED <<chartServed, charted, chartUnresolved>>

ChartStep ==
    /\ OpenChart \/ SkipCharting \/ Reopen \/ WriteYear \/ Detach \/ Explain \/ RecordChart
    /\ UNCHANGED matchVars

\* A match that is deleted takes its charted match with it.
Cascade == charted' = [k \in Keys |-> IF matches'[k] = Null THEN Null ELSE charted[k]]
=============================================================================
