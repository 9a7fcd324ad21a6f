--------------------------- MODULE ReferenceLoad ---------------------------
(***************************************************************************)
(* The reference stage (internal/ingest/reference*.go, store_reference.go): *)
(* the player table, then the ranking files of one tour, row by row, with   *)
(* the ledger that lets an unchanged file be skipped.                       *)
(***************************************************************************)
EXTENDS MatchStore

CONSTANTS
    BioRows,      \* BioRows[v]: the ids of version v of the player table
    RankPaths,    \* the ranking files, in the order of RelPaths
    RankRows,     \* RankRows[f][v]: the entries of a version, a sequence of [id, date, rank]
    RankBatch     \* rows per WriteRankings

PlayerTable == "players"
RefFiles == Range(RankPaths) \cup {PlayerTable}
Dates == UNION {{e.date : e \in Range(RankRows[f][v])} : f \in Range(RankPaths), v \in Versions}

\* Files are sequences of entries; versions count up.
ASSUME ReferenceAssumption ==
    /\ RankPaths \in Seq(Range(RankPaths)) /\ PlayerTable \notin Range(RankPaths)
    /\ Versions \subseteq Nat /\ Min(Versions) \in Versions
    /\ \A v \in Versions : BioRows[v] \subseteq Players
    /\ \A f \in Range(RankPaths), v \in Versions :
          RankRows[f][v] \in Seq([id : Players, date : Dates, rank : Nat])
    /\ RankBatch \in Nat \ {0}

VARIABLES
    served,       \* served[f]: the version the mirror has, or Null: no such file
    published,    \* how often a mirror changed
    refLedger,    \* ingest_files of the reference sources: version or Null
    known,        \* ReferenceLoader.known, read when the stage starts
    rankings,     \* rankings[p][date]: a rank, or Null
    unresolved,   \* unresolved_references of kind rankings
    ref           \* the loader: where it is, what it holds

refVars == <<served, published, refLedger, known, rankings, unresolved, ref>>
refTables == <<refLedger, rankings, unresolved>>

\* at: idle, players, ids, file (between files), rows, failed or done;
\* file and row: what is read; body: its version; ids: PlayerIDsBySource.
RefIdle == [at |-> "idle", file |-> 0, row |-> 0, body |-> Null, ids |-> {},
         batch |-> <<>>, skipped |-> 0, missing |-> {}, found |-> 0]

RefInit ==
    /\ \E there \in {{}, {PlayerTable}, RefFiles} :
          served = [f \in RefFiles |-> IF f \in there THEN Min(Versions) ELSE Null]
    /\ published = 0
    /\ refLedger = [f \in RefFiles |-> Null]
    /\ known = [f \in RefFiles |-> Null]
    /\ rankings = [p \in Players |-> [d \in Dates |-> Null]]
    /\ unresolved = {}
    /\ ref = RefIdle

NextVersion(v) == IF v = Null THEN Min(Versions) ELSE v + 1
RefPublish ==
    \E f \in RefFiles :
        /\ NextVersion(served[f]) \in Versions
        /\ served' = [served EXCEPT ![f] = NextVersion(@)]
        /\ published' = published + 1
        /\ UNCHANGED <<refTables, known, ref>>

-----------------------------------------------------------------------------
\* Run: the ledger is read once, unless the run is forced.
RefStart(force) ==
    /\ ref.at = "idle"
    /\ known' = IF force THEN [f \in RefFiles |-> Null] ELSE refLedger
    /\ ref' = [RefIdle EXCEPT !.at = "players"]
    /\ UNCHANGED <<served, published, refTables>>

Unchanged(f) == served[f] # Null /\ known[f] = served[f]
Absent(f) == served[f] = Null
Changed(f) == ~Unchanged(f) /\ ~Absent(f)
\* Mutant: only a file that is read is found.
CountedIfRead(f) == ref.found

\* Skipping an unchanged file counts as finding it, a missing one does not.
Counted(f) == IF Absent(f) THEN ref.found ELSE ref.found + 1

\* record: a record that fails is a warning, and the file is read again.
Record(f, version) == refLedger' \in {refLedger, [refLedger EXCEPT ![f] = version]}

\* loadPlayers of an unchanged or missing table.
SkipPlayers ==
    /\ ref.at = "players"
    /\ Unchanged(PlayerTable) \/ Absent(PlayerTable)
    /\ ref' = [ref EXCEPT !.at = "ids", !.found = Counted(PlayerTable)]
    /\ UNCHANGED <<served, published, known, refTables, players>>

\* loadPlayers: WritePlayers upserts each row's player, alias first, and the
\* table is recorded with the validator its body came with.
LoadPlayers ==
    /\ ref.at = "players" /\ Changed(PlayerTable)
    /\ players' = players \cup {Resolve(id) : id \in BioRows[served[PlayerTable]]}
    /\ Record(PlayerTable, served[PlayerTable])
    /\ ref' = [ref EXCEPT !.at = "ids", !.found = @ + 1]
    /\ UNCHANGED <<served, published, known, rankings, unresolved>>

\* The stage dies between two batches of the player table.
LoadSomePlayers ==
    /\ ref.at = "players" /\ Changed(PlayerTable)
    /\ \E some \in SUBSET BioRows[served[PlayerTable]] :
          players' = players \cup {Resolve(id) : id \in some}
    /\ ref' = [ref EXCEPT !.at = "failed"]
    /\ UNCHANGED <<served, published, known, refTables>>

\* loadRankings: PlayerIDsBySource asks players, not player_aliases.
ReadIds ==
    /\ ref.at = "ids"
    /\ ref' = IF players = {} THEN [ref EXCEPT !.at = "failed"]
              ELSE [ref EXCEPT !.at = "file", !.ids = players, !.file = 1]
    /\ UNCHANGED <<served, published, known, refTables, players>>

Path == RankPaths[ref.file]
Entries == RankRows[Path][ref.body]
AtFile == ref.at = "file" /\ ref.file <= Len(RankPaths)

SkipFile ==
    /\ AtFile /\ ~Changed(Path)
    /\ ref' = [ref EXCEPT !.file = @ + 1, !.found = Counted(Path)]
    /\ UNCHANGED <<served, published, known, refTables, players>>

OpenFile ==
    /\ AtFile /\ Changed(Path)
    /\ ref' = [ref EXCEPT !.at = "rows", !.row = 1, !.body = served[Path], !.skipped = 0]
    /\ UNCHANGED <<served, published, known, refTables, players>>

\* RankingReader.Next and the lookup: a row joins the batch or is counted.
ReadRow ==
    /\ ref.at = "rows" /\ ref.row <= Len(Entries) /\ Len(ref.batch) < RankBatch
    /\ LET row == Entries[ref.row] IN
       ref' = IF row.id \in ref.ids
              THEN [ref EXCEPT !.row = @ + 1, !.batch = Append(@, row)]
              ELSE [ref EXCEPT !.row = @ + 1, !.skipped = @ + 1, !.missing = @ \cup {row.id}]
    /\ UNCHANGED <<served, published, known, refTables, players>>

\* WriteRankings: one row per player and date, the best rank of the batch.
BestInBatch(p, d) ==
    LET ranks == {ref.batch[i].rank : i \in {j \in DOMAIN ref.batch :
                     ref.batch[j].id = p /\ ref.batch[j].date = d}}
    IN IF ranks = {} THEN rankings[p][d] ELSE Min(ranks)

Flush ==
    /\ ref.at = "rows" /\ ref.batch # <<>>
    /\ Len(ref.batch) = RankBatch \/ ref.row > Len(Entries)
    /\ rankings' = [p \in Players |-> [d \in Dates |-> BestInBatch(p, d)]]
    /\ ref' = [ref EXCEPT !.batch = <<>>]
    /\ UNCHANGED <<served, published, known, refLedger, unresolved, players>>

\* Mutant: a file is done with once it is read.
NobodyWaited == FALSE

\* A row of the file waits for its player.
Waited == ref.skipped > 0

\* The end of a file: recorded, unless a row of it waits.
EndFile ==
    /\ ref.at = "rows" /\ ref.row > Len(Entries) /\ ref.batch = <<>>
    /\ IF Waited THEN UNCHANGED refLedger ELSE Record(Path, ref.body)
    /\ ref' = [ref EXCEPT !.at = "file", !.file = @ + 1, !.found = @ + 1, !.body = Null,
                          !.row = 0]
    /\ UNCHANGED <<served, published, known, rankings, unresolved, players>>

\* The last file: what could not be resolved is kept for the report.
EndRankings ==
    /\ ref.at = "file" /\ ref.file > Len(RankPaths)
    /\ unresolved' = unresolved \cup ref.missing
    /\ ref' = [ref EXCEPT !.at = IF ref.found = 0 THEN "failed" ELSE "done"]
    /\ UNCHANGED <<served, published, known, refLedger, rankings, players>>

RefStep ==
    /\ \/ SkipPlayers \/ LoadPlayers \/ ReadIds \/ SkipFile \/ OpenFile
       \/ ReadRow \/ Flush \/ EndFile \/ EndRankings
    /\ UNCHANGED <<alias, tournaments, matches, appearances, ledger, derivedTables, derivedTo>>

-----------------------------------------------------------------------------
\* Store.Merge on these tables: the rankings of the duplicate move, those of
\* the canonical player stand, and its id becomes an alias.
MergeRankings(dup, canonical) ==
    /\ rankings' = [p \in Players |-> [d \in Dates |->
           CASE p = canonical -> Coalesce(rankings[p][d], rankings[dup][d])
             [] p = dup       -> Null
             [] OTHER         -> rankings[p][d]]]
    /\ alias' = [id \in Players |->
           IF id = dup \/ alias[id] = dup THEN canonical ELSE alias[id]]
    /\ players' = players \ {dup}
    /\ UNCHANGED <<served, published, refLedger, known, unresolved, ref>>
=============================================================================
