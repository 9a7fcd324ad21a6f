----------------------------- MODULE LoaderProofs -----------------------------
(***************************************************************************)
(* The stages beside the matches.  Of rankings: that a file is recorded    *)
(* only once every row of it is held by the player its id is, and that     *)
(* merging players loses none of them.  Of charted matches: what the stage *)
(* keeps true of them, whatever files it reads together, however often,    *)
(* and wherever it is cut short.  Of events: which rows are grouped, that  *)
(* slugs stay, and that the stage run again changes nothing.               *)
(***************************************************************************)
EXTENDS LoadJobProofs

RankingRow == [id : Players, date : Dates, rank : Nat]
Readers ==
    [at : {"idle", "players", "ids", "file", "rows", "failed", "done"}, file : Nat, row : Nat,
     body : Versions \cup {Null}, ids : SUBSET Players, batch : Seq(RankingRow), skipped : Nat,
     missing : SUBSET Players, found : Nat]

RefType ==
    /\ served \in [RefFiles -> Versions \cup {Null}]
    /\ refLedger \in [RefFiles -> Versions \cup {Null}]
    /\ rankings \in [Players -> [Dates -> Nat \cup {Null}]]
    /\ ref \in Readers
    /\ players \subseteq Players
    /\ alias \in [Players -> Players \cup {Null}]

\* An id that was merged away is no player's, and leads to one in a single step.
AliasInv ==
    /\ \A p \in players : alias[p] = Null
    /\ \A id \in Players : alias[id] # Null => alias[id] \in players

HoldsRanking(row) == rankings[Resolve(row.id)][row.date] # Null
InBatch(row) == \E j \in 1 .. Len(ref.batch) : ref.batch[j] = row

\* The reader lives within its stage, and the ids it looks rows up among are their
\* own players: nobody is merged while it runs.
StageInv ==
    ref.at # "idle" => /\ Doing("reference") /\ job.open
                       /\ \A id \in ref.ids : alias[id] = Null

\* Of a file nobody is missed in, each row passed is held or on its way.
ReaderInv ==
    /\ ref.at = "file" => ref.file >= 1
    /\ ref.at = "rows" =>
        /\ ref.file \in 1 .. Len(RankPaths) /\ ref.body \in Versions
        /\ ref.row \in 1 .. Len(Entries) + 1
        /\ ref.skipped = 0 => \A i \in 1 .. ref.row - 1 :
              Entries[i].id \in ref.ids /\ (HoldsRanking(Entries[i]) \/ InBatch(Entries[i]))

RecordedInv ==
    \A f \in Range(RankPaths), v \in Versions : refLedger[f] = v =>
        \A i \in 1 .. Len(RankRows[f][v]) : HoldsRanking(RankRows[f][v][i])

RefInv == RefType /\ AliasInv /\ StageInv /\ ReaderInv /\ RecordedInv
-----------------------------------------------------------------------------
(* Facts about the files and the players.                                  *)

\* The entries of a version of a ranking file, and the ids of the player table.
LEMMA EntryFacts ==
    ASSUME NEW v \in Versions
    PROVE  /\ BioRows[v] \subseteq Players
           /\ \A f \in Range(RankPaths) :
                 /\ RankRows[f][v] \in Seq(RankingRow) /\ Len(RankRows[f][v]) \in Nat
                 /\ \A i \in 1 .. Len(RankRows[f][v]) : RankRows[f][v][i] \in RankingRow
<1>1. BioRows[v] \subseteq Players
  BY ReferenceAssumption
<1>2. ASSUME NEW f \in Range(RankPaths)
      PROVE  RankRows[f][v] \in Seq(RankingRow)
  BY ReferenceAssumption DEF RankingRow
<1>3. ASSUME NEW f \in Range(RankPaths), NEW i \in 1 .. Len(RankRows[f][v])
      PROVE  RankRows[f][v][i] \in RankingRow
  BY <1>2, ElementOfSeq
<1> QED BY <1>1, <1>2, <1>3

\* RelPaths: the files are those of the list, and the player table is not one.
LEMMA PathFacts ==
    /\ \A n \in 1 .. Len(RankPaths) : RankPaths[n] \in Range(RankPaths)
    /\ Len(RankPaths) \in Nat
    /\ Range(RankPaths) \subseteq RefFiles /\ PlayerTable \in RefFiles
    /\ PlayerTable \notin Range(RankPaths)
<1>1. RankPaths \in Seq(Range(RankPaths))
  BY ReferenceAssumption
<1> QED BY <1>1, ReferenceAssumption DEF RefFiles, Range

\* player_aliases: an id is its own player, or that of one merge.
LEMMA ResolvedIds ==
    ASSUME RefType, AliasInv, NEW id \in Players
    PROVE  /\ Resolve(id) \in Players /\ alias[Resolve(id)] = Null
           /\ alias[id] = Null => Resolve(id) = id
BY DEF RefType, AliasInv, Resolve

\* Min of ranks is one.
LEMMA LeastRank ==
    ASSUME NEW S, S \subseteq Nat, S # {}
    PROVE  Min(S) \in Nat /\ Min(S) # Null
<1>1. \E m \in S : \A y \in S : m <= y
  BY MinOfNumbers
<1>2. Min(S) \in S
  BY <1>1 DEF Min
<1> QED BY <1>2, NullAssumption

-----------------------------------------------------------------------------
(* What moves the players, the rankings and their ledger.                  *)

\* Between two steps of a reference stage only its reader may be lost, or a mirror change.
QuietRankings ==
    /\ UNCHANGED <<players, alias, refLedger, rankings>>
    /\ \/ UNCHANGED <<served, ref>>
       \/ served' = served /\ ref' = RefIdle
       \/ RefPublish

\* Rows of matches, of the player table and of the rankings are written by their own
\* stages, and players are merged by reconcile.
LEMMA RankingsMove ==
    ASSUME [Next]_vars
    PROVE  \/ QuietRankings
           \/ WriteMatchRow \/ ReferenceStage \/ PlayersCutShort \/ Merge
           \/ StartRun /\ Step = "reference" /\ RefStart(job.force) /\ UNCHANGED <<players, alias>>
<1> USE DEF QuietRankings, matchVars, tables, refVars, refTables
<1>1. CASE Publish
  BY <1>1 DEF Publish, RefPublish
<1>2. CASE Weekly \/ ByHand \/ UNCHANGED vars
  BY <1>2 DEF Weekly, ByHand, Launch, vars
<1>3. CASE StageFails \/ Interrupted
  BY <1>3 DEF StageFails, Interrupted, Abandon
<1>4. CASE SkipStage \/ FinishRun
  BY <1>4 DEF SkipStage, FinishRun
<1>5. CASE StartRun
  <2>1. UNCHANGED <<players, alias>>
    BY <1>5 DEF StartRun
  <2> QED BY <1>5, <2>1 DEF StartRun
<1>6. CASE SkipMatchFile \/ OpenMatchFile \/ EndMatchFile
  BY <1>6 DEF SkipMatchFile, OpenMatchFile, EndMatchFile, RecordMatchFile, othersOfMatches
<1>7. CASE Reconciled \/ EventsStage \/ ChartingStage
  BY <1>7 DEF Reconciled, EventsStage, DeriveEvents, ChartingStage, ChartStep
<1>8. CASE PruneStage \/ RefreshStage
  BY <1>8 DEF PruneStage, Prune, RefreshStage, RefreshProminence, DerivePage,
              RebuildClutchBaselines, RefreshServeBaselines, RefreshPlayerTotals
<1> QED BY <1>1, <1>2, <1>3, <1>4, <1>5, <1>6, <1>7, <1>8 DEF Next, Work

\* Whoever is written to players is written as the player an id is.
LEMMA PlayersJoin ==
    ASSUME RefType, JobInv,
           WriteMatchRow \/ PlayersCutShort \/ ReferenceStage
    PROVE  /\ alias' = alias
           /\ \E ids \in SUBSET Players : players' = players \cup {Resolve(id) : id \in ids}
<1>1. CASE WriteMatchRow
  <2>1. PICK k \in Keys, row \in FileRows :
              /\ players' = players \cup {Resolve(row.winner), Resolve(row.loser)}
              /\ alias' = alias
    BY <1>1, WrittenRow
  <2>2. {row.winner, row.loser} \in SUBSET Players
        /\ players' = players \cup {Resolve(id) : id \in {row.winner, row.loser}}
    BY <2>1, MatchStoreAssumption
  <2> QED BY <2>1, <2>2
<1>2. ASSUME Changed(PlayerTable)
      PROVE  BioRows[served[PlayerTable]] \in SUBSET Players
  <2>1. served[PlayerTable] \in Versions
    BY <1>2, PathFacts DEF RefType, Changed, Absent
  <2> QED BY <2>1, EntryFacts
<1>3. CASE PlayersCutShort
  <2>1. alias' = alias /\ LoadSomePlayers
    BY <1>3 DEF PlayersCutShort
  <2>2. PICK some \in SUBSET BioRows[served[PlayerTable]] :
              players' = players \cup {Resolve(id) : id \in some}
    BY <2>1 DEF LoadSomePlayers
  <2>3. some \in SUBSET Players
    BY <1>2, <2>1 DEF LoadSomePlayers
  <2> QED BY <2>1, <2>2, <2>3
<1>4. CASE ReferenceStage
  <2>1. alias' = alias /\ RefStep
    BY <1>4 DEF ReferenceStage, RefStep
  <2>2. CASE LoadPlayers
    <3>1. players' = players \cup {Resolve(id) : id \in BioRows[served[PlayerTable]]}
          /\ Changed(PlayerTable)
      BY <2>2 DEF LoadPlayers
    <3> QED BY <1>2, <2>1, <3>1
  <2>3. CASE ~LoadPlayers
    <3>1. players' = players
      BY <2>1, <2>3 DEF RefStep, SkipPlayers, ReadIds, SkipFile, OpenFile, ReadRow, Flush, EndFile,
                        EndRankings
    <3>2. players' = players \cup {Resolve(id) : id \in {}} /\ {} \in SUBSET Players
      BY <3>1
    <3> QED BY <2>1, <3>2
  <2> QED BY <2>2, <2>3
<1> QED BY <1>1, <1>3, <1>4

-----------------------------------------------------------------------------
(* The steps of the reader.                                                *)

\* Record: the ledger of a file names a version of it.
LEMMA RecordedVersion ==
    ASSUME RefType, NEW f \in RefFiles, NEW v \in Versions, Record(f, v)
    PROVE  /\ refLedger' \in [RefFiles -> Versions \cup {Null}]
           /\ \A g \in RefFiles : g # f => refLedger'[g] = refLedger[g]
           /\ refLedger'[f] # refLedger[f] => refLedger'[f] = v
BY DEF RefType, Record

\* Where the reader is in a file, its entries are rankings.
LEMMA OpenEntries ==
    ASSUME RefType, ReaderInv, ref.at = "rows"
    PROVE  /\ Path \in Range(RankPaths) /\ Path \in RefFiles /\ ref.body \in Versions
           /\ Len(Entries) \in Nat
           /\ \A i \in 1 .. Len(Entries) : Entries[i] \in RankingRow
BY PathFacts, EntryFacts DEF ReaderInv, Path, Entries

\* What the reader's steps change of it.
LEMMA ReaderChanges ==
    ASSUME NEW r \in Readers
    PROVE  /\ r.found \in Nat /\ r.file \in Nat /\ r.row \in Nat /\ r.skipped \in Nat
           /\ r.batch \in Seq(RankingRow) /\ r.missing \subseteq Players
           /\ \A at \in {"failed", "done"} : [r EXCEPT !.at = at] \in Readers
           /\ \A found \in Nat : [r EXCEPT !.at = "ids", !.found = found] \in Readers
           /\ \A ids \in SUBSET Players : [r EXCEPT !.at = "file", !.ids = ids, !.file = 1] \in Readers
           /\ \A file, found \in Nat : [r EXCEPT !.file = file, !.found = found] \in Readers
           /\ \A v \in Versions :
                 [r EXCEPT !.at = "rows", !.row = 1, !.body = v, !.skipped = 0] \in Readers
           /\ \A row \in Nat, batch \in Seq(RankingRow) : [r EXCEPT !.row = row, !.batch = batch] \in Readers
           /\ \A row, skipped \in Nat, missing \in SUBSET Players :
                 [r EXCEPT !.row = row, !.skipped = skipped, !.missing = missing] \in Readers
           /\ \A batch \in Seq(RankingRow) : [r EXCEPT !.batch = batch] \in Readers
           /\ \A file, found \in Nat :
                 [r EXCEPT !.at = "file", !.file = file, !.found = found, !.body = Null, !.row = 0] \in Readers
<1>1. /\ r.found \in Nat /\ r.file \in Nat /\ r.row \in Nat /\ r.skipped \in Nat
      /\ r.batch \in Seq(RankingRow) /\ r.missing \subseteq Players
  BY DEF Readers
<1>2. \A at \in {"failed", "done"} : [r EXCEPT !.at = at] \in Readers
  BY DEF Readers
<1>3. \A found \in Nat : [r EXCEPT !.at = "ids", !.found = found] \in Readers
  BY DEF Readers
<1>4. \A ids \in SUBSET Players : [r EXCEPT !.at = "file", !.ids = ids, !.file = 1] \in Readers
  BY DEF Readers
<1>5. \A file, found \in Nat : [r EXCEPT !.file = file, !.found = found] \in Readers
  BY DEF Readers
<1>6. \A v \in Versions :
         [r EXCEPT !.at = "rows", !.row = 1, !.body = v, !.skipped = 0] \in Readers
  BY DEF Readers
<1>7. \A row \in Nat, batch \in Seq(RankingRow) : [r EXCEPT !.row = row, !.batch = batch] \in Readers
  BY DEF Readers
<1>8. \A row, skipped \in Nat, missing \in SUBSET Players :
         [r EXCEPT !.row = row, !.skipped = skipped, !.missing = missing] \in Readers
  BY DEF Readers
<1>9. \A batch \in Seq(RankingRow) : [r EXCEPT !.batch = batch] \in Readers
  BY DEF Readers
<1>10. \A file, found \in Nat :
          [r EXCEPT !.at = "file", !.file = file, !.found = found, !.body = Null, !.row = 0] \in Readers
  BY DEF Readers
<1> QED BY <1>1, <1>2, <1>3, <1>4, <1>5, <1>6, <1>7, <1>8, <1>9, <1>10

\* Each step of the reader leaves a reader.
LEMMA ReaderStep ==
    ASSUME RefType, ReaderInv, RefStep
    PROVE  ref' \in Readers
<1>0. ref \in Readers /\ players \subseteq Players
  BY DEF RefType
<1>fields. /\ ref.found \in Nat /\ ref.file \in Nat /\ ref.row \in Nat /\ ref.skipped \in Nat
      /\ ref.batch \in Seq(RankingRow) /\ ref.missing \subseteq Players
  BY <1>0, ReaderChanges
<1>counted. \A f : Counted(f) \in Nat
  BY <1>fields DEF Counted
<1>1. /\ ref.found \in Nat /\ ref.file \in Nat /\ ref.row \in Nat /\ ref.skipped \in Nat
      /\ ref.batch \in Seq(RankingRow) /\ ref.missing \subseteq Players
      /\ ref.found + 1 \in Nat /\ ref.file + 1 \in Nat /\ ref.row + 1 \in Nat /\ ref.skipped + 1 \in Nat
  BY <1>fields
<1>2. CASE SkipPlayers \/ LoadPlayers
  <2>1. \/ ref' = [ref EXCEPT !.at = "ids", !.found = Counted(PlayerTable)]
        \/ ref' = [ref EXCEPT !.at = "ids", !.found = ref.found + 1]
    BY <1>2 DEF SkipPlayers, LoadPlayers
  <2>2. Counted(PlayerTable) \in Nat
    BY <1>counted
  <2>3. \A found \in Nat : [ref EXCEPT !.at = "ids", !.found = found] \in Readers
    BY <1>0, ReaderChanges
  <2> QED BY <1>1, <2>1, <2>2, <2>3, Zenon
<1>3. CASE ReadIds
  <2>1. \/ ref' = [ref EXCEPT !.at = "failed"]
        \/ ref' = [ref EXCEPT !.at = "file", !.ids = players, !.file = 1]
    BY <1>3 DEF ReadIds
  <2> QED BY <1>0, <2>1, ReaderChanges
<1>4. CASE SkipFile
  <2>1. ref' = [ref EXCEPT !.file = ref.file + 1, !.found = Counted(Path)]
    BY <1>4 DEF SkipFile
  <2>2. Counted(Path) \in Nat
    BY <1>counted
  <2> QED BY <1>0, <1>1, <2>1, <2>2, ReaderChanges
<1>5. CASE OpenFile
  <2>1. served[Path] \in Versions
    <3>1. ref.file \in 1 .. Len(RankPaths)
      BY <1>1, <1>5, PathFacts DEF OpenFile, AtFile, ReaderInv
    <3>2. Path \in RefFiles
      BY <3>1, PathFacts DEF Path
    <3> QED BY <1>5, <3>2 DEF OpenFile, Changed, Absent, RefType
  <2>2. ref' = [ref EXCEPT !.at = "rows", !.row = 1, !.body = served[Path], !.skipped = 0]
    BY <1>5 DEF OpenFile
  <2> QED BY <1>0, <2>1, <2>2, ReaderChanges
<1>6. CASE ReadRow
  <2> DEFINE row == Entries[ref.row]
  <2>1. row \in RankingRow
    <3>1. ref.row \in 1 .. Len(Entries)
      BY <1>1, <1>6, OpenEntries DEF ReadRow, ReaderInv
    <3> QED BY <1>6, <3>1, OpenEntries DEF ReadRow
  <2>2. \/ ref' = [ref EXCEPT !.row = ref.row + 1, !.batch = Append(ref.batch, row)]
        \/ ref' = [ref EXCEPT !.row = ref.row + 1, !.skipped = ref.skipped + 1,
                              !.missing = ref.missing \cup {row.id}]
    BY <1>6 DEF ReadRow
  <2> HIDE DEF row
  <2>3. Append(ref.batch, row) \in Seq(RankingRow)
    BY <1>1, <2>1
  <2>4. ref.missing \cup {row.id} \in SUBSET Players
    BY <1>1, <2>1 DEF RankingRow
  <2>5. [ref EXCEPT !.row = ref.row + 1, !.batch = Append(ref.batch, row)] \in Readers
    BY <1>0, <1>1, <2>3, ReaderChanges
  <2>6. [ref EXCEPT !.row = ref.row + 1, !.skipped = ref.skipped + 1,
                    !.missing = ref.missing \cup {row.id}] \in Readers
    <3>1. \A r, skipped \in Nat, missing \in SUBSET Players :
             [ref EXCEPT !.row = r, !.skipped = skipped, !.missing = missing] \in Readers
      BY <1>0, ReaderChanges, Zenon
    <3> QED BY <1>1, <2>4, <3>1, Zenon
  <2> QED BY <2>2, <2>5, <2>6
<1>7. CASE Flush
  <2>1. ref' = [ref EXCEPT !.batch = <<>>]
    BY <1>7 DEF Flush
  <2>2. <<>> \in Seq(RankingRow)
    OBVIOUS
  <2> QED BY <1>0, <2>1, <2>2, ReaderChanges
<1>8. CASE EndFile
  <2>1. ref' = [ref EXCEPT !.at = "file", !.file = ref.file + 1, !.found = ref.found + 1,
                           !.body = Null, !.row = 0]
    BY <1>8 DEF EndFile
  <2> QED BY <1>0, <1>1, <2>1, ReaderChanges
<1>9. CASE EndRankings
  <2>1. \/ ref' = [ref EXCEPT !.at = "failed"]
        \/ ref' = [ref EXCEPT !.at = "done"]
    BY <1>9 DEF EndRankings
  <2> QED BY <1>0, <2>1, ReaderChanges
<1> QED BY <1>2, <1>3, <1>4, <1>5, <1>6, <1>7, <1>8, <1>9 DEF RefStep

\* WriteRankings: a row of the batch is held, and so is what was held before.
LEMMA FlushedBatch ==
    ASSUME RefType, Flush
    PROVE  /\ rankings' \in [Players -> [Dates -> Nat \cup {Null}]]
           /\ \A p \in Players, d \in Dates : rankings[p][d] # Null => rankings'[p][d] # Null
           /\ \A j \in 1 .. Len(ref.batch) : rankings'[ref.batch[j].id][ref.batch[j].date] # Null
<1>1. rankings' = [p \in Players |-> [d \in Dates |-> BestInBatch(p, d)]]
  BY DEF Flush
<1>2. ref.batch \in Seq(RankingRow)
  BY DEF RefType, Readers
<1>3. DOMAIN ref.batch = 1 .. Len(ref.batch) /\ \A j \in 1 .. Len(ref.batch) : ref.batch[j] \in RankingRow
  BY <1>2, ElementOfSeq
<1>4. ASSUME NEW p \in Players, NEW d \in Dates
      PROVE  /\ BestInBatch(p, d) \in Nat \cup {Null}
             /\ rankings[p][d] # Null => BestInBatch(p, d) # Null
             /\ \A j \in 1 .. Len(ref.batch) :
                   ref.batch[j].id = p /\ ref.batch[j].date = d => BestInBatch(p, d) # Null
  <2> DEFINE ranks == {ref.batch[i].rank : i \in {j \in DOMAIN ref.batch :
                          ref.batch[j].id = p /\ ref.batch[j].date = d}}
  <2>1. ranks \subseteq Nat
    BY <1>3 DEF RankingRow
  <2>2. BestInBatch(p, d) = IF ranks = {} THEN rankings[p][d] ELSE Min(ranks)
    BY DEF BestInBatch
  <2>3. \A j \in 1 .. Len(ref.batch) : ref.batch[j].id = p /\ ref.batch[j].date = d => ranks # {}
    BY <1>3
  <2>4. rankings[p][d] \in Nat \cup {Null}
    BY DEF RefType
  <2> HIDE DEF ranks
  <2>5. ranks # {} => Min(ranks) \in Nat /\ Min(ranks) # Null
    BY <2>1, LeastRank
  <2> QED BY <2>2, <2>3, <2>4, <2>5
<1>5. \A j \in 1 .. Len(ref.batch) : ref.batch[j].id \in Players /\ ref.batch[j].date \in Dates
  BY <1>3 DEF RankingRow
<1> HIDE DEF BestInBatch
<1> QED BY <1>1, <1>4, <1>5

-----------------------------------------------------------------------------
(* The types and the players.                                              *)

\* RefStart: a reader that has read nothing.
LEMMA FreshReader == RefIdle \in Readers /\ [RefIdle EXCEPT !.at = "players"] \in Readers
<1>1. <<>> \in Seq(RankingRow)
  OBVIOUS
<1> QED BY <1>1 DEF RefIdle, Readers

\* Merge: the duplicate and the player it is of are two.
LEMMA MergedPair ==
    ASSUME Merge
    PROVE  \E dup, canonical \in Players :
              /\ dup # canonical /\ {dup, canonical} \subseteq players
              /\ Doing("reconcile") /\ MergeRankings(dup, canonical) /\ job' = job
<1>1. PICK m \in MergePairs : {m[1], m[2]} \subseteq players /\ MergeRankings(m[1], m[2])
  BY DEF Merge
<1>2. m[1] \in Players /\ m[2] \in Players /\ m[1] # m[2]
  BY LoadJobAssumption
<1> QED BY <1>1, <1>2 DEF Merge

\* The reader's steps write the ledger and the rankings with what they may hold.
LEMMA ReadingTypes ==
    ASSUME RefType, ReaderInv, RefStep
    PROVE  /\ refLedger' \in [RefFiles -> Versions \cup {Null}]
           /\ rankings' \in [Players -> [Dates -> Nat \cup {Null}]]
           /\ served' = served
           /\ \A p \in Players, d \in Dates : rankings[p][d] # Null => rankings'[p][d] # Null
<1>1. CASE LoadPlayers
  <2>1. served[PlayerTable] \in Versions
    BY <1>1, PathFacts DEF RefType, LoadPlayers, Changed, Absent
  <2>2. Record(PlayerTable, served[PlayerTable]) /\ UNCHANGED <<served, rankings>>
    BY <1>1 DEF LoadPlayers
  <2>3. refLedger' \in [RefFiles -> Versions \cup {Null}]
    BY <2>1, <2>2, PathFacts, RecordedVersion
  <2> QED BY <2>2, <2>3 DEF RefType
<1>2. CASE Flush
  <2>1. UNCHANGED <<served, refLedger>>
    BY <1>2 DEF Flush
  <2> QED BY <1>2, <2>1, FlushedBatch DEF RefType
<1>3. CASE EndFile
  <2>1. UNCHANGED <<served, rankings>> /\ (refLedger' = refLedger \/ Record(Path, ref.body))
    BY <1>3 DEF EndFile
  <2>2. Path \in RefFiles /\ ref.body \in Versions
    BY <1>3, OpenEntries DEF EndFile
  <2>3. refLedger' \in [RefFiles -> Versions \cup {Null}]
    BY <2>1, <2>2, RecordedVersion DEF RefType
  <2> QED BY <2>1, <2>3 DEF RefType
<1>4. CASE SkipPlayers \/ ReadIds \/ SkipFile \/ OpenFile \/ ReadRow \/ EndRankings
  <2>1. UNCHANGED <<served, refLedger, rankings>>
    BY <1>4 DEF SkipPlayers, ReadIds, SkipFile, OpenFile, ReadRow, EndRankings, refTables
  <2> QED BY <2>1 DEF RefType
<1> QED BY <1>1, <1>2, <1>3, <1>4 DEF RefStep

\* What the files, the ledger, the rankings and the players may be, they stay.
LEMMA RefTypeStep ==
    ASSUME RefType, AliasInv, ReaderInv, JobInv, [Next]_vars
    PROVE  RefType'
<1>1. CASE QuietRankings
  <2>1. ref' \in Readers
    BY <1>1, FreshReader DEF QuietRankings, RefPublish, RefType
  <2>2. served' \in [RefFiles -> Versions \cup {Null}]
    <3>1. CASE served' = served
      BY <3>1 DEF RefType
    <3>2. CASE RefPublish
      BY <3>2 DEF RefPublish, RefType
    <3> QED BY <1>1, <3>1, <3>2 DEF QuietRankings
  <2> QED BY <1>1, <2>1, <2>2 DEF QuietRankings, RefType
<1>2. CASE WriteMatchRow \/ PlayersCutShort \/ ReferenceStage
  <2>1. PICK ids \in SUBSET Players :
            players' = players \cup {Resolve(id) : id \in ids} /\ alias' = alias
    BY <1>2, PlayersJoin
  <2>2. players' \subseteq Players
    BY <2>1, ResolvedIds DEF RefType
  <2>3. CASE WriteMatchRow
    <3>1. UNCHANGED refVars
      BY <2>3 DEF WriteMatchRow, othersOfMatches
    <3> QED BY <2>1, <2>2, <3>1 DEF RefType, refVars
  <2>4. CASE PlayersCutShort
    <3>1. /\ UNCHANGED <<served, refTables>>
          /\ ref' = [ref EXCEPT !.at = "failed"]
      BY <2>4 DEF PlayersCutShort, LoadSomePlayers
    <3>2. ref' \in Readers
      BY <3>1, ReaderChanges DEF RefType
    <3> QED BY <2>1, <2>2, <3>1, <3>2 DEF RefType, refTables
  <2>5. CASE ReferenceStage
    <3>1. RefStep
      BY <2>5 DEF ReferenceStage
    <3> QED BY <2>1, <2>2, <3>1, ReaderStep, ReadingTypes DEF RefType
  <2> QED BY <1>2, <2>3, <2>4, <2>5
<1>3. CASE Merge
  <2>1. PICK dup, canonical \in Players : MergeRankings(dup, canonical)
    BY <1>3, MergedPair
  <2>2. UNCHANGED <<served, refLedger, ref>> /\ players' = players \ {dup}
    BY <2>1 DEF MergeRankings
  <2>3. alias' \in [Players -> Players \cup {Null}]
    BY <2>1 DEF MergeRankings, RefType
  <2>4. rankings' \in [Players -> [Dates -> Nat \cup {Null}]]
    <3> DEFINE moved(p, d) ==
           CASE p = canonical -> Coalesce(rankings[p][d], rankings[dup][d])
             [] p = dup       -> Null
             [] OTHER         -> rankings[p][d]
    <3>1. rankings' = [p \in Players |-> [d \in Dates |-> moved(p, d)]]
      BY <2>1 DEF MergeRankings
    <3>2. \A p \in Players, d \in Dates : moved(p, d) \in Nat \cup {Null}
      BY DEF RefType, Coalesce
    <3> HIDE DEF moved
    <3> QED BY <3>1, <3>2
  <2> QED BY <2>2, <2>3, <2>4 DEF RefType
<1>4. CASE StartRun /\ Step = "reference" /\ RefStart(job.force) /\ UNCHANGED <<players, alias>>
  <2>1. UNCHANGED <<served, refTables, players, alias>> /\ ref' = [RefIdle EXCEPT !.at = "players"]
    BY <1>4 DEF RefStart
  <2> QED BY <2>1, FreshReader DEF RefType, refTables
<1> QED BY <1>1, <1>2, <1>3, <1>4, RankingsMove

\* Merge rewrites the aliases that led to the duplicate, so that none leads to an id
\* that is nobody's any more; and nobody joins under an id that is an alias.
LEMMA AliasStep ==
    ASSUME RefType, AliasInv, JobInv, [Next]_vars
    PROVE  AliasInv'
<1>1. CASE QuietRankings
  BY <1>1 DEF QuietRankings, AliasInv
<1>2. CASE WriteMatchRow \/ PlayersCutShort \/ ReferenceStage
  <2>1. PICK ids \in SUBSET Players :
            players' = players \cup {Resolve(id) : id \in ids} /\ alias' = alias
    BY <1>2, PlayersJoin
  <2>2. \A id \in ids : alias[Resolve(id)] = Null
    BY ResolvedIds
  <2> QED BY <2>1, <2>2 DEF AliasInv
<1>3. CASE Merge
  <2>1. PICK dup, canonical \in Players :
            dup # canonical /\ {dup, canonical} \subseteq players /\ MergeRankings(dup, canonical)
    BY <1>3, MergedPair
  <2>2. /\ players' = players \ {dup}
        /\ alias' = [id \in Players |-> IF id = dup \/ alias[id] = dup THEN canonical ELSE alias[id]]
    BY <2>1 DEF MergeRankings
  <2>3. dup # Null /\ players \subseteq Players
    BY NullAssumption DEF RefType
  <2> QED BY <2>1, <2>2, <2>3 DEF AliasInv
<1>4. CASE UNCHANGED <<players, alias>>
  BY <1>4 DEF AliasInv
<1> QED BY <1>1, <1>2, <1>3, <1>4, RankingsMove

\* A ranking that is held stays with the player its id is, through every merge.
LEMMA RankingStays ==
    ASSUME RefType, AliasInv, ReaderInv, JobInv, [Next]_vars, NEW row \in RankingRow, HoldsRanking(row)
    PROVE  HoldsRanking(row)'
<1> USE DEF HoldsRanking, Resolve
<1>1. row.id \in Players /\ row.date \in Dates
  BY DEF RankingRow
<1>2. Resolve(row.id) \in Players
  BY <1>1, ResolvedIds
<1>3. CASE UNCHANGED <<alias, rankings>>
  BY <1>3
<1>4. CASE QuietRankings \/ WriteMatchRow \/ PlayersCutShort
  <2>1. UNCHANGED <<alias, rankings>>
    BY <1>4 DEF QuietRankings, WriteMatchRow, WriteRow, othersOfMatches, refVars, PlayersCutShort,
                LoadSomePlayers, refTables
  <2> QED BY <1>3, <2>1
<1>5. CASE ReferenceStage
  <2>1. RefStep /\ alias' = alias
    BY <1>5 DEF ReferenceStage, RefStep
  <2> QED BY <1>1, <1>2, <2>1, ReadingTypes
<1>6. CASE Merge
  <2>1. PICK dup, canonical \in Players :
            dup # canonical /\ {dup, canonical} \subseteq players /\ MergeRankings(dup, canonical)
    BY <1>6, MergedPair
  <2>2. alias'[row.id] = IF row.id = dup \/ alias[row.id] = dup THEN canonical ELSE alias[row.id]
    BY <1>1, <2>1 DEF MergeRankings
  <2>3. \A p \in Players : rankings'[p][row.date] =
           CASE p = canonical -> Coalesce(rankings[p][row.date], rankings[dup][row.date])
             [] p = dup       -> Null
             [] OTHER         -> rankings[p][row.date]
    BY <1>1, <2>1 DEF MergeRankings
  <2>4. alias[dup] = Null /\ canonical # Null /\ dup # Null
    BY <2>1, NullAssumption DEF AliasInv
  <2> DEFINE p == Resolve(row.id)  q == Resolve(row.id)'
  <2>5. p \in Players /\ rankings[p][row.date] # Null
    BY <1>2
  <2>6. q = IF p = dup THEN canonical ELSE p
    BY <2>2, <2>4
  <2> HIDE DEF p, q
  <2>7. rankings'[q][row.date] # Null
    BY <2>1, <2>3, <2>5, <2>6 DEF Coalesce
  <2> QED BY <2>7 DEF q
<1>7. CASE StartRun /\ RefStart(job.force) /\ UNCHANGED <<players, alias>>
  BY <1>3, <1>7 DEF RefStart, refTables
<1> QED BY <1>4, <1>5, <1>6, <1>7, RankingsMove

-----------------------------------------------------------------------------
(* The stage, the file that is open and the files that are recorded.       *)

\* What a step of the reader does to the ids it looks rows up among.
LEMMA ReaderIds ==
    ASSUME RefType, RefStep \/ LoadSomePlayers
    PROVE  ref'.ids \in {ref.ids, players}
<1>1. ref \in Readers
  BY DEF RefType
<1>2. CASE SkipPlayers \/ LoadPlayers \/ LoadSomePlayers
  BY <1>1, <1>2 DEF SkipPlayers, LoadPlayers, LoadSomePlayers, Readers
<1>3. CASE ReadIds
  BY <1>1, <1>3 DEF ReadIds, Readers
<1>4. CASE SkipFile \/ OpenFile
  BY <1>1, <1>4 DEF SkipFile, OpenFile, Readers
<1>5. CASE ReadRow
  BY <1>1, <1>5 DEF ReadRow, Readers
<1>6. CASE Flush \/ EndFile \/ EndRankings
  BY <1>1, <1>6 DEF Flush, EndFile, EndRankings, Readers
<1> QED BY <1>2, <1>3, <1>4, <1>5, <1>6 DEF RefStep

\* The reference stage ends with its run, and no other stage runs beside it.
LEMMA StageStep ==
    ASSUME RefType, AliasInv, StageInv, JobInv, [Next]_vars
    PROVE  StageInv'
<1> USE DEF StageInv, matchVars, tables, refVars
<1>1. RefIdle.at = "idle"
  BY DEF RefIdle
<1>2. ASSUME ref.at = "idle", ref' = ref
      PROVE  StageInv'
  BY <1>2
<1>3. CASE Publish \/ ChartingStage \/ UNCHANGED vars
  <2>1. UNCHANGED <<ref, job, alias>>
    BY <1>3 DEF Publish, RefPublish, ChartingStage, ChartStep, vars, jobVars
  <2> QED BY <2>1 DEF Doing, Idle
<1>4. CASE Weekly \/ ByHand
  <2>1. Idle /\ ref' = ref
    BY <1>4 DEF Weekly, ByHand, Launch
  <2> QED BY <1>2, <2>1 DEF Doing
<1>5. CASE StageFails \/ Interrupted \/ FinishRun
  <2>1. ref' = RefIdle
    BY <1>5 DEF StageFails, Interrupted, Abandon, FinishRun
  <2> QED BY <1>1, <2>1
<1>6. CASE SkipStage
  <2>1. ref' = ref /\ ~Configured(Step)
    BY <1>6 DEF SkipStage
  <2>2. ref.at = "idle"
    BY <2>1 DEF JobInv, Control
  <2> QED BY <1>2, <2>1, <2>2
<1>7. CASE StartRun
  <2>1. job \in Jobs /\ ~job.open
    BY <1>7 DEF StartRun, JobInv, JobType
  <2>2. ref.at = "idle"
    BY <2>1
  <2>3. CASE Step # "reference"
    BY <1>2, <1>7, <2>2, <2>3 DEF StartRun
  <2>4. CASE Step = "reference"
    <3>1. ref' = [RefIdle EXCEPT !.at = "players"]
      BY <1>7, <2>4 DEF StartRun, RefStart
    <3>2. ref'.ids = {}
      BY <3>1 DEF RefIdle
    <3>3. job'.todo = job.todo /\ job'.open = TRUE /\ ~Idle
      BY <1>7, <2>1 DEF StartRun, Jobs
    <3> QED BY <2>4, <3>2, <3>3 DEF Doing, Step, Idle
  <2> QED BY <2>3, <2>4
<1>8. CASE SkipMatchFile \/ OpenMatchFile \/ WriteMatchRow \/ EndMatchFile
  <2>1. ref' = ref /\ Doing("matches")
    BY <1>8 DEF SkipMatchFile, OpenMatchFile, WriteMatchRow, EndMatchFile, InMatches, othersOfMatches
  <2> QED BY <1>2, <2>1 DEF Doing
<1>9. CASE ReferenceStage \/ PlayersCutShort
  <2>1. UNCHANGED <<job, alias>> /\ Doing("reference") /\ job.open /\ (RefStep \/ LoadSomePlayers)
    BY <1>9 DEF ReferenceStage, RefStep, PlayersCutShort
  <2>2. ref'.ids \in {ref.ids, players}
    BY <2>1, ReaderIds
  <2>3. ref.at # "idle"
    BY <2>1 DEF RefStep, SkipPlayers, LoadPlayers, LoadSomePlayers, ReadIds, SkipFile, OpenFile,
                ReadRow, Flush, EndFile, EndRankings, AtFile
  <2>4. \A id \in ref'.ids : alias[id] = Null
    BY <2>2, <2>3 DEF AliasInv
  <2> QED BY <2>1, <2>4 DEF Doing, Idle
<1>10. CASE Merge \/ Reconciled \/ EventsStage \/ PruneStage \/ RefreshStage
  <2>1. ref' = ref
    BY <1>10 DEF Merge, MergeRankings, Reconciled, EventsStage, PruneStage, RefreshStage
  <2>2. ref.at = "idle"
    BY <1>10 DEF Merge, Reconciled, EventsStage, PruneStage, RefreshStage, Doing
  <2> QED BY <1>2, <2>1, <2>2
<1> QED BY <1>3, <1>4, <1>5, <1>6, <1>7, <1>8, <1>9, <1>10 DEF Next, Work

\* Where the reader goes by a step that is not its own.
LEMMA ReaderWaits ==
    ASSUME RefType, [Next]_vars, ~ReferenceStage
    PROVE  ref' = ref \/ ref'.at \in {"idle", "players", "failed"}
<1>1. CASE QuietRankings
  BY <1>1 DEF QuietRankings, RefIdle, RefPublish
<1>2. CASE WriteMatchRow
  BY <1>2 DEF WriteMatchRow, othersOfMatches, refVars
<1>3. CASE PlayersCutShort
  BY <1>3 DEF PlayersCutShort, LoadSomePlayers, RefType, Readers
<1>4. CASE Merge
  BY <1>4 DEF Merge, MergeRankings
<1>5. CASE RefStart(job.force)
  BY <1>5 DEF RefStart, RefIdle
<1> QED BY <1>1, <1>2, <1>3, <1>4, <1>5, RankingsMove

\* loadRankingFile: a row joins the batch, is written with it, or is counted as skipped.
LEMMA RowsStep ==
    ASSUME RefType, AliasInv, StageInv, ReaderInv, JobInv, [Next]_vars
    PROVE  ReaderInv'
<1>0. \A row \in RankingRow : HoldsRanking(row) => HoldsRanking(row)'
  BY RankingStays
<1> DEFINE Passed(i) == Entries[i].id \in ref.ids /\ (HoldsRanking(Entries[i]) \/ InBatch(Entries[i]))
<1>1. ref \in Readers
  BY DEF RefType
<1>2. ASSUME ref.at = "rows"
      PROVE  /\ ref.file \in 1 .. Len(RankPaths) /\ ref.body \in Versions
             /\ ref.row \in 1 .. Len(Entries) + 1
             /\ ref.skipped = 0 => \A i \in 1 .. ref.row - 1 : Passed(i)
             /\ Len(Entries) \in Nat /\ \A i \in 1 .. Len(Entries) : Entries[i] \in RankingRow
  BY <1>2, OpenEntries DEF ReaderInv
<1>3. ASSUME ref' = ref
      PROVE  ReaderInv'
  <2>1. Entries' = Entries
    BY <1>3 DEF Entries, Path
  <2>2. \A row : InBatch(row)' <=> InBatch(row)
    BY <1>3 DEF InBatch
  <2>3. ASSUME ref.at = "rows", ref.skipped = 0, NEW i \in 1 .. ref.row - 1
        PROVE  Passed(i)'
    <3>1. Entries[i] \in RankingRow /\ Passed(i)
      BY <1>2, <2>3
    <3> QED BY <1>0, <1>3, <2>1, <2>2, <3>1
  <2> HIDE DEF Passed
  <2>4. ReaderInv' <=>
           /\ ref.at = "file" => ref.file >= 1
           /\ ref.at = "rows" =>
                 /\ ref.file \in 1 .. Len(RankPaths) /\ ref.body \in Versions
                 /\ ref.row \in 1 .. Len(Entries) + 1
                 /\ ref.skipped = 0 => \A i \in 1 .. ref.row - 1 : Passed(i)'
    BY <1>3, <2>1 DEF ReaderInv, Passed
  <2> QED BY <1>2, <2>3, <2>4 DEF ReaderInv
<1>4. CASE ~ReferenceStage
  <2>1. CASE ref' = ref
    BY <1>3, <2>1
  <2>2. CASE ref'.at \in {"idle", "players", "failed"}
    BY <2>2 DEF ReaderInv
  <2> QED BY <1>4, <2>1, <2>2, ReaderWaits
<1>5. CASE ReferenceStage
  <2>1. RefStep /\ alias' = alias
    BY <1>5 DEF ReferenceStage, RefStep
  <2>2. CASE SkipPlayers \/ LoadPlayers \/ EndRankings
    <3>1. ref'.at \in {"ids", "failed", "done"}
      BY <1>1, <2>2 DEF SkipPlayers, LoadPlayers, EndRankings, Readers
    <3> QED BY <3>1 DEF ReaderInv
  <2>3. CASE ReadIds \/ SkipFile \/ EndFile
    <3>1. ref.file \in Nat
      BY <1>1 DEF Readers
    <3>2. CASE ReadIds
      <4>1. ref'.at = "failed" \/ (ref'.at = "file" /\ ref'.file = 1)
        BY <1>1, <3>2 DEF ReadIds, Readers
      <4> QED BY <4>1 DEF ReaderInv
    <3>3. CASE SkipFile \/ EndFile
      <4>1. ref'.at = "file" /\ ref'.file = ref.file + 1
        BY <1>1, <3>3 DEF SkipFile, EndFile, AtFile, Readers
      <4> QED BY <3>1, <4>1 DEF ReaderInv
    <3> QED BY <2>3, <3>2, <3>3
  <2>4. CASE OpenFile
    <3>1. ref.file \in 1 .. Len(RankPaths)
      BY <1>1, <2>4, PathFacts DEF OpenFile, AtFile, ReaderInv, Readers
    <3>2. Path \in Range(RankPaths) /\ Path \in RefFiles
      BY <3>1, PathFacts DEF Path
    <3>3. served[Path] \in Versions
      BY <2>4, <3>2 DEF OpenFile, Changed, Absent, RefType
    <3>4. /\ ref'.at = "rows" /\ ref'.row = 1 /\ ref'.body = served[Path] /\ ref'.file = ref.file
      BY <1>1, <2>4 DEF OpenFile, Readers
    <3>5. Path' = Path /\ Entries' = RankRows[Path][served[Path]]
      BY <3>4 DEF Path, Entries
    <3>6. Len(Entries') \in Nat
      BY <3>2, <3>3, <3>5, EntryFacts
    <3>7. ref'.row \in 1 .. Len(Entries') + 1
      BY <3>4, <3>6
    <3>8. ref'.file \in 1 .. Len(RankPaths) /\ ref'.body \in Versions
      BY <3>1, <3>3, <3>4
    <3>9. 1 .. ref'.row - 1 = {}
      BY <3>4
    <3> QED BY <3>4, <3>7, <3>8, <3>9 DEF ReaderInv
  <2>5. CASE ReadRow
    <3> DEFINE row == Entries[ref.row]
    <3>1. ref.at = "rows" /\ ref.row \in 1 .. Len(Entries) /\ ref.skipped \in Nat
          /\ ref.batch \in Seq(RankingRow)
      BY <1>1, <1>2, <2>5 DEF ReadRow, Readers
    <3>2. /\ ref'.at = "rows" /\ ref'.row = ref.row + 1 /\ ref'.body = ref.body
          /\ ref'.file = ref.file /\ ref'.ids = ref.ids
          /\ \/ row.id \in ref.ids /\ ref'.batch = Append(ref.batch, row) /\ ref'.skipped = ref.skipped
             \/ ref'.skipped = ref.skipped + 1
      BY <1>1, <2>5, <3>1 DEF ReadRow, Readers
    <3>3. Entries' = Entries
      BY <3>2 DEF Entries, Path
    <3>4. ASSUME ref'.skipped = 0, NEW i \in 1 .. ref'.row - 1
          PROVE  Entries'[i].id \in ref'.ids /\ (HoldsRanking(Entries[i])' \/ InBatch(Entries[i])')
      <4>1. row.id \in ref.ids /\ ref'.batch = Append(ref.batch, row) /\ ref.skipped = 0
        BY <3>1, <3>2, <3>4
      <4>2. row \in RankingRow
        BY <1>2, <3>1
      <4> HIDE DEF row
      <4>3. /\ Len(ref'.batch) = Len(ref.batch) + 1 /\ Len(ref.batch) \in Nat
            /\ ref'.batch[Len(ref.batch) + 1] = row
            /\ \A j \in 1 .. Len(ref.batch) : ref'.batch[j] = ref.batch[j]
        BY <3>1, <4>1, <4>2, AppendProperties
      <4>4. CASE i = ref.row
        <5>1. Entries'[i] = row
          BY <3>3, <4>4 DEF row
        <5>2. InBatch(Entries[i])'
          BY <4>3, <5>1 DEF InBatch
        <5> QED BY <3>2, <4>1, <5>1, <5>2
      <4>5. CASE i # ref.row
        <5>1. i \in 1 .. ref.row - 1 /\ i \in 1 .. Len(Entries)
          BY <1>2, <3>1, <3>2, <3>4, <4>5
        <5>2. Passed(i) /\ Entries[i] \in RankingRow
          BY <1>2, <3>1, <4>1, <5>1
        <5>3. InBatch(Entries[i]) => InBatch(Entries[i])'
          BY <3>3, <4>3 DEF InBatch
        <5>4. HoldsRanking(Entries[i]) => HoldsRanking(Entries[i])'
          BY <1>0, <3>3, <5>2
        <5> QED BY <3>2, <3>3, <5>2, <5>3, <5>4
      <4> QED BY <4>4, <4>5
    <3>5. ref'.file \in 1 .. Len(RankPaths) /\ ref'.body \in Versions
          /\ ref'.row \in 1 .. Len(Entries') + 1
      BY <1>2, <3>1, <3>2, <3>3
    <3> HIDE DEF Passed, row
    <3> QED BY <3>2, <3>4, <3>5 DEF ReaderInv
  <2>6. CASE Flush
    <3>1. ref.at = "rows"
      BY <2>6 DEF Flush
    <3>2. /\ ref'.at = "rows" /\ ref'.row = ref.row /\ ref'.body = ref.body /\ ref'.file = ref.file
          /\ ref'.ids = ref.ids /\ ref'.skipped = ref.skipped
      BY <1>1, <2>6, <3>1 DEF Flush, Readers
    <3>3. Entries' = Entries
      BY <3>2 DEF Entries, Path
    <3>4. ASSUME ref'.skipped = 0, NEW i \in 1 .. ref'.row - 1
          PROVE  Entries'[i].id \in ref'.ids /\ HoldsRanking(Entries[i])'
      <4>1. Passed(i) /\ Entries[i] \in RankingRow
        BY <1>2, <3>1, <3>2, <3>4
      <4>2. CASE HoldsRanking(Entries[i])
        BY <1>0, <3>2, <3>3, <4>1, <4>2
      <4>3. CASE InBatch(Entries[i])
        <5>1. rankings'[Entries[i].id][Entries[i].date] # Null
          BY <2>6, <4>3, FlushedBatch DEF InBatch
        <5>2. alias[Entries[i].id] = Null
          BY <3>1, <4>1 DEF StageInv
        <5> QED BY <2>1, <3>2, <3>3, <4>1, <5>1, <5>2 DEF HoldsRanking, Resolve
      <4> QED BY <4>1, <4>2, <4>3
    <3>5. ref'.file \in 1 .. Len(RankPaths) /\ ref'.body \in Versions
          /\ ref'.row \in 1 .. Len(Entries') + 1
      BY <1>2, <3>1, <3>2, <3>3
    <3> HIDE DEF Passed
    <3> QED BY <3>2, <3>4, <3>5 DEF ReaderInv
  <2> QED BY <2>1, <2>2, <2>3, <2>4, <2>5, <2>6 DEF RefStep
<1> QED BY <1>4, <1>5

\* record is called of a file that was read to its end with no row left waiting.
LEMMA RecordStep ==
    ASSUME RefType, AliasInv, StageInv, ReaderInv, RecordedInv, JobInv, [Next]_vars
    PROVE  RecordedInv'
<1>0. \A row \in RankingRow : HoldsRanking(row) => HoldsRanking(row)'
  BY RankingStays
<1> SUFFICES ASSUME NEW f \in Range(RankPaths), NEW v \in Versions, refLedger'[f] = v,
                    NEW i \in 1 .. Len(RankRows[f][v])
             PROVE  HoldsRanking(RankRows[f][v][i])'
  BY DEF RecordedInv
<1> DEFINE row == RankRows[f][v][i]
<1>1. f \in RefFiles /\ f # PlayerTable
  BY PathFacts
<1>entry. row \in RankingRow
  BY EntryFacts
<1>2. CASE refLedger'[f] = refLedger[f]
  <2>1. refLedger[f] = v
    BY <1>2
  <2>2. HoldsRanking(row)
    BY <2>1 DEF RecordedInv
  <2> QED BY <1>0, <1>entry, <2>2
<1>3. CASE refLedger'[f] # refLedger[f]
  <2>1. EndFile /\ ~Waited /\ Record(Path, ref.body) /\ rankings' = rankings /\ alias' = alias
    <3>1. ReferenceStage
      <4>1. CASE QuietRankings
        BY <1>3, <4>1 DEF QuietRankings
      <4>2. CASE WriteMatchRow
        BY <1>3, <4>2 DEF WriteMatchRow, othersOfMatches, refVars
      <4>3. CASE PlayersCutShort
        BY <1>3, <4>3 DEF PlayersCutShort, LoadSomePlayers, refTables
      <4>4. CASE Merge
        BY <1>3, <4>4 DEF Merge, MergeRankings
      <4>5. CASE RefStart(job.force)
        BY <1>3, <4>5 DEF RefStart, refTables
      <4> QED BY <4>1, <4>2, <4>3, <4>4, <4>5, RankingsMove
    <3>2. RefStep /\ alias' = alias
      BY <3>1 DEF ReferenceStage, RefStep
    <3>3. CASE LoadPlayers
      <4>1. Record(PlayerTable, served[PlayerTable])
        BY <3>3 DEF LoadPlayers
      <4>2. refLedger'[f] = refLedger[f]
        BY <1>1, <4>1 DEF Record, RefType
      <4> QED BY <1>3, <4>2
    <3>4. CASE SkipPlayers \/ ReadIds \/ SkipFile \/ OpenFile \/ ReadRow \/ Flush \/ EndRankings
      BY <1>3, <3>4 DEF SkipPlayers, ReadIds, SkipFile, OpenFile, ReadRow, Flush, EndRankings, refTables
    <3>5. CASE EndFile
      BY <1>3, <3>2, <3>5 DEF EndFile
    <3> QED BY <3>2, <3>3, <3>4, <3>5 DEF RefStep
  <2>2. /\ Path \in RefFiles /\ ref.body \in Versions /\ Len(Entries) \in Nat
        /\ \A n \in 1 .. Len(Entries) : Entries[n] \in RankingRow
    BY <2>1, OpenEntries DEF EndFile
  <2>3. f = Path /\ v = ref.body
    BY <1>1, <1>3, <2>1, <2>2, RecordedVersion
  <2>4. ref.skipped = 0 /\ ref.batch = <<>> /\ ref.row > Len(Entries) /\ ref.at = "rows"
        /\ ref.row \in Nat
    BY <2>1 DEF EndFile, Waited, RefType, Readers
  <2>5. RankRows[f][v] = Entries
    BY <2>3 DEF Entries
  <2>6. i \in 1 .. ref.row - 1
    BY <2>2, <2>4, <2>5
  <2>7. HoldsRanking(row) \/ InBatch(row)
    BY <2>4, <2>5, <2>6 DEF ReaderInv
  <2>8. ~InBatch(row)
    <3>1. Len(ref.batch) = 0
      BY <2>4, EmptySeq
    <3> QED BY <3>1 DEF InBatch
  <2> QED BY <1>0, <1>entry, <2>7, <2>8
<1> QED BY <1>2, <1>3

-----------------------------------------------------------------------------
(* The theorems.                                                           *)

\* No mirror was read, and nobody was merged.
LEMMA ReferenceStarts ==
    ASSUME JobInit
    PROVE  RefInv
<1>1. RefInit /\ MatchInit(registry.legacy) /\ registry \in Deployments
  BY DEF JobInit
<1>2. Min(Versions) \in Versions
  BY ReferenceAssumption
<1>3. /\ served \in [RefFiles -> Versions \cup {Null}]
      /\ refLedger = [f \in RefFiles |-> Null]
      /\ rankings = [p \in Players |-> [d \in Dates |-> Null]]
      /\ ref = RefIdle
  BY <1>1, <1>2 DEF RefInit
<1>4. alias = [p \in Players |-> Null] /\ players \subseteq Players
  <2>1. registry.legacy \subseteq Keys
    BY <1>1, LoadJobAssumption
  <2>2. \A k \in Keys : PairOf[k] \subseteq Players
    BY MatchStoreAssumption
  <2>3. players = UNION {PairOf[k] \cup {ThirdMan} : k \in registry.legacy}
    BY <1>1 DEF MatchInit
  <2>4. alias = [p \in Players |-> Null]
    BY <1>1 DEF MatchInit
  <2> QED BY <2>1, <2>2, <2>3, <2>4, MatchStoreAssumption
<1>5. RefType
  BY <1>3, <1>4, FreshReader DEF RefType
<1>6. ref.at = "idle"
  BY <1>3 DEF RefIdle
<1>7. AliasInv
  BY <1>4 DEF AliasInv
<1>8. RecordedInv
  <2>1. Null \notin Versions
    <3>1. Versions \subseteq Nat
      BY ReferenceAssumption
    <3>2. Null \notin Nat
      BY NullAssumption
    <3> QED BY <3>1, <3>2
  <2> QED BY <1>3, <2>1, PathFacts DEF RecordedInv
<1> QED BY <1>5, <1>6, <1>7, <1>8 DEF RefInv, StageInv, ReaderInv

\* The reference stage: a reader's rows are in the batch, held or counted until its file
\* is recorded, whoever publishes, dies or is merged meanwhile.
THEOREM ReferenceInvariant == Spec => []RefInv
<1>1. JobInit => RefInv
  BY ReferenceStarts
<1>2. LoadInv /\ RefInv /\ [Next]_vars => RefInv'
  <2> SUFFICES ASSUME LoadInv, RefInv, [Next]_vars
               PROVE  RefInv'
    OBVIOUS
  <2> USE DEF LoadInv, RefInv
  <2>1. RefType'
    BY RefTypeStep
  <2>2. AliasInv'
    BY AliasStep
  <2>3. StageInv'
    BY StageStep
  <2>4. ReaderInv'
    BY RowsStep
  <2>5. RecordedInv'
    BY RecordStep
  <2> QED BY <2>1, <2>2, <2>3, <2>4, <2>5
<1> QED BY <1>1, <1>2, LoadInvariant, PTL DEF Spec

\* loadRankingFile and Merge: a recorded file is read no more, so each of its rows must
\* be held already, by whoever its id is now.
THEOREM RankingsAreHeld == Spec => []RecordedRankingsAreHeld
<1>1. RefInv => RecordedRankingsAreHeld
  <2> SUFFICES ASSUME RefInv, NEW f \in Range(RankPaths), refLedger[f] # Null,
                      NEW i \in DOMAIN RankRows[f][refLedger[f]]
               PROVE  HoldsRanking(RankRows[f][refLedger[f]][i])
    BY DEF RecordedRankingsAreHeld, HoldsRanking
  <2>1. refLedger[f] \in Versions
    BY PathFacts DEF RefInv, RefType
  <2>2. RankRows[f][refLedger[f]] \in Seq(RankingRow)
    BY <2>1, EntryFacts
  <2>3. i \in 1 .. Len(RankRows[f][refLedger[f]])
    BY <2>2
  <2> QED BY <2>1, <2>3 DEF RefInv, RecordedInv
<1> QED BY <1>1, ReferenceInvariant, PTL

-----------------------------------------------------------------------------
(* The charting stage.                                                     *)

ChartIds == {m.id : m \in Charts}
Reasons == {"no match", "more than one"}
Listed == [id : ChartIds, reason : Reasons]
ChartPlaces == {"idle", "matches", "stats", "reopen", "years", "explain", "record", "failed", "done"}
ChartVersions == [ChartFiles -> Versions \cup {Null}]
Loaders ==
    [at : ChartPlaces, known : ChartVersions, body : ChartVersions, tag : ChartVersions,
     years : SUBSET {YearOf[m.day] : m \in Charts}, lost : SUBSET Listed,
     reason : Reasons \cup {Null}]

ChartType ==
    /\ chartServed \in ChartVersions /\ chartLedger \in ChartVersions
    /\ charted \in [Keys -> Attachments \cup {Null}]
    /\ chartUnresolved \subseteq Listed
    /\ ct \in Loaders

\* Both players of a match are its sides, and one of them won it.
PairInv(k) ==
    matches[k] # Null => matches[k].winner \in PairOf[k] /\ PairOf[k] \subseteq SidesOf(k)

BothRead == \A f \in ChartFiles : ct.body[f] # Null
\* Where the loader is between the files read and the files recorded.
Sorting == ct.at \in {"years", "explain", "record"}
Sorted == ct.at = "record" \/ (ct.at = "done" /\ BothRead)
PlaceInv ==
    /\ ct.at # "idle" => Doing("charting") /\ job.open
    /\ ct.at \in {"idle", "matches", "stats", "reopen"} => ct.lost = {}
    /\ ct.at \in {"idle", "matches", "stats"} => ct.body["stats"] = Null
    /\ Sorting => BothRead
    /\ ct.at = "explain" \/ Sorted => ct.years = {}
    /\ Sorted => ct.lost = {}
    /\ \A f \in ChartFiles : ct.tag[f] # Null => ct.tag[f] = ct.body[f]

\* A version is read before it is recorded, and served before it is read.
AtMost(v, w) == v # Null /\ w # Null => v <= w
OrderOfVersions(f) ==
    /\ AtMost(chartLedger[f], chartServed[f])
    /\ AtMost(ct.body[f], chartServed[f])
    /\ AtMost(chartLedger[f], ct.body[f])

\* What is attached hangs on a match, and is not listed.
AttachedInv ==
    \A k \in Keys : charted[k] # Null =>
        /\ matches[k] # Null
        /\ DOMAIN charted[k].figures \subseteq PairOf[k]
        /\ \A x \in chartUnresolved : x.id # charted[k].id
        /\ ct.at = "explain" => \A x \in Because(ct.reason) : x.id # charted[k].id

\* The rows of the years that were written.
ChartFile == Range(ChartRows[ct.body["matches"]])
Passed == {m \in ChartFile : YearOf[m.day] \notin ct.years}
Lost(m) == \E x \in ct.lost : x.id = m.id
Explained(m) == ct.years = {} /\ \E x \in chartUnresolved : x.id = m.id
LostInv ==
    Sorting => \A x \in ct.lost : \E m \in Passed : Reason(m) # Null /\ x.id = m.id
AccountedInv ==
    Sorting \/ Sorted => \A m \in Passed :
        /\ Reason(m) # Null => Lost(m) \/ Explained(m)
        /\ Reason(m) = Null => \E k \in Keys, n \in Passed :
              k = RowOf(m) /\ charted[k] # Null /\ Reason(n) = Null /\ charted[k].id = n.id
\* A figure of a row that was written is of the version that was read.
CurrentInv ==
    Sorting => \A m \in Passed, k \in Keys :
        charted[k] # Null /\ charted[k].id = m.id =>
            \/ \A p \in DOMAIN charted[k].figures : charted[k].figures[p] = ct.body["stats"]
            \/ Lost(m)

ChartInv ==
    /\ ChartType /\ PlaceInv
    /\ \A f \in ChartFiles : OrderOfVersions(f)
    /\ \A k \in Keys : PairInv(k)
    /\ AttachedInv /\ LostInv /\ AccountedInv /\ CurrentInv
    /\ SkippedChartingIsCurrent
-----------------------------------------------------------------------------
(* The two players of a match, and the match a charted row is.             *)

\* The fused rows of an older database have both players of their key.
LEMMA PairStarts ==
    ASSUME JobInit, NEW k \in Keys
    PROVE  PairInv(k)
<1>1. PICK s : matches = [j \in Keys |-> IF j \in registry.legacy THEN FusedRow(s, j) ELSE Null]
  BY DEF JobInit, MatchInit
<1>2. appearances = [j \in Keys |-> IF j \in registry.legacy THEN FusedSides(j) ELSE NoSides]
  BY DEF JobInit, MatchInit
<1>3. SUFFICES ASSUME k \in registry.legacy
               PROVE  PairInv(k)
  BY <1>1 DEF PairInv
<1>4. PICK p \in Players, q \in Players : p # q /\ PairOf[k] = {p, q}
  BY MatchStoreAssumption
<1>5. matches[k].winner = CHOOSE w \in PairOf[k] : TRUE
  BY <1>1, <1>3 DEF FusedRow
<1>6. ASSUME NEW r \in PairOf[k]
      PROVE  FusedSides(k)[r] # Null
  <2>1. [won |-> r \in {ThirdMan, FusedRow(Null, k).winner}, stats |-> "impossible"] \in Side
    BY DEF Side, Stats
  <2> QED BY <1>4, <1>6, <2>1, NullAssumption DEF FusedSides
<1> QED BY <1>2, <1>3, <1>4, <1>5, <1>6 DEF PairInv, SidesOf

\* Both sides are written with the match, and only deleted with it.
LEMMA PairStep ==
    ASSUME TableType, JobInv, \A k \in Keys : PairInv(k), [Next]_vars
    PROVE  \A k \in Keys : PairInv(k)'
<1> USE DEF PairInv, SidesOf
<1>1. CASE UNCHANGED <<matches, appearances>>
  BY <1>1
<1>2. CASE WriteMatchRow
  <2>1. PICK k \in Keys, row \in FileRows, source \in Sources :
              /\ Resolve(row.winner) \in Players /\ Resolve(row.loser) \in Players
              /\ Resolve(row.winner) # Resolve(row.loser)
              /\ PairOf[k] = {Resolve(row.winner), Resolve(row.loser)}
              /\ matches' = [matches EXCEPT ![k] = UpsertedMatch(@, source, row)]
              /\ appearances' = [appearances EXCEPT ![k] = UpsertedSides(@, row)]
    BY <1>2, WrittenRow
  <2>2. ASSUME NEW j \in Keys, j # k
        PROVE  PairInv(j)'
    BY <2>1, <2>2 DEF TableType
  <2>3. matches'[k].winner = Resolve(row.winner)
    BY <2>1 DEF TableType, UpsertedMatch
  <2>4. ASSUME NEW p \in PairOf[k]
        PROVE  p \in Players /\ appearances'[k][p] # Null
    <3> DEFINE new == UpsertedSides(appearances[k], row)
    <3>1. appearances[k] \in [Players -> Side \cup {Null}]
      BY DEF TableType
    <3>2. /\ new[Resolve(row.winner)] = [won |-> TRUE, stats |-> ParsedStats(row.wstats)]
          /\ new[Resolve(row.loser)] = [won |-> FALSE, stats |-> ParsedStats(row.lstats)]
      BY <2>1, <3>1, UpsertedSidesFacts
    <3>3. ParsedStats(row.wstats) \in Stats /\ ParsedStats(row.lstats) \in Stats
      BY DEF ParsedStats, Stats
    <3>5. appearances'[k] = new
      BY <2>1 DEF TableType
    <3>6. p = Resolve(row.winner) \/ p = Resolve(row.loser)
      BY <2>1, <2>4
    <3> HIDE DEF new
    <3>7. \A won \in BOOLEAN, stats \in Stats : [won |-> won, stats |-> stats] \in Side
      BY DEF Side
    <3>8. TRUE \in BOOLEAN /\ FALSE \in BOOLEAN
      OBVIOUS
    <3>9. new[Resolve(row.winner)] \in Side /\ new[Resolve(row.loser)] \in Side
      BY <3>2, <3>3, <3>7, <3>8, Zenon
    <3>4. new[p] \in Side
      BY <3>6, <3>9, Zenon
    <3> QED BY <2>1, <3>4, <3>5, NullAssumption
  <2>5. PairInv(k)'
    BY <2>1, <2>3, <2>4
  <2> QED BY <2>2, <2>5
<1>3. CASE EndMatchFile
  BY <1>1, <1>3 DEF EndMatchFile, RecordMatchFile
<1>4. CASE PruneStage
  <2>1. Prune
    BY <1>4 DEF PruneStage
  <2>2. ASSUME NEW k \in Keys, matches'[k] # Null
        PROVE  matches[k] # Null /\ matches'[k].winner = matches[k].winner
    <3>1. k \notin Collapsed
      BY <2>1, <2>2 DEF Prune
    <3>2. matches'[k] = IF ClearedSides(k) # appearances[k]
                        THEN [matches[k] EXCEPT !.detailed = FALSE] ELSE matches[k]
      BY <2>1, <3>1 DEF Prune
    <3>3. matches[k] # Null
      <4>1. ASSUME matches[k] = Null
            PROVE  ClearedSides(k) = appearances[k]
        BY <4>1 DEF TableType, ClearedSides, NoSides, WithoutStats
      <4> QED BY <2>2, <3>2, <4>1
    <3>4. matches[k] \in MatchRow
      BY <3>3 DEF TableType
    <3>5. [matches[k] EXCEPT !.detailed = FALSE].winner = matches[k].winner
      BY <3>4 DEF MatchRow
    <3> QED BY <3>2, <3>3, <3>5
  <2>3. ASSUME NEW k \in Keys, matches'[k] # Null, NEW p \in Players, appearances[k][p] # Null
        PROVE  appearances'[k][p] # Null
    <3>1. k \notin Collapsed
      BY <2>1, <2>3 DEF Prune
    <3>2. appearances'[k][p] = WithoutStats(appearances[k][p])
      BY <2>1, <3>1 DEF Prune, ClearedSides
    <3>3. appearances[k][p] \in Side
      BY <2>3 DEF TableType
    <3>4. WithoutStats(appearances[k][p]) \in Side
      BY <3>3 DEF WithoutStats, Side, Stats
    <3> QED BY <3>2, <3>4, NullAssumption
  <2> QED BY <2>2, <2>3
<1>5. CASE RefreshStage
  <2>1. CASE UNCHANGED <<matches, appearances>>
    BY <1>1, <2>1
  <2>2. CASE DerivePage(job.force)
    <3>1. /\ appearances' = appearances
          /\ \A k \in Keys : \/ matches'[k] = matches[k]
                             \/ \E d : matches[k] # Null /\ matches'[k] = [matches[k] EXCEPT !.derived = d]
      BY <2>2, DerivedPageFacts
    <3>2. ASSUME NEW k \in Keys, NEW d, matches[k] # Null,
                 matches'[k] = [matches[k] EXCEPT !.derived = d]
          PROVE  matches'[k].winner = matches[k].winner
      <4>1. matches[k] \in MatchRow
        BY <3>2 DEF TableType
      <4> QED BY <3>2, <4>1 DEF MatchRow
    <3> QED BY <3>1, <3>2
  <2> QED BY <1>5, <2>1, <2>2, RefreshFacts
<1>6. CASE QuietTables
  BY <1>1, <1>6 DEF QuietTables
<1> QED BY <1>2, <1>3, <1>4, <1>5, <1>6, TablesMove

\* Resolve: a row that resolves is of a match that is held, and of its players.
LEMMA AttachedRow ==
    ASSUME \A k \in Keys : PairInv(k), NEW m \in Charts, Reason(m) = Null
    PROVE  /\ RowOf(m) \in Keys /\ matches[RowOf(m)] # Null
           /\ \A name : PlayerOf(m, name) \in PairOf[RowOf(m)]
<1>1. Found(m) \subseteq Keys /\ Found(m) # {}
  BY ChartingAssumption DEF Reason, Found, Candidates, Held
<1>2. Found(m) \subseteq Held
  BY DEF Found, Candidates
<1>3. \A k \in Keys : Distance(m.day, PlayedOn[k]) \in Nat
  <2>1. ASSUME NEW day \in Nat, NEW start \in Nat
        PROVE  Distance(day, start) \in Nat
    BY DEF Distance, after
  <2> QED BY <2>1, ChartingAssumption
<1> DEFINE far(k) == Distance(m.day, PlayedOn[k])
           distances == {far(k) : k \in Found(m)}
<1>4. distances \subseteq Nat /\ distances # {}
  BY <1>1, <1>3
<1>5. PICK d \in distances : \A e \in distances : d <= e
  BY <1>4, MinOfNumbers
<1>6. PICK k \in Found(m) : far(k) = d
  BY <1>5
<1>7. k \in Nearest(m)
  BY <1>5, <1>6 DEF Nearest
<1>8. RowOf(m) \in Nearest(m)
  BY <1>7 DEF RowOf
<1>9. RowOf(m) \in Keys /\ matches[RowOf(m)] # Null
  BY <1>1, <1>2, <1>8 DEF Nearest, Held
<1> DEFINE r == RowOf(m)
<1>10. PICK p \in Players, q \in Players : p # q /\ PairOf[r] = {p, q}
  BY <1>9, MatchStoreAssumption
<1>11. Winner(r) \in PairOf[r]
  BY <1>9 DEF PairInv, Winner
<1> HIDE DEF r
<1>12. Loser(r) \in PairOf[r]
  BY <1>10 DEF Loser
<1> QED BY <1>9, <1>11, <1>12 DEF PlayerOf, r

-----------------------------------------------------------------------------
(* What moves the charted matches, and the loader.                         *)

\* A mirror publishes: a later version, or the file is gone.
PublishedCharts ==
    \/ chartServed' = chartServed
    \/ \E f \in ChartFiles :
          /\ chartServed[f] # Null
          /\ \E v \in {Null, chartServed[f] + 1} \cap ({Null} \cup Versions) :
                chartServed' = [chartServed EXCEPT ![f] = v]
\* A loader that has read nothing.
Fresh(loader) ==
    \E tags : loader \in {ChartIdle, [ChartIdle EXCEPT !.at = "matches", !.known = tags]}
NewLoader ==
    /\ UNCHANGED <<chartServed, chartTables>>
    /\ Fresh(ct') /\ ct'.known \in {ChartIdle.known, chartLedger}
    /\ ct'.at # "idle" => Doing("charting")' /\ job'.open
WaitingLoader == UNCHANGED <<chartServed, chartTables, ct>> /\ ct.at = "idle"
World == UNCHANGED <<chartTables, ct, job, matches>> /\ PublishedCharts

\* StartRun and FinishRun: a loader begins as its run is opened.
LEMMA LoaderStarts ==
    ASSUME JobInv, PlaceInv, StartRun \/ FinishRun \/ StageFails \/ Interrupted
    PROVE  NewLoader \/ WaitingLoader
<1> USE DEF NewLoader, WaitingLoader, Fresh
<1>1. CASE StageFails \/ Interrupted \/ FinishRun
  <2>1. UNCHANGED <<chartServed, chartTables>> /\ ct' = ChartIdle
    BY <1>1 DEF StageFails, Interrupted, Abandon, FinishRun
  <2>2. ChartIdle.at = "idle"
    BY DEF ChartIdle
  <2> QED BY <2>1, <2>2
<1>2. CASE StartRun
  <2>1. job \in Jobs /\ ~job.open
    BY <1>2 DEF StartRun, JobInv, JobType
  <2>2. ct.at = "idle"
    BY <2>1 DEF PlaceInv
  <2>3. CASE Step # "charting"
    BY <1>2, <2>2, <2>3 DEF StartRun, chartVars
  <2>4. CASE Step = "charting"
    <3>1. UNCHANGED <<chartServed, chartTables>> /\ ChartStart(job.force)
      BY <1>2, <2>4 DEF StartRun, ChartStart
    <3>2. PICK tags \in {ChartIdle.known, chartLedger} :
             ct' = [ChartIdle EXCEPT !.at = "matches", !.known = tags]
      BY <3>1 DEF ChartStart
    <3>3. ct'.known = tags
      BY <3>2 DEF ChartIdle
    <3>4. job'.todo = job.todo /\ job'.open = TRUE /\ ~Idle
      BY <1>2, <2>1 DEF StartRun, Jobs
    <3>5. Doing("charting")'
      BY <2>4, <3>4 DEF Doing, Step, Idle
    <3> QED BY <3>1, <3>2, <3>3, <3>4, <3>5
  <2> QED BY <2>3, <2>4
<1> QED BY <1>1, <1>2

\* Nothing but the stage itself, and the deletion of its match, changes what is attached.
LEMMA ChartMoves ==
    ASSUME JobInv, PlaceInv, [Next]_vars
    PROVE  ChartingStage \/ World \/ WaitingLoader \/ NewLoader \/ (PruneStage /\ ct.at = "idle")
<1> USE DEF chartVars, chartTables
<1>1. CASE Publish \/ UNCHANGED vars
  BY <1>1 DEF Publish, World, PublishedCharts, vars, jobVars, matchVars, tables
<1>2. CASE StartRun \/ FinishRun \/ StageFails \/ Interrupted
  BY <1>2, LoaderStarts
<1>3. CASE Weekly \/ ByHand
  <2>1. Idle /\ UNCHANGED chartVars
    BY <1>3 DEF Weekly, ByHand, Launch
  <2> QED BY <2>1 DEF WaitingLoader, PlaceInv, Doing
<1>4. CASE SkipStage
  <2>1. UNCHANGED chartVars /\ ~Configured(Step)
    BY <1>4 DEF SkipStage
  <2>2. ct.at = "idle"
    BY <2>1 DEF JobInv, Control, PlaceInv
  <2> QED BY <2>1, <2>2 DEF WaitingLoader
<1>5. CASE SkipMatchFile \/ OpenMatchFile \/ WriteMatchRow \/ EndMatchFile
  <2>1. UNCHANGED chartVars /\ Doing("matches")
    BY <1>5 DEF SkipMatchFile, OpenMatchFile, WriteMatchRow, EndMatchFile, InMatches, othersOfMatches
  <2> QED BY <2>1 DEF WaitingLoader, PlaceInv, Doing
<1>6. CASE ReferenceStage \/ PlayersCutShort
  <2>1. UNCHANGED chartVars /\ Doing("reference")
    BY <1>6 DEF ReferenceStage, PlayersCutShort
  <2> QED BY <2>1 DEF WaitingLoader, PlaceInv, Doing
<1>7. CASE Merge \/ Reconciled \/ EventsStage \/ RefreshStage
  <2>1. UNCHANGED chartVars
    BY <1>7 DEF Merge, Reconciled, EventsStage, RefreshStage
  <2>2. ct.at = "idle"
    BY <1>7 DEF Merge, Reconciled, EventsStage, RefreshStage, PlaceInv, Doing
  <2> QED BY <2>1, <2>2 DEF WaitingLoader
<1>8. CASE PruneStage
  BY <1>8 DEF PruneStage, PlaceInv, Doing
<1> QED BY <1>1, <1>2, <1>3, <1>4, <1>5, <1>6, <1>7, <1>8 DEF Next, Work

-----------------------------------------------------------------------------
(* The steps of a load that are not the stage's.                           *)

\* Resolve reads the matches, and nothing else that changes.
LEMMA SameResolution ==
    ASSUME matches' = matches, NEW m
    PROVE  Reason(m)' = Reason(m) /\ RowOf(m)' = RowOf(m)
BY DEF Reason, RowOf, Nearest, Found, Candidates, SamePair, Winner, Loser, Held

\* The loader is one of its kind, when it begins and when it is over.
LEMMA FreshLoader ==
    ASSUME ChartType, NewLoader
    PROVE  /\ ct' \in Loaders /\ ct'.at \in {"idle", "matches"} /\ ct'.lost = {} /\ ct'.years = {}
           /\ \A f \in ChartFiles : ct'.body[f] = Null /\ ct'.tag[f] = Null
<1>1. ChartIdle \in Loaders /\ ChartIdle.known \in ChartVersions
  BY DEF ChartIdle, Loaders, ChartPlaces, ChartVersions
<1>2. ASSUME NEW tags \in ChartVersions
      PROVE  [ChartIdle EXCEPT !.at = "matches", !.known = tags] \in Loaders
  BY <1>1 DEF Loaders, ChartPlaces
<1>3. PICK tags : ct' \in {ChartIdle, [ChartIdle EXCEPT !.at = "matches", !.known = tags]}
  BY DEF NewLoader, Fresh
<1>4. CASE ct' = ChartIdle
  BY <1>1, <1>4 DEF ChartIdle
<1>5. CASE ct' = [ChartIdle EXCEPT !.at = "matches", !.known = tags]
  <2>1. ct'.known = tags
    BY <1>5 DEF ChartIdle
  <2>2. tags \in ChartVersions
    BY <1>1, <2>1 DEF NewLoader, ChartType
  <2>3. ct' \in Loaders
    BY <1>2, <1>5, <2>2
  <2> QED BY <1>5, <2>3 DEF ChartIdle
<1> QED BY <1>3, <1>4, <1>5

\* A mirror that publishes serves nothing earlier than before.
LEMMA LaterVersions ==
    ASSUME ChartType, PublishedCharts, NEW f \in ChartFiles
    PROVE  /\ chartServed' \in ChartVersions
           /\ chartServed'[f] = chartServed[f] \/ chartServed'[f] = Null
              \/ (chartServed[f] # Null /\ chartServed[f] < chartServed'[f])
<1>1. CASE chartServed' = chartServed
  BY <1>1 DEF ChartType
<1>2. ASSUME NEW g \in ChartFiles, NEW v \in {Null, chartServed[g] + 1} \cap ({Null} \cup Versions),
             chartServed[g] # Null, chartServed' = [chartServed EXCEPT ![g] = v]
      PROVE  /\ chartServed' \in ChartVersions
             /\ chartServed'[f] = chartServed[f] \/ chartServed'[f] = Null
                \/ (chartServed[f] # Null /\ chartServed[f] < chartServed'[f])
  <2>1. chartServed \in ChartVersions
    BY DEF ChartType
  <2>2. chartServed[g] \in Nat
    BY <1>2, <2>1, ChartingAssumption DEF ChartVersions
  <2>3. chartServed' \in ChartVersions
    BY <1>2, <2>1 DEF ChartVersions
  <2>4. CASE f # g
    BY <1>2, <2>1, <2>3, <2>4 DEF ChartVersions
  <2>5. CASE f = g
    <3>1. chartServed'[f] = v
      BY <1>2, <2>1, <2>5 DEF ChartVersions
    <3>2. v = Null \/ v = chartServed[f] + 1
      BY <1>2, <2>5
    <3> QED BY <1>2, <2>2, <2>3, <2>5, <3>1, <3>2
  <2> QED BY <2>4, <2>5
<1> QED BY <1>1, <1>2 DEF PublishedCharts

\* A mirror that publishes leaves what the ledger covers as current as it was.
LEMMA PublishKeeps ==
    ASSUME ChartInv, World, \A k \in Keys : PairInv(k)'
    PROVE  ChartInv'
<1>1. UNCHANGED <<chartLedger, charted, chartUnresolved, ct, job, matches>>
  BY DEF World, chartTables
<1>2. ChartType'
  BY <1>1, LaterVersions DEF ChartInv, ChartType, World, ChartFiles
<1>3. \A f \in ChartFiles : OrderOfVersions(f)'
  <2> TAKE f \in ChartFiles
  <2>1. /\ chartServed'[f] = chartServed[f] \/ chartServed'[f] = Null
           \/ (chartServed[f] # Null /\ chartServed[f] < chartServed'[f])
    BY LaterVersions DEF ChartInv, World
  <2>2. OrderOfVersions(f)
    BY DEF ChartInv
  <2>3. /\ chartLedger[f] \in Nat \cup {Null} /\ ct.body[f] \in Nat \cup {Null}
        /\ chartServed[f] \in Nat \cup {Null} /\ chartServed'[f] \in Nat \cup {Null}
    BY <1>2, ChartingAssumption DEF ChartInv, ChartType, ChartVersions, Loaders
  <2> QED BY <1>1, <2>1, <2>2, <2>3, NullAssumption DEF OrderOfVersions, AtMost
<1>4. SkippedChartingIsCurrent'
  <2>1. ASSUME \A f \in ChartFiles : chartLedger[f] # Null /\ chartLedger[f] = chartServed'[f]
        PROVE  \A f \in ChartFiles : chartLedger[f] = chartServed[f]
    <3> TAKE f \in ChartFiles
    <3>1. /\ chartServed'[f] = chartServed[f] \/ chartServed'[f] = Null
             \/ (chartServed[f] # Null /\ chartServed[f] < chartServed'[f])
      BY LaterVersions DEF ChartInv, World
    <3>2. AtMost(chartLedger[f], chartServed[f])
      BY DEF ChartInv, OrderOfVersions
    <3>3. chartLedger[f] \in Nat \cup {Null} /\ chartServed[f] \in Nat \cup {Null}
      BY ChartingAssumption DEF ChartInv, ChartType, ChartVersions
    <3> QED BY <2>1, <3>1, <3>2, <3>3 DEF AtMost
  <2> QED BY <1>1, <2>1 DEF ChartInv, SkippedChartingIsCurrent
<1>5. PlaceInv'
  BY <1>1 DEF ChartInv, PlaceInv, Sorting, Sorted, BothRead, Doing, Idle
<1>6. AttachedInv' /\ LostInv' /\ AccountedInv' /\ CurrentInv'
  <2>1. \A m \in Charts : Reason(m)' = Reason(m) /\ RowOf(m)' = RowOf(m)
    BY <1>1, SameResolution
  <2>2. AttachedInv'
    BY <1>1 DEF ChartInv, AttachedInv, Because
  <2>3. LostInv'
    BY <1>1, SameResolution DEF ChartInv, LostInv, Sorting, Passed, ChartFile
  <2>4. AccountedInv'
    BY <1>1, SameResolution DEF ChartInv, AccountedInv, Sorting, Sorted, BothRead, Passed, ChartFile,
       Lost, Explained
  <2>5. CurrentInv'
    BY <1>1 DEF ChartInv, CurrentInv, Sorting, Passed, ChartFile, Lost
  <2> QED BY <2>2, <2>3, <2>4, <2>5
<1> QED BY <1>1, <1>2, <1>3, <1>4, <1>5, <1>6 DEF ChartInv

\* Between two stages only the prune takes charted matches away, with their matches.
LEMMA WaitingKeeps ==
    ASSUME TableType, JobInv, ChartInv, [Next]_vars, \A k \in Keys : PairInv(k)',
           WaitingLoader \/ NewLoader \/ (PruneStage /\ ct.at = "idle")
    PROVE  ChartInv'
<1>1. /\ UNCHANGED <<chartServed, chartLedger, chartUnresolved>>
      /\ ct'.at \in {"idle", "matches"} /\ ct' \in Loaders /\ ct'.lost = {}
      /\ \/ ct' = ct /\ ct.at = "idle"
         \/ /\ \A f \in ChartFiles : ct'.body[f] = Null /\ ct'.tag[f] = Null
            /\ ct'.at # "idle" => Doing("charting")' /\ job'.open
  <2>1. CASE WaitingLoader
    BY <2>1 DEF WaitingLoader, chartTables, ChartInv, ChartType, PlaceInv
  <2>2. CASE NewLoader
    BY <2>2, FreshLoader DEF NewLoader, chartTables, ChartInv
  <2>3. CASE PruneStage /\ ct.at = "idle"
    BY <2>3 DEF PruneStage, ChartInv, ChartType, PlaceInv
  <2> QED BY <2>1, <2>2, <2>3
<1>2. /\ charted' \in [Keys -> Attachments \cup {Null}]
      /\ \A k \in Keys : charted'[k] # Null => charted'[k] = charted[k] /\ charted[k] # Null
      /\ \A k \in Keys : charted'[k] # Null => matches'[k] # Null
  <2>1. \A k \in Keys : charted[k] # Null => matches[k] # Null
    BY DEF ChartInv, AttachedInv
  <2>2. CASE PruneStage
    <3>1. charted' = [k \in Keys |-> IF matches'[k] = Null THEN Null ELSE charted[k]]
      BY <2>2 DEF PruneStage, Cascade
    <3> QED BY <3>1 DEF ChartInv, ChartType
  <2>3. CASE ~PruneStage
    <3>1. charted' = charted
      BY <2>3 DEF WaitingLoader, NewLoader, chartTables
    <3>2. \A k \in Keys : matches[k] # Null => matches'[k] # Null
      BY <2>3, HeldGrows
    <3> QED BY <2>1, <3>1, <3>2 DEF ChartInv, ChartType
  <2> QED BY <2>2, <2>3
<1>3. ChartType'
  BY <1>1, <1>2 DEF ChartInv, ChartType
<1>4. PlaceInv'
  BY <1>1 DEF ChartInv, PlaceInv, Sorting, Sorted, BothRead, ChartFiles
<1>5. \A f \in ChartFiles : OrderOfVersions(f)'
  BY <1>1 DEF ChartInv, OrderOfVersions, AtMost
<1>6. AttachedInv'
  BY <1>1, <1>2 DEF ChartInv, AttachedInv
<1>7. LostInv' /\ AccountedInv' /\ CurrentInv'
  BY <1>1 DEF LostInv, AccountedInv, CurrentInv, Sorting, Sorted
<1>8. SkippedChartingIsCurrent'
  BY <1>1, <1>2 DEF ChartInv, SkippedChartingIsCurrent
<1> QED BY <1>3, <1>4, <1>5, <1>6, <1>7, <1>8 DEF ChartInv

-----------------------------------------------------------------------------
(* The steps of the stage.                                                 *)

\* open: a file is left alone, or its version is read with its validator.
LEMMA OpenedChart ==
    ASSUME ChartType, OpenChart,
           NEW f, f = ct.at, NEW next, next = IF f = "matches" THEN "stats" ELSE "reopen"
    PROVE  /\ f \in ChartFiles /\ ct' \in Loaders
           /\ ct'.lost = ct.lost /\ ct'.years = ct.years
           /\ \/ ct'.at \in {"done", next} /\ ct'.body = ct.body /\ ct'.tag = ct.tag
              \/ /\ chartServed[f] # Null /\ ct'.at = next
                 /\ ct'.body = [ct.body EXCEPT ![f] = chartServed[f]]
                 /\ ct'.tag = [ct.tag EXCEPT ![f] = chartServed[f]]
<1>1. f \in ChartFiles /\ ct \in Loaders /\ chartServed[f] \in Versions \cup {Null}
  BY DEF OpenChart, ChartType, ChartVersions
<1>2. {"done", next} \subseteq ChartPlaces
  BY DEF ChartPlaces
<1>3. ASSUME NEW at \in ChartPlaces
      PROVE  LET new == [ct EXCEPT !.at = at] IN
             /\ new \in Loaders /\ new.at = at /\ new.body = ct.body /\ new.tag = ct.tag
             /\ new.lost = ct.lost /\ new.years = ct.years
  BY <1>1 DEF Loaders
<1> DEFINE Read(at, body, tag) == [ct EXCEPT !.at = at, !.body = body, !.tag = tag]
<1>4. ASSUME NEW at \in ChartPlaces, NEW body \in ChartVersions, NEW tag \in ChartVersions
      PROVE  /\ Read(at, body, tag) \in Loaders
             /\ Read(at, body, tag).at = at
             /\ Read(at, body, tag).body = body /\ Read(at, body, tag).tag = tag
             /\ Read(at, body, tag).lost = ct.lost /\ Read(at, body, tag).years = ct.years
  BY <1>1 DEF Loaders
<1> DEFINE version == chartServed[f]
           b == [ct.body EXCEPT ![f] = version]
           t == [ct.tag EXCEPT ![f] = version]
<1>5. b \in ChartVersions /\ t \in ChartVersions
  BY <1>1 DEF Loaders, ChartVersions
<1>6. [ct EXCEPT !.at = next, !.body[f] = version, !.tag[f] = version]
        = Read(next, b, t)
  BY <1>1 DEF Loaders
<1>7. \/ ct' = [ct EXCEPT !.at = "done"]
      \/ ct' = [ct EXCEPT !.at = next]
      \/ version # Null /\ ct' = [ct EXCEPT !.at = next, !.body[f] = version, !.tag[f] = version]
  BY DEF OpenChart
<1> HIDE DEF version, b, t, Read
<1>8. CASE ct' = [ct EXCEPT !.at = "done"]
  BY <1>1, <1>2, <1>3, <1>8
<1>9. CASE ct' = [ct EXCEPT !.at = next]
  BY <1>1, <1>2, <1>3, <1>9
<1>10. CASE version # Null /\ ct' = Read(next, b, t)
  <2>1. next \in ChartPlaces
    BY <1>2
  <2>2. /\ ct' \in Loaders /\ ct'.at = next /\ ct'.body = b /\ ct'.tag = t
        /\ ct'.lost = ct.lost /\ ct'.years = ct.years
    BY <1>4, <1>5, <1>10, <2>1
  <2> QED BY <1>1, <1>10, <2>2 DEF version, b, t
<1> QED BY <1>6, <1>7, <1>8, <1>9, <1>10

\* load: the other file is read as it is served, without a validator.
LEMMA ReopenedChart ==
    ASSUME ChartType, PlaceInv, Reopen
    PROVE  /\ ct.at = "reopen" /\ ct' \in Loaders /\ ct'.lost = ct.lost /\ ct'.tag = ct.tag
           /\ \/ ct'.at = "failed" /\ ct'.body = ct.body
              \/ /\ ct'.at = "years"
                 /\ \A f \in ChartFiles : /\ ct'.body[f] # Null
                                          /\ ct'.body[f] \in {ct.body[f], chartServed[f]}
                                          /\ ct.body[f] # Null => ct'.body[f] = ct.body[f]
                 /\ ct'.years = {YearOf[m.day] : m \in Range(ChartRows[ct'.body["matches"]])}
<1> DEFINE body == [f \in ChartFiles |-> IF ct.body[f] = Null THEN chartServed[f] ELSE ct.body[f]]
           years == {YearOf[m.day] : m \in Range(ChartRows[body["matches"]])}
<1>1. ct.at = "reopen" /\ ct \in Loaders
  BY DEF Reopen, ChartType
<1>2. body \in ChartVersions
  BY <1>1 DEF ChartType, ChartVersions, Loaders
<1>3. ASSUME \A f \in ChartFiles : body[f] # Null
      PROVE  years \subseteq {YearOf[m.day] : m \in Charts}
  <2>1. body["matches"] \in Versions
    BY <1>2, <1>3 DEF ChartVersions, ChartFiles
  <2> QED BY <2>1 DEF Charts
<1>4. ASSUME NEW at \in ChartPlaces, NEW b \in ChartVersions,
             NEW y \in SUBSET {YearOf[m.day] : m \in Charts}
      PROVE  /\ [ct EXCEPT !.at = at] \in Loaders
             /\ [ct EXCEPT !.at = at, !.body = b, !.years = y] \in Loaders
  BY <1>1 DEF Loaders
<1>5. IF \E f \in ChartFiles : body[f] = Null THEN ct' = [ct EXCEPT !.at = "failed"]
      ELSE ct' = [ct EXCEPT !.at = "years", !.body = body, !.years = years]
  BY DEF Reopen
<1>6. "failed" \in ChartPlaces /\ "years" \in ChartPlaces
  BY DEF ChartPlaces
<1>7. \A f \in ChartFiles : /\ body[f] \in {ct.body[f], chartServed[f]}
                            /\ ct.body[f] # Null => body[f] = ct.body[f]
  OBVIOUS
<1>8. CASE \E f \in ChartFiles : body[f] = Null
  <2>1. ct' = [ct EXCEPT !.at = "failed"]
    BY <1>5, <1>8
  <2>2. ct' \in Loaders
    BY <1>2, <1>4, <1>6, <2>1
  <2> HIDE DEF body
  <2> QED BY <1>1, <2>1, <2>2 DEF Loaders
<1>9. CASE \A f \in ChartFiles : body[f] # Null
  <2>1. ct' = [ct EXCEPT !.at = "years", !.body = body, !.years = years]
    BY <1>5, <1>9
  <2> HIDE DEF body
  <2>2. years \in SUBSET {YearOf[m.day] : m \in Charts}
    BY <1>3, <1>9
  <2> HIDE DEF years
  <2>3. ct' \in Loaders
    BY <1>2, <1>4, <1>6, <2>1, <2>2
  <2>4. ct'.at = "years" /\ ct'.body = body /\ ct'.years = years /\ ct'.lost = ct.lost
        /\ ct'.tag = ct.tag
    BY <1>1, <2>1 DEF Loaders
  <2>5. \A f \in ChartFiles : /\ ct'.body[f] # Null
                              /\ ct'.body[f] \in {ct.body[f], chartServed[f]}
                              /\ ct.body[f] # Null => ct'.body[f] = ct.body[f]
    BY <1>7, <1>9, <2>4
  <2>6. ct'.years = {YearOf[m.day] : m \in Range(ChartRows[ct'.body["matches"]])}
    BY <2>4 DEF years
  <2> QED BY <1>1, <2>3, <2>4, <2>5, <2>6
<1> QED BY <1>8, <1>9

\* What the loader reads is what is served: nothing is written yet.
LEMMA ReadingKeeps ==
    ASSUME ChartInv, OpenChart \/ SkipCharting \/ Reopen, UNCHANGED <<job, matches, appearances>>
    PROVE  ChartInv'
<1>1. UNCHANGED <<chartServed, chartLedger, charted, chartUnresolved>>
  BY DEF OpenChart, SkipCharting, Reopen, chartTables
<1>2. ChartType /\ PlaceInv
  BY DEF ChartInv
<1>3. /\ ct.at \in {"matches", "stats", "reopen"} /\ ct.lost = {}
      /\ ct' \in Loaders /\ ct'.lost = {}
      /\ \A f \in ChartFiles : ct'.body[f] \in {ct.body[f], chartServed[f]}
      /\ \A f \in ChartFiles : ct'.tag[f] # Null => ct'.tag[f] = ct'.body[f]
      /\ \/ /\ ct'.at \in {"stats", "reopen", "done", "failed"}
            /\ ct'.at = "stats" => ct'.body["stats"] = Null
            /\ ct'.at = "done" => \E f \in ChartFiles : ct'.body[f] = Null
         \/ /\ ct'.at = "years" /\ \A f \in ChartFiles : ct'.body[f] # Null
            /\ ct'.years = {YearOf[m.day] : m \in Range(ChartRows[ct'.body["matches"]])}
  <2>1. ct \in Loaders /\ ct.body \in ChartVersions /\ ct.tag \in ChartVersions
    BY <1>2 DEF ChartType, Loaders
  <2>2. CASE OpenChart
    <3> DEFINE next == IF ct.at = "matches" THEN "stats" ELSE "reopen"
    <3>1. /\ ct.at \in ChartFiles /\ ct' \in Loaders
          /\ ct'.lost = ct.lost /\ ct'.years = ct.years
          /\ \/ ct'.at \in {"done", next} /\ ct'.body = ct.body /\ ct'.tag = ct.tag
             \/ /\ chartServed[ct.at] # Null /\ ct'.at = next
                /\ ct'.body = [ct.body EXCEPT ![ct.at] = chartServed[ct.at]]
                /\ ct'.tag = [ct.tag EXCEPT ![ct.at] = chartServed[ct.at]]
      BY <1>2, <2>2, OpenedChart
    <3>2. ct.lost = {} /\ ct.body["stats"] = Null
      BY <1>2, <3>1 DEF PlaceInv, ChartFiles
    <3>3. \A f \in ChartFiles : ct.tag[f] # Null => ct.tag[f] = ct.body[f]
      BY <1>2 DEF PlaceInv
    <3>4. CASE ct'.at \in {"done", next} /\ ct'.body = ct.body /\ ct'.tag = ct.tag
      BY <3>1, <3>2, <3>3, <3>4 DEF ChartFiles
    <3>5. CASE /\ chartServed[ct.at] # Null /\ ct'.at = next
               /\ ct'.body = [ct.body EXCEPT ![ct.at] = chartServed[ct.at]]
               /\ ct'.tag = [ct.tag EXCEPT ![ct.at] = chartServed[ct.at]]
      BY <2>1, <3>1, <3>2, <3>3, <3>5 DEF ChartFiles, ChartVersions
    <3> QED BY <3>1, <3>4, <3>5
  <2>3. CASE SkipCharting
    <3>1. ct' = [ct EXCEPT !.at = "done"] /\ ct.at = "reopen" /\ \A f \in ChartFiles : ct.body[f] = Null
      BY <2>3 DEF SkipCharting
    <3>2. ct' \in Loaders /\ ct'.at = "done" /\ ct'.body = ct.body /\ ct'.tag = ct.tag /\ ct'.lost = ct.lost
      BY <2>1, <3>1 DEF Loaders, ChartPlaces
    <3> QED BY <1>2, <3>1, <3>2 DEF PlaceInv, ChartFiles
  <2>4. CASE Reopen
    <3>1. /\ ct.at = "reopen" /\ ct' \in Loaders /\ ct'.lost = ct.lost /\ ct'.tag = ct.tag
          /\ \/ ct'.at = "failed" /\ ct'.body = ct.body
             \/ /\ ct'.at = "years"
                /\ \A f \in ChartFiles : /\ ct'.body[f] # Null
                                         /\ ct'.body[f] \in {ct.body[f], chartServed[f]}
                                         /\ ct.body[f] # Null => ct'.body[f] = ct.body[f]
                /\ ct'.years = {YearOf[m.day] : m \in Range(ChartRows[ct'.body["matches"]])}
      BY <1>2, <2>4, ReopenedChart
    <3>2. ct.lost = {} /\ \A f \in ChartFiles : ct.tag[f] # Null => ct.tag[f] = ct.body[f]
      BY <1>2, <3>1 DEF PlaceInv
    <3> QED BY <3>1, <3>2
  <2> QED BY <2>2, <2>3, <2>4
<1>4. ChartType'
  BY <1>1, <1>2, <1>3 DEF ChartType
<1>5. PlaceInv'
  <2>1. Doing("charting")' /\ job'.open
    BY <1>2, <1>3 DEF PlaceInv, Doing, Idle
  <2> QED BY <1>3, <2>1 DEF PlaceInv, Sorting, Sorted, BothRead
<1>6. \A f \in ChartFiles : OrderOfVersions(f)'
  <2> TAKE f \in ChartFiles
  <2>1. OrderOfVersions(f) /\ ct'.body[f] \in {ct.body[f], chartServed[f]}
    BY <1>3 DEF ChartInv
  <2>2. chartServed[f] \in Nat \cup {Null}
    BY <1>2, ChartingAssumption DEF ChartType, ChartVersions
  <2> QED BY <1>1, <2>1, <2>2, NullAssumption DEF OrderOfVersions, AtMost
<1>7. (\A k \in Keys : PairInv(k))' /\ SkippedChartingIsCurrent'
  BY <1>1 DEF ChartInv, PairInv, SidesOf, SkippedChartingIsCurrent
<1>8. AttachedInv'
  BY <1>1, <1>3 DEF ChartInv, AttachedInv
<1>9. LostInv' /\ AccountedInv' /\ CurrentInv'
  <2>1. CASE ~Sorting'
    BY <1>3, <2>1 DEF LostInv, AccountedInv, CurrentInv, Sorting, Sorted, BothRead
  <2>2. CASE Sorting'
    <3>1. ct'.at = "years" /\ ct'.lost = {}
          /\ ct'.years = {YearOf[m.day] : m \in ChartFile'}
      BY <1>3, <2>2 DEF Sorting, ChartFile
    <3>2. Passed' = {}
      BY <3>1 DEF Passed
    <3> QED BY <3>1, <3>2 DEF LostInv, AccountedInv, CurrentInv
  <2> QED BY <2>1, <2>2
<1> QED BY <1>4, <1>5, <1>6, <1>7, <1>8, <1>9 DEF ChartInv

\* The rows of a year: those that are attached, and those that are lost.
YearBatch(year) == {m \in ChartFile : YearOf[m.day] = year /\ Reason(m) = Null}
YearLost(year) == {m \in ChartFile : YearOf[m.day] = year /\ Reason(m) # Null}

\* Two rows of a file have two ids, and a row is one of the files'.
LEMMA FileRowsDiffer ==
    ASSUME ChartType, ct.body["matches"] # Null
    PROVE  /\ ct.body["matches"] \in Versions
           /\ ChartFile \subseteq Charts
           /\ \A m, n \in ChartFile : m.id = n.id => m = n
           /\ DOMAIN ChartRows[ct.body["matches"]] \subseteq Nat
           /\ IsFiniteSet(DOMAIN ChartRows[ct.body["matches"]])
<1>1. ct.body["matches"] \in Versions
  BY DEF ChartType, Loaders, ChartVersions, ChartFiles
<1> DEFINE rows == ChartRows[ct.body["matches"]]
<1>2. rows \in Seq(Charts) /\ \A i, j \in DOMAIN rows : rows[i].id = rows[j].id => i = j
  BY <1>1, ChartingAssumption
<1>3. DOMAIN rows = 1 .. Len(rows) /\ Len(rows) \in Nat
  BY <1>2
<1>4. IsFiniteSet(1 .. Len(rows))
  BY <1>3, FS_Interval
<1>5. ChartFile \subseteq Charts /\ \A m, n \in ChartFile : m.id = n.id => m = n
  BY <1>2, <1>3 DEF ChartFile, Range
<1> QED BY <1>1, <1>3, <1>4, <1>5

\* FiguresOf: figures of the version read, of the two players.
LEMMA FiguresFacts ==
    ASSUME ChartInv, BothRead, NEW m \in Charts, Reason(m) = Null
    PROVE  LET new == [id |-> m.id, figures |-> FiguresOf(m)] IN
           /\ new \in Attachments /\ new # Null /\ new.id = m.id
           /\ DOMAIN new.figures \subseteq PairOf[RowOf(m)]
           /\ \A p \in DOMAIN new.figures : new.figures[p] = ct.body["stats"]
<1> DEFINE version == ct.body["stats"]
           given == IF m.id \in DOMAIN FigureNames[version] THEN FigureNames[version][m.id] ELSE {}
           ps == {PlayerOf(m, n) : n \in given \cap Range(m.names)}
<1>1. FiguresOf(m) = [p \in ps |-> version]
  BY DEF FiguresOf
<1>2. version \in Versions
  BY DEF ChartInv, ChartType, Loaders, ChartVersions, ChartFiles, BothRead
<1>3. RowOf(m) \in Keys /\ \A name : PlayerOf(m, name) \in PairOf[RowOf(m)]
  BY AttachedRow DEF ChartInv
<1>4. ps \subseteq PairOf[RowOf(m)] /\ PairOf[RowOf(m)] \subseteq Players
  BY <1>3, MatchStoreAssumption
<1> HIDE DEF ps, version, given
<1>5. FiguresOf(m) \in Figures
  BY <1>1, <1>2, <1>4 DEF Figures
<1>6. DOMAIN FiguresOf(m) = ps /\ \A p \in ps : FiguresOf(m)[p] = version
  BY <1>1
<1>7. [id |-> m.id, figures |-> FiguresOf(m)] \in Attachments
  BY <1>5 DEF Attachments
<1>8. [id |-> m.id, figures |-> FiguresOf(m)] # Null
  BY <1>7, ChartingAssumption
<1> QED BY <1>4, <1>6, <1>7, <1>8 DEF version

\* Store.Write: a row of the batch is attached to its match or gave it to a
\* later one, and what another row had is gone.
LEMMA WrittenYear ==
    ASSUME ChartInv, WriteYear
    PROVE  \E year :
              /\ ct.at = "years" /\ BothRead /\ year \in ct.years
              /\ ct' \in Loaders /\ ct'.at = "years" /\ ct'.body = ct.body /\ ct'.tag = ct.tag
              /\ ct'.years = ct.years \ {year}
              /\ ct'.lost = ct.lost \cup {[id |-> m.id, reason |-> Reason(m)] : m \in YearLost(year)}
              /\ chartUnresolved' = {x \in chartUnresolved : \A m \in YearBatch(year) : x.id # m.id}
              /\ charted' \in [Keys -> Attachments \cup {Null}]
              /\ \A k \in Keys :
                    \/ \E m \in YearBatch(year) :
                          /\ RowOf(m) = k /\ charted'[k] # Null /\ charted'[k].id = m.id
                          /\ DOMAIN charted'[k].figures \subseteq PairOf[k]
                          /\ \A p \in DOMAIN charted'[k].figures :
                                charted'[k].figures[p] = ct.body["stats"]
                    \/ /\ \A m \in YearBatch(year) : RowOf(m) # k
                       /\ IF charted[k] # Null /\ \E m \in YearBatch(year) : m.id = charted[k].id
                          THEN charted'[k] = Null ELSE charted'[k] = charted[k]
<1> DEFINE year == Min(ct.years)
           rows == ChartRows[ct.body["matches"]]
           batch == {i \in ChartedIn(year) : Reason(rows[i]) = Null}
<1>1. ct.at = "years" /\ BothRead /\ ChartType
  BY DEF WriteYear, ChartInv, PlaceInv, Sorting
<1>2. /\ ct.body["matches"] \in Versions /\ ChartFile \subseteq Charts
      /\ DOMAIN rows \subseteq Nat /\ IsFiniteSet(DOMAIN rows)
  BY <1>1, FileRowsDiffer DEF BothRead, ChartFiles
<1>3. YearBatch(year) = {rows[i] : i \in batch}
  BY DEF YearBatch, ChartFile, Range, ChartedIn
<1>4. YearLost(year) = {rows[i] : i \in ChartedIn(year) \ batch}
  BY DEF YearLost, ChartFile, Range, ChartedIn
<1>5. /\ charted' = Attached(rows, batch)
      /\ chartUnresolved' = {x \in chartUnresolved : x.id \notin {rows[i].id : i \in batch}}
      /\ ct' = [ct EXCEPT !.years = @ \ {year},
                          !.lost = @ \cup {[id |-> m.id, reason |-> Reason(m)] :
                                              m \in {rows[i] : i \in ChartedIn(year) \ batch}}]
  BY DEF WriteYear
<1>6. batch \subseteq Nat /\ IsFiniteSet(batch) /\ batch \subseteq DOMAIN rows
  BY <1>2, FS_Subset DEF ChartedIn
<1>7. YearBatch(year) \subseteq Charts /\ YearLost(year) \subseteq Charts
      /\ \A m \in YearBatch(year) : Reason(m) = Null
  BY <1>2 DEF YearBatch, YearLost
<1>12. year \in ct.years
  <2>1. ct.years \subseteq Nat /\ ct.years # {}
    <3>1. \A m \in Charts : YearOf[m.day] \in Nat
      BY ChartingAssumption
    <3>2. ct.years \subseteq {YearOf[m.day] : m \in Charts}
      BY <1>1 DEF ChartType, Loaders
    <3>3. ct.years # {}
      BY DEF WriteYear
    <3> QED BY <3>1, <3>2, <3>3
  <2>2. \E y \in ct.years : \A z \in ct.years : y <= z
    BY <2>1, MinOfNumbers
  <2> QED BY <2>2 DEF Min
<1> HIDE DEF year, rows, batch
<1>8. /\ ct' \in Loaders /\ ct'.at = "years" /\ ct'.body = ct.body /\ ct'.tag = ct.tag
      /\ ct'.years = ct.years \ {year}
      /\ ct'.lost = ct.lost \cup {[id |-> m.id, reason |-> Reason(m)] : m \in YearLost(year)}
  <2> DEFINE new == {[id |-> m.id, reason |-> Reason(m)] : m \in YearLost(year)}
  <2>1. new \subseteq Listed
    <3>1. ASSUME NEW m \in YearLost(year)
          PROVE  [id |-> m.id, reason |-> Reason(m)] \in Listed
      <4>1. m \in Charts
        BY <1>7
      <4>2. m.id \in ChartIds
        BY <4>1 DEF ChartIds
      <4>3. Reason(m) # Null
        BY DEF YearLost
      <4>4. Reason(m) \in Reasons
        BY <4>3 DEF Reason, Reasons
      <4> QED BY <4>2, <4>4 DEF Listed
    <3> QED BY <3>1
  <2>2. ct \in Loaders /\ ct' = [ct EXCEPT !.years = @ \ {year}, !.lost = @ \cup new]
    BY <1>1, <1>4, <1>5 DEF ChartType
  <2> HIDE DEF new
  <2>3. /\ ct' \in Loaders /\ ct'.at = ct.at /\ ct'.body = ct.body /\ ct'.tag = ct.tag
        /\ ct'.years = ct.years \ {year} /\ ct'.lost = ct.lost \cup new
    BY <2>1, <2>2 DEF Loaders
  <2> QED BY <1>1, <2>3 DEF new
<1>9. chartUnresolved' = {x \in chartUnresolved : \A m \in YearBatch(year) : x.id # m.id}
  BY <1>3, <1>5
<1>10. ASSUME NEW k \in Keys
       PROVE  /\ charted'[k] \in Attachments \cup {Null}
              /\ \/ \E m \in YearBatch(year) :
                          /\ RowOf(m) = k /\ charted'[k] # Null /\ charted'[k].id = m.id
                          /\ DOMAIN charted'[k].figures \subseteq PairOf[k]
                          /\ \A p \in DOMAIN charted'[k].figures :
                                charted'[k].figures[p] = ct.body["stats"]
                 \/ /\ \A m \in YearBatch(year) : RowOf(m) # k
                    /\ IF charted[k] # Null /\ \E m \in YearBatch(year) : m.id = charted[k].id
                       THEN charted'[k] = Null ELSE charted'[k] = charted[k]
  <2> DEFINE here == {i \in batch : RowOf(rows[i]) = k}
  <2>1. charted'[k] =
          IF here # {} THEN [id |-> rows[Max(here)].id, figures |-> FiguresOf(rows[Max(here)])]
          ELSE IF charted[k] # Null /\ charted[k].id \in {rows[i].id : i \in batch} THEN Null
          ELSE charted[k]
    BY <1>5 DEF Attached
  <2>2. CASE here # {}
    <3>1. Max(here) \in here
      BY <1>6, <2>2, MaxOfNumbers, FS_Subset
    <3>2. PICK m \in YearBatch(year) : m = rows[Max(here)] /\ RowOf(m) = k
      BY <1>3, <3>1
    <3>3. charted'[k] = [id |-> m.id, figures |-> FiguresOf(m)]
      BY <2>1, <2>2, <3>2
    <3>4. m \in Charts /\ Reason(m) = Null
      BY <1>7
    <3>5. /\ charted'[k] \in Attachments /\ charted'[k] # Null /\ charted'[k].id = m.id
          /\ DOMAIN charted'[k].figures \subseteq PairOf[RowOf(m)]
          /\ \A p \in DOMAIN charted'[k].figures : charted'[k].figures[p] = ct.body["stats"]
      BY <1>1, <3>3, <3>4, FiguresFacts
    <3> QED BY <3>2, <3>5
  <2>3. CASE here = {}
    <3>1. \A m \in YearBatch(year) : RowOf(m) # k
      BY <1>3, <2>3
    <3>2. (charted[k].id \in {rows[i].id : i \in batch}) <=> \E m \in YearBatch(year) : m.id = charted[k].id
      BY <1>3
    <3>3. charted[k] \in Attachments \cup {Null}
      BY <1>1 DEF ChartType
    <3> HIDE DEF here
    <3>4. charted'[k] = IF charted[k] # Null /\ \E m \in YearBatch(year) : m.id = charted[k].id
                        THEN Null ELSE charted[k]
      BY <2>1, <2>3, <3>2
    <3> QED BY <3>1, <3>3, <3>4
  <2> QED BY <2>2, <2>3
<1>11. charted' \in [Keys -> Attachments \cup {Null}]
  <2>1. charted' = [k \in Keys |-> charted'[k]]
    BY <1>5 DEF Attached
  <2> QED BY <1>10, <2>1
<1> QED BY <1>1, <1>8, <1>9, <1>10, <1>11, <1>12

\* A file that is recorded as it is served is the one that was read.
LEMMA RecordedIsRead ==
    ASSUME ChartInv, NEW f \in ChartFiles, ct.body[f] # Null,
           chartLedger[f] # Null, chartLedger[f] = chartServed[f]
    PROVE  ct.body[f] = chartLedger[f]
<1>1. AtMost(ct.body[f], chartServed[f]) /\ AtMost(chartLedger[f], ct.body[f])
  BY DEF ChartInv, OrderOfVersions
<1>2. ct.body[f] \in Nat /\ chartLedger[f] \in Nat
  BY ChartingAssumption DEF ChartInv, ChartType, ChartVersions, Loaders
<1> QED BY <1>1, <1>2 DEF AtMost

\* A year that is written is accounted for, and so are the years before it.
LEMMA YearKeeps ==
    ASSUME ChartInv, WriteYear, UNCHANGED <<job, matches, appearances>>
    PROVE  ChartInv'
<1>1. UNCHANGED <<chartServed, chartLedger>>
  BY DEF WriteYear
<1>2. PICK year :
        /\ ct.at = "years" /\ BothRead /\ year \in ct.years
        /\ ct' \in Loaders /\ ct'.at = "years" /\ ct'.body = ct.body /\ ct'.tag = ct.tag
        /\ ct'.years = ct.years \ {year}
        /\ ct'.lost = ct.lost \cup {[id |-> m.id, reason |-> Reason(m)] : m \in YearLost(year)}
        /\ chartUnresolved' = {x \in chartUnresolved : \A m \in YearBatch(year) : x.id # m.id}
        /\ charted' \in [Keys -> Attachments \cup {Null}]
        /\ \A k \in Keys :
              \/ \E m \in YearBatch(year) :
                    /\ RowOf(m) = k /\ charted'[k] # Null /\ charted'[k].id = m.id
                    /\ DOMAIN charted'[k].figures \subseteq PairOf[k]
                    /\ \A p \in DOMAIN charted'[k].figures :
                          charted'[k].figures[p] = ct.body["stats"]
              \/ /\ \A m \in YearBatch(year) : RowOf(m) # k
                 /\ IF charted[k] # Null /\ \E m \in YearBatch(year) : m.id = charted[k].id
                    THEN charted'[k] = Null ELSE charted'[k] = charted[k]
  BY WrittenYear
<1> DEFINE batch == YearBatch(year)
           missed == YearLost(year)
           FromBatch(k) == \E m \in batch :
                    /\ RowOf(m) = k /\ charted'[k] # Null /\ charted'[k].id = m.id
                    /\ DOMAIN charted'[k].figures \subseteq PairOf[k]
                    /\ \A p \in DOMAIN charted'[k].figures :
                          charted'[k].figures[p] = ct.body["stats"]
           Stays(k) == /\ charted'[k] = charted[k] /\ charted[k] # Null
                       /\ \A m \in batch : m.id # charted[k].id
<1>3. \A k \in Keys : charted'[k] # Null => FromBatch(k) \/ Stays(k)
  BY <1>2
<1>4. ct.years # {} /\ Sorting /\ ct'.years # ct.years
  BY <1>2 DEF Sorting
<1>5. /\ ChartFile' = ChartFile /\ ChartFile \subseteq Charts
      /\ \A m, n \in ChartFile : m.id = n.id => m = n
      /\ Passed' = Passed \cup batch \cup missed
      /\ \A m \in batch : m \in ChartFile /\ m \notin Passed /\ Reason(m) = Null
      /\ \A m \in missed : m \in ChartFile /\ m \notin Passed /\ Reason(m) # Null
      /\ Passed \subseteq ChartFile
  <2>1. ChartType /\ ct.body["matches"] # Null
    BY <1>2 DEF ChartInv, BothRead, ChartFiles
  <2>2. ChartFile' = ChartFile
    BY <1>2 DEF ChartFile
  <2>3. \A m \in ChartFile : m \in batch \cup missed <=> YearOf[m.day] = year
    BY DEF YearBatch, YearLost
  <2>4. Passed' = Passed \cup batch \cup missed
    <3>1. Passed' = {m \in ChartFile : YearOf[m.day] \notin ct.years \ {year}}
      BY <1>2, <2>2 DEF Passed
    <3>2. batch \cup missed \subseteq ChartFile
      BY DEF YearBatch, YearLost
    <3> HIDE DEF batch, missed
    <3> QED BY <2>3, <3>1, <3>2 DEF Passed
  <2> QED BY <1>2, <2>1, <2>2, <2>4, FileRowsDiffer DEF Passed, YearBatch, YearLost
<1>6. \A m : Reason(m)' = Reason(m) /\ RowOf(m)' = RowOf(m)
  BY SameResolution
<1>7. /\ \A m : Lost(m) => Lost(m)'
      /\ \A m \in missed : Lost(m)'
  <2>1. ct'.lost = ct.lost \cup {[id |-> m.id, reason |-> Reason(m)] : m \in missed}
    BY <1>2
  <2>2. ASSUME NEW m, Lost(m)
        PROVE  Lost(m)'
    BY <2>1, <2>2 DEF Lost
  <2>3. ASSUME NEW m \in missed
        PROVE  Lost(m)'
    <3>1. [id |-> m.id, reason |-> Reason(m)] \in ct'.lost
      BY <2>1
    <3>2. [id |-> m.id, reason |-> Reason(m)].id = m.id
      OBVIOUS
    <3> HIDE DEF missed
    <3> QED BY <3>1, <3>2 DEF Lost
  <2> QED BY <2>2, <2>3
<1> HIDE DEF batch, missed
<1>8. ChartType'
  BY <1>1, <1>2 DEF ChartInv, ChartType
<1>9. PlaceInv'
  BY <1>2 DEF ChartInv, PlaceInv, Sorting, Sorted, BothRead, Doing, Idle
<1>10. \A f \in ChartFiles : OrderOfVersions(f)'
  BY <1>1, <1>2 DEF ChartInv, OrderOfVersions
<1>11. (\A k \in Keys : PairInv(k))'
  BY DEF ChartInv, PairInv, SidesOf
<1>12. AttachedInv'
  <2> SUFFICES ASSUME NEW k \in Keys, charted'[k] # Null
               PROVE  /\ matches[k] # Null
                      /\ DOMAIN charted'[k].figures \subseteq PairOf[k]
                      /\ \A x \in chartUnresolved' : x.id # charted'[k].id
    BY <1>2 DEF AttachedInv
  <2>1. CASE FromBatch(k)
    <3>1. PICK m \in batch : RowOf(m) = k /\ charted'[k].id = m.id
                             /\ DOMAIN charted'[k].figures \subseteq PairOf[k]
      BY <2>1
    <3>2. matches[k] # Null
      BY <1>5, <3>1, AttachedRow DEF ChartInv
    <3>3. \A x \in chartUnresolved' : x.id # m.id
      BY <1>2 DEF batch
    <3> QED BY <3>1, <3>2, <3>3
  <2>2. CASE Stays(k)
    BY <1>2, <2>2 DEF ChartInv, AttachedInv
  <2> QED BY <1>3, <2>1, <2>2
<1>13. LostInv'
  <2> SUFFICES ASSUME NEW x \in ct'.lost
               PROVE  \E m \in Passed' : Reason(m) # Null /\ x.id = m.id
    BY <1>6 DEF LostInv
  <2>1. CASE x \in ct.lost
    BY <1>4, <1>5, <2>1 DEF ChartInv, LostInv
  <2>2. CASE \E m \in missed : x = [id |-> m.id, reason |-> Reason(m)]
    BY <1>5, <2>2
  <2> QED BY <1>2, <2>1, <2>2 DEF missed
<1>14. AccountedInv'
  <2>1. ASSUME NEW m \in Passed', Reason(m) # Null
        PROVE  Lost(m)'
    <3>1. CASE m \in Passed
      BY <1>4, <1>7, <2>1, <3>1 DEF ChartInv, AccountedInv, Explained
    <3> QED BY <1>5, <1>7, <2>1, <3>1
  <2>2. ASSUME NEW m \in Passed', Reason(m) = Null
        PROVE  \E k \in Keys, n \in Passed' :
                  k = RowOf(m) /\ charted'[k] # Null /\ Reason(n) = Null /\ charted'[k].id = n.id
    <3>1. RowOf(m) \in Keys
      BY <1>5, <2>2, AttachedRow DEF ChartInv
    <3>2. CASE FromBatch(RowOf(m))
      BY <1>5, <3>1, <3>2
    <3>3. CASE ~FromBatch(RowOf(m))
      <4>1. m \notin batch
        BY <1>2, <3>1, <3>3 DEF batch
      <4>2. m \in Passed
        BY <1>5, <2>2, <4>1
      <4>3. PICK k \in Keys, n \in Passed :
               k = RowOf(m) /\ charted[k] # Null /\ Reason(n) = Null /\ charted[k].id = n.id
        BY <1>4, <2>2, <4>2 DEF ChartInv, AccountedInv
      <4>4. \A b \in batch : b.id # charted[k].id
        BY <1>5, <4>3
      <4>5. charted'[k] = charted[k]
        BY <1>2, <3>3, <4>3, <4>4 DEF batch
      <4> QED BY <1>5, <4>3, <4>5
    <3> QED BY <3>2, <3>3
  <2> QED BY <1>6, <2>1, <2>2 DEF AccountedInv
<1>15. CurrentInv'
  <2> SUFFICES ASSUME NEW m \in Passed', NEW k \in Keys, charted'[k] # Null, charted'[k].id = m.id
               PROVE  \/ \A p \in DOMAIN charted'[k].figures : charted'[k].figures[p] = ct.body["stats"]
                      \/ Lost(m)'
    BY <1>2 DEF CurrentInv
  <2>1. CASE FromBatch(k)
    BY <2>1
  <2>2. CASE Stays(k)
    <3>1. m \notin batch
      BY <2>2
    <3>2. CASE m \in Passed
      BY <1>4, <1>7, <2>2, <3>2 DEF ChartInv, CurrentInv
    <3> QED BY <1>5, <1>7, <3>1, <3>2
  <2> QED BY <1>3, <2>1, <2>2
<1>16. SkippedChartingIsCurrent'
  <2> SUFFICES ASSUME \A f \in ChartFiles : chartLedger[f] # Null /\ chartLedger[f] = chartServed[f],
                      NEW k \in Keys, charted'[k] # Null,
                      \E m \in Range(ChartRows[chartLedger["matches"]]) : m.id = charted'[k].id,
                      NEW p \in DOMAIN charted'[k].figures
               PROVE  charted'[k].figures[p] = chartLedger["stats"]
    BY <1>1 DEF SkippedChartingIsCurrent
  <2>1. CASE FromBatch(k)
    <3>1. ct.body["stats"] = chartLedger["stats"]
      BY <1>2, RecordedIsRead DEF BothRead, ChartFiles
    <3> QED BY <2>1, <3>1
  <2>2. CASE Stays(k)
    BY <2>2 DEF ChartInv, SkippedChartingIsCurrent
  <2> QED BY <1>3, <2>1, <2>2
<1> QED BY <1>8, <1>9, <1>10, <1>11, <1>12, <1>13, <1>14, <1>15, <1>16 DEF ChartInv

\* RecordUnresolved detaches what is lost, and nothing a row of this read attached.
LEMMA DetachKeeps ==
    ASSUME ChartInv, Detach, UNCHANGED <<job, matches, appearances>>
    PROVE  ChartInv'
<1>1. UNCHANGED <<chartServed, chartLedger, chartUnresolved>> /\ ct.at = "years" /\ ct.years = {}
  BY DEF Detach
<1>2. PICK x \in ct.lost :
        /\ charted' = [k \in Keys |->
              IF charted[k] # Null /\ charted[k].id \in {y.id : y \in Because(x.reason)}
              THEN Null ELSE charted[k]]
        /\ ct' = [ct EXCEPT !.at = "explain", !.reason = x.reason]
  BY DEF Detach
<1>3. ct \in Loaders /\ x.reason \in Reasons /\ BothRead /\ Sorting
  <2>1. ct \in Loaders /\ ct.lost \subseteq Listed
    BY DEF ChartInv, ChartType, Loaders
  <2>2. BothRead /\ Sorting
    BY <1>1 DEF ChartInv, PlaceInv, Sorting
  <2> QED BY <2>1, <2>2 DEF Listed
<1>4. /\ ct' \in Loaders /\ ct'.at = "explain" /\ ct'.reason = x.reason /\ ct'.body = ct.body
      /\ ct'.tag = ct.tag /\ ct'.years = ct.years /\ ct'.lost = ct.lost
  BY <1>2, <1>3 DEF Loaders, ChartPlaces
<1>5. Because(x.reason)' = Because(x.reason) /\ Because(x.reason) \subseteq ct.lost
  BY <1>4 DEF Because
<1>6. /\ charted' \in [Keys -> Attachments \cup {Null}]
      /\ \A k \in Keys : charted'[k] # Null =>
            /\ charted'[k] = charted[k] /\ charted[k] # Null
            /\ \A y \in Because(x.reason) : y.id # charted[k].id
      /\ \A k \in Keys : charted[k] # Null /\ (\A y \in Because(x.reason) : y.id # charted[k].id)
            => charted'[k] = charted[k]
  BY <1>2 DEF ChartInv, ChartType
<1>7. /\ ChartFile' = ChartFile /\ Passed' = Passed
      /\ \A m, n \in Passed : m.id = n.id => m = n
  <2>1. ChartFile' = ChartFile /\ Passed' = Passed /\ Passed \subseteq ChartFile
    BY <1>4 DEF ChartFile, Passed
  <2>2. ChartType /\ ct.body["matches"] # Null
    BY <1>3 DEF ChartInv, BothRead, ChartFiles
  <2> QED BY <2>1, <2>2, FileRowsDiffer
<1>8. \A m : Reason(m)' = Reason(m) /\ RowOf(m)' = RowOf(m)
  BY SameResolution
<1>9. \A m : (Lost(m)' <=> Lost(m)) /\ (Explained(m)' <=> Explained(m))
  BY <1>1, <1>4 DEF Lost, Explained
<1>10. ChartType'
  BY <1>1, <1>4, <1>6 DEF ChartInv, ChartType
<1>11. PlaceInv'
  BY <1>1, <1>3, <1>4 DEF ChartInv, PlaceInv, Sorting, Sorted, BothRead, Doing, Idle
<1>12. \A f \in ChartFiles : OrderOfVersions(f)'
  BY <1>1, <1>4 DEF ChartInv, OrderOfVersions
<1>13. (\A k \in Keys : PairInv(k))'
  BY DEF ChartInv, PairInv, SidesOf
<1>14. AttachedInv'
  <2> SUFFICES ASSUME NEW k \in Keys, charted'[k] # Null
               PROVE  /\ matches[k] # Null
                      /\ DOMAIN charted'[k].figures \subseteq PairOf[k]
                      /\ \A y \in chartUnresolved : y.id # charted'[k].id
                      /\ \A y \in Because(x.reason) : y.id # charted'[k].id
    BY <1>1, <1>4, <1>5 DEF AttachedInv, Because
  <2> QED BY <1>6 DEF ChartInv, AttachedInv
<1>15. LostInv'
  BY <1>3, <1>4, <1>7, <1>8 DEF ChartInv, LostInv
<1>16. AccountedInv'
  <2>1. ASSUME NEW m \in Passed, Reason(m) = Null
        PROVE  \E k \in Keys, n \in Passed :
                  k = RowOf(m) /\ charted'[k] # Null /\ Reason(n) = Null /\ charted'[k].id = n.id
    <3>1. PICK k \in Keys, n \in Passed :
             k = RowOf(m) /\ charted[k] # Null /\ Reason(n) = Null /\ charted[k].id = n.id
      BY <1>3, <2>1 DEF ChartInv, AccountedInv
    <3>2. \A y \in ct.lost : y.id # n.id
      BY <1>3, <1>7, <3>1 DEF ChartInv, LostInv
    <3>3. charted'[k] = charted[k]
      BY <1>5, <1>6, <3>1, <3>2
    <3> QED BY <3>1, <3>3
  <2>2. \A m \in Passed : Reason(m) # Null => Lost(m) \/ Explained(m)
    BY <1>3 DEF ChartInv, AccountedInv
  <2> QED BY <1>7, <1>8, <1>9, <2>1, <2>2 DEF AccountedInv
<1>17. CurrentInv'
  <2> SUFFICES ASSUME NEW m \in Passed, NEW k \in Keys, charted'[k] # Null, charted'[k].id = m.id
               PROVE  \/ \A p \in DOMAIN charted'[k].figures : charted'[k].figures[p] = ct.body["stats"]
                      \/ Lost(m)
    BY <1>4, <1>7, <1>9 DEF CurrentInv
  <2> QED BY <1>3, <1>6 DEF ChartInv, CurrentInv
<1>18. SkippedChartingIsCurrent'
  BY <1>1, <1>6 DEF ChartInv, SkippedChartingIsCurrent
<1> QED BY <1>10, <1>11, <1>12, <1>13, <1>14, <1>15, <1>16, <1>17, <1>18 DEF ChartInv

\* What was lost is listed, once it is detached.
LEMMA ExplainKeeps ==
    ASSUME ChartInv, Explain, UNCHANGED <<job, matches, appearances>>
    PROVE  ChartInv'
<1>1. /\ UNCHANGED <<chartServed, chartLedger, charted>> /\ ct.at = "explain"
      /\ chartUnresolved' = chartUnresolved \cup Because(ct.reason)
      /\ ct' = [ct EXCEPT !.at = "years", !.reason = Null, !.lost = @ \ Because(ct.reason)]
  BY DEF Explain
<1>2. ct \in Loaders /\ BothRead /\ Sorting /\ ct.years = {} /\ Because(ct.reason) \subseteq ct.lost
  BY <1>1 DEF ChartInv, ChartType, PlaceInv, Sorting, Because
<1> DEFINE told == Because(ct.reason)
<1>3. /\ ct' \in Loaders /\ ct'.at = "years" /\ ct'.body = ct.body /\ ct'.tag = ct.tag
      /\ ct'.years = {} /\ ct'.lost = ct.lost \ told
  <2>1. ct' = [ct EXCEPT !.at = "years", !.reason = Null, !.lost = @ \ told]
    BY <1>1
  <2>2. ct \in Loaders /\ ct.years = {}
    BY <1>2
  <2> HIDE DEF told
  <2>3. ct' \in Loaders
    BY <2>1, <2>2 DEF Loaders, ChartPlaces
  <2>4. /\ ct'.at = "years" /\ ct'.body = ct.body /\ ct'.tag = ct.tag
        /\ ct'.years = ct.years /\ ct'.lost = ct.lost \ told
    BY <2>1, <2>2 DEF Loaders
  <2> QED BY <2>2, <2>3, <2>4
<1>4. told \subseteq Listed
  BY <1>2 DEF Loaders
<1>5. \A k \in Keys : charted[k] # Null => \A x \in told : x.id # charted[k].id
  BY <1>1 DEF ChartInv, AttachedInv
<1> HIDE DEF told
<1>6. chartUnresolved' = chartUnresolved \cup told
  BY <1>1 DEF told
<1>7. ChartFile' = ChartFile /\ Passed' = Passed
  BY <1>2, <1>3 DEF ChartFile, Passed
<1>8. \A m : Reason(m)' = Reason(m) /\ RowOf(m)' = RowOf(m)
  BY SameResolution
<1>9. \A m : Lost(m) \/ Explained(m) => Lost(m)' \/ Explained(m)'
  BY <1>2, <1>3, <1>6 DEF Lost, Explained
<1>10. ChartType'
  BY <1>1, <1>3, <1>4, <1>6 DEF ChartInv, ChartType
<1>11. PlaceInv'
  BY <1>1, <1>2, <1>3 DEF ChartInv, PlaceInv, Sorting, Sorted, BothRead, Doing, Idle
<1>12. \A f \in ChartFiles : OrderOfVersions(f)'
  BY <1>1, <1>3 DEF ChartInv, OrderOfVersions
<1>13. (\A k \in Keys : PairInv(k))'
  BY DEF ChartInv, PairInv, SidesOf
<1>14. AttachedInv'
  BY <1>1, <1>3, <1>5, <1>6 DEF ChartInv, AttachedInv
<1>15. LostInv'
  BY <1>2, <1>3, <1>7, <1>8 DEF ChartInv, LostInv
<1>16. AccountedInv'
  <2>1. \A m \in Passed : Reason(m) # Null => Lost(m)' \/ Explained(m)'
    BY <1>2, <1>9 DEF ChartInv, AccountedInv
  <2>2. \A m \in Passed : Reason(m) = Null => \E k \in Keys, n \in Passed :
              k = RowOf(m) /\ charted[k] # Null /\ Reason(n) = Null /\ charted[k].id = n.id
    BY <1>2 DEF ChartInv, AccountedInv
  <2> QED BY <1>1, <1>7, <1>8, <2>1, <2>2 DEF AccountedInv
<1>17. CurrentInv'
  <2> SUFFICES ASSUME NEW m \in Passed, NEW k \in Keys, charted[k] # Null, charted[k].id = m.id,
                      Lost(m)
               PROVE  Lost(m)'
    BY <1>1, <1>2, <1>3, <1>7 DEF ChartInv, CurrentInv
  <2> QED BY <1>3, <1>5 DEF Lost
<1>18. SkippedChartingIsCurrent'
  BY <1>1 DEF ChartInv, SkippedChartingIsCurrent
<1> QED BY <1>10, <1>11, <1>12, <1>13, <1>14, <1>15, <1>16, <1>17, <1>18 DEF ChartInv

\* A file is recorded when all that was read with it is written.
LEMMA RecordKeeps ==
    ASSUME ChartInv, RecordChart, UNCHANGED <<job, matches, appearances>>
    PROVE  ChartInv'
<1>1. /\ UNCHANGED <<chartServed, charted, chartUnresolved>>
      /\ ct.at \in {"years", "record"} /\ ct.years = {} /\ ct.lost = {} /\ BothRead /\ Sorting
  <2>1. AllWritten \/ ct.at = "record"
    BY DEF RecordChart
  <2>2. ct.at \in {"years", "record"} /\ ct.years = {} /\ ct.lost = {}
    BY <2>1 DEF AllWritten, ChartInv, PlaceInv, Sorted
  <2>3. BothRead /\ Sorting
    BY <2>2 DEF ChartInv, PlaceInv, Sorting
  <2> QED BY <2>2, <2>3 DEF RecordChart
<1>2. PICK f \in ChartFiles, at \in {"record", "done"} :
        /\ chartLedger' \in {chartLedger,
              IF ct.tag[f] = Null THEN chartLedger ELSE [chartLedger EXCEPT ![f] = ct.tag[f]]}
        /\ ct' = [ct EXCEPT !.at = at]
  BY DEF RecordChart, ChartFiles
<1>3. /\ ct' \in Loaders /\ ct'.at \in {"record", "done"} /\ ct'.body = ct.body /\ ct'.tag = ct.tag
      /\ ct'.years = {} /\ ct'.lost = {}
  <2>1. ct \in Loaders
    BY DEF ChartInv, ChartType
  <2> QED BY <1>1, <1>2, <2>1 DEF Loaders, ChartPlaces
<1>4. /\ chartLedger' \in ChartVersions
      /\ \A g \in ChartFiles : chartLedger'[g] # chartLedger[g] => chartLedger'[g] = ct.body[g]
  <2>1. ct.tag \in ChartVersions /\ chartLedger \in ChartVersions
    BY DEF ChartInv, ChartType, Loaders
  <2>2. \A g \in ChartFiles : ct.tag[g] # Null => ct.tag[g] = ct.body[g]
    BY DEF ChartInv, PlaceInv
  <2> QED BY <1>2, <2>1, <2>2 DEF ChartVersions
<1>5. ChartFile' = ChartFile /\ Passed' = Passed
  BY <1>1, <1>3 DEF ChartFile, Passed
<1>6. \A m : Reason(m)' = Reason(m) /\ RowOf(m)' = RowOf(m)
  BY SameResolution
<1>7. ChartType'
  BY <1>1, <1>3, <1>4 DEF ChartInv, ChartType
<1>8. PlaceInv'
  BY <1>1, <1>3 DEF ChartInv, PlaceInv, Sorting, Sorted, BothRead, Doing, Idle
<1>9. \A g \in ChartFiles : OrderOfVersions(g)'
  <2> TAKE g \in ChartFiles
  <2>1. CASE chartLedger'[g] = chartLedger[g]
    BY <1>1, <1>3, <2>1 DEF ChartInv, OrderOfVersions, AtMost
  <2>2. CASE chartLedger'[g] = ct.body[g]
    <3>1. ct.body[g] \in Nat \cup {Null}
      BY ChartingAssumption DEF ChartInv, ChartType, ChartVersions, Loaders
    <3>2. AtMost(ct.body[g], chartServed[g])
      BY DEF ChartInv, OrderOfVersions
    <3> QED BY <1>1, <1>3, <2>2, <3>1, <3>2 DEF OrderOfVersions, AtMost
  <2> QED BY <1>4, <2>1, <2>2
<1>10. (\A k \in Keys : PairInv(k))'
  BY DEF ChartInv, PairInv, SidesOf
<1>11. AttachedInv'
  BY <1>1, <1>3 DEF ChartInv, AttachedInv
<1>12. LostInv'
  BY <1>3 DEF LostInv
<1>13. AccountedInv'
  <2>1. \A m \in Passed :
          /\ Reason(m) # Null => Lost(m) \/ Explained(m)
          /\ Reason(m) = Null => \E k \in Keys, n \in Passed :
               k = RowOf(m) /\ charted[k] # Null /\ Reason(n) = Null /\ charted[k].id = n.id
    BY <1>1 DEF ChartInv, AccountedInv
  <2>2. \A m : Lost(m) \/ Explained(m) => Explained(m)'
    BY <1>1, <1>3 DEF Lost, Explained
  <2> QED BY <1>1, <1>5, <1>6, <2>1, <2>2 DEF AccountedInv
<1>14. \A m \in Passed, k \in Keys : charted[k] # Null /\ charted[k].id = m.id =>
          \A p \in DOMAIN charted[k].figures : charted[k].figures[p] = ct.body["stats"]
  BY <1>1 DEF ChartInv, CurrentInv, Lost
<1>15. CurrentInv'
  BY <1>1, <1>3, <1>5, <1>14 DEF CurrentInv
<1>16. SkippedChartingIsCurrent'
  <2>1. CASE chartLedger' = chartLedger
    BY <1>1, <2>1 DEF ChartInv, SkippedChartingIsCurrent
  <2>2. CASE \E g \in ChartFiles : chartLedger'[g] # chartLedger[g]
    <3> SUFFICES ASSUME \A g \in ChartFiles : chartLedger'[g] # Null /\ chartLedger'[g] = chartServed[g],
                        NEW k \in Keys, charted[k] # Null,
                        NEW m \in Range(ChartRows[chartLedger'["matches"]]), m.id = charted[k].id
                 PROVE  \A p \in DOMAIN charted[k].figures : charted[k].figures[p] = chartLedger'["stats"]
      BY <1>1 DEF SkippedChartingIsCurrent
    <3>1. \A g \in ChartFiles : ct.body[g] = chartLedger'[g]
      <4> TAKE g \in ChartFiles
      <4>1. CASE chartLedger'[g] = chartLedger[g]
        BY <1>1, <4>1, RecordedIsRead DEF BothRead
      <4> QED BY <1>4, <4>1
    <3>2. m \in Passed
      BY <1>1, <3>1 DEF Passed, ChartFile, ChartFiles
    <3> QED BY <1>14, <3>1, <3>2 DEF ChartFiles
  <2>3. chartLedger' = chartLedger \/ \E g \in ChartFiles : chartLedger'[g] # chartLedger[g]
    <3>1. chartLedger \in ChartVersions
      BY DEF ChartInv, ChartType
    <3> QED BY <1>4, <3>1 DEF ChartVersions
  <2> QED BY <2>1, <2>2, <2>3
<1> QED BY <1>7, <1>8, <1>9, <1>10, <1>11, <1>12, <1>13, <1>15, <1>16 DEF ChartInv

-----------------------------------------------------------------------------
(* The theorems.                                                           *)

\* Nothing was charted, and no file recorded.
LEMMA ChartsStart ==
    ASSUME JobInit
    PROVE  ChartInv
<1>1. /\ chartServed = [f \in ChartFiles |-> Min(Versions)]
      /\ chartLedger = [f \in ChartFiles |-> Null]
      /\ charted = [k \in Keys |-> Null] /\ chartUnresolved = {} /\ ct = ChartIdle
  BY DEF JobInit, ChartInit
<1>2. ChartType
  <2>1. ChartIdle \in Loaders
    BY DEF ChartIdle, Loaders, ChartPlaces, ChartVersions
  <2> QED BY <1>1, <2>1, ChartingAssumption DEF ChartType, ChartVersions
<1>3. /\ ct.at = "idle" /\ ct.lost = {}
      /\ \A f \in ChartFiles : ct.body[f] = Null /\ ct.tag[f] = Null
  BY <1>1 DEF ChartIdle
<1>4. PlaceInv
  BY <1>3 DEF PlaceInv, Sorting, Sorted, ChartFiles
<1>5. \A f \in ChartFiles : OrderOfVersions(f)
  BY <1>1, <1>3 DEF OrderOfVersions, AtMost
<1>6. AttachedInv /\ SkippedChartingIsCurrent
  BY <1>1 DEF AttachedInv, SkippedChartingIsCurrent
<1>7. LostInv /\ AccountedInv /\ CurrentInv
  BY <1>3 DEF LostInv, AccountedInv, CurrentInv, Sorting, Sorted
<1> QED BY <1>2, <1>4, <1>5, <1>6, <1>7, PairStarts DEF ChartInv

\* Whatever is published, started or cut short, the charted matches stay what the
\* files read together make of them.
LEMMA ChartsStep ==
    ASSUME LoadInv, ChartInv, [Next]_vars
    PROVE  ChartInv'
<1>1. TableType /\ JobInv /\ PlaceInv /\ \A k \in Keys : PairInv(k)
  BY DEF LoadInv, ChartInv
<1>2. \A k \in Keys : PairInv(k)'
  BY <1>1, PairStep
<1>3. CASE ChartingStage
  <2>1. UNCHANGED <<job, matches, appearances>> /\ ChartStep
    BY <1>3 DEF ChartingStage, ChartStep, matchVars, tables
  <2> QED BY <2>1, ReadingKeeps, YearKeeps, DetachKeeps, ExplainKeeps, RecordKeeps DEF ChartStep
<1>4. CASE World
  BY <1>2, <1>4, PublishKeeps
<1>5. CASE WaitingLoader \/ NewLoader \/ (PruneStage /\ ct.at = "idle")
  BY <1>1, <1>2, <1>5, WaitingKeeps
<1> QED BY <1>1, <1>3, <1>4, <1>5, ChartMoves

\* The inductive invariant of the charting stage, within the whole load.
THEOREM ChartingInvariant == Spec => []ChartInv
<1>1. JobInit => ChartInv
  BY ChartsStart
<1>2. LoadInv /\ ChartInv /\ [Next]_vars => ChartInv'
  BY ChartsStep
<1> QED BY <1>1, <1>2, LoadInvariant, PTL DEF Spec

\* Write and RecordUnresolved: every charted match of a read is attached, listed, or
\* gave its row to a later one, and no match is both attached and listed.
THEOREM ChartedMatchesAreAccountedFor == Spec => []ChartedAreAccountedFor
<1>1. ChartInv => ChartedAreAccountedFor
  <2> SUFFICES ASSUME ChartInv
               PROVE  ChartedAreAccountedFor
    OBVIOUS
  <2> DEFINE attached == {charted[k].id : k \in {j \in Keys : charted[j] # Null}}
             listed == {x.id : x \in chartUnresolved}
  <2>1. ASSUME NEW k \in Keys, charted[k] # Null
        PROVE  k \in Held /\ DOMAIN charted[k].figures \subseteq SidesOf(k)
    BY <2>1 DEF ChartInv, AttachedInv, PairInv, Held
  <2>2. attached \cap listed = {}
    BY DEF ChartInv, AttachedInv
  <2>3. ASSUME ct.at = "done", \A f \in ChartFiles : ct.body[f] # Null,
               NEW m \in Range(ChartRows[ct.body["matches"]])
        PROVE  \/ m.id \in attached \cup listed
               \/ Reason(m) = Null /\ charted[RowOf(m)] # Null
    <3>1. Sorted
      BY <2>3 DEF Sorted, BothRead
    <3>2. ct.years = {} /\ ct.lost = {}
      BY <3>1 DEF ChartInv, PlaceInv
    <3>3. m \in Passed
      BY <2>3, <3>2 DEF Passed, ChartFile
    <3>4. CASE Reason(m) = Null
      BY <3>1, <3>3, <3>4 DEF ChartInv, AccountedInv
    <3>5. CASE Reason(m) # Null
      BY <3>1, <3>2, <3>3, <3>5 DEF ChartInv, AccountedInv, Lost, Explained
    <3> QED BY <3>4, <3>5
  <2> HIDE DEF attached, listed
  <2> QED BY <2>1, <2>2, <2>3 DEF ChartedAreAccountedFor, attached, listed
<1> QED BY <1>1, ChartingInvariant, PTL

\* record: while both files are recorded as served, the figures of the rows they carry
\* are those of the recorded version.
THEOREM ChartingIsCurrent == Spec => []SkippedChartingIsCurrent
<1>1. ChartInv => SkippedChartingIsCurrent
  BY DEF ChartInv
<1> QED BY <1>1, ChartingInvariant, PTL

-----------------------------------------------------------------------------
(* The events of the rows, as they were when the events were derived.      *)

\* A row is linked as itself, and two rows of one event keyed by name have two seasons.
NamesInv ==
    \A d \in Draws : eventOf[d] # Null =>
        /\ eventOf[d].draw = d
        /\ eventOf[d].link = "name" =>
             \A e \in Draws \ {d} :
                eventOf[e] # Null /\ eventOf[e].event = eventOf[d].event => SeasonOf[e] # SeasonOf[d]

\* ordinalsWithinSeason: of two rows of one name and season one has the lower ordinal.
LEMMA OrdinalsDiffer ==
    ASSUME NEW d \in Named, NEW e \in Named, d # e, SameName(d, e), SeasonOf[d] = SeasonOf[e]
    PROVE  Ordinal(d) # Ordinal(e)
<1> DEFINE Before(x) == {y \in Named : /\ SameName(x, y) /\ SeasonOf[y] = SeasonOf[x]
                                       /\ EarlierInSeason(y, x)}
<1>1. Named \subseteq Draws
  BY DEF Named, Rows
<1>2. \A x : IsFiniteSet(Before(x)) /\ Cardinality(Before(x)) \in Nat
  <2>1. \A x : Before(x) \subseteq Draws
    BY <1>1
  <2> HIDE DEF Before
  <2> QED BY <2>1, EventsAssumption, FS_Subset, FS_CardinalityType
<1>3. ASSUME NEW x \in Named, NEW y \in Named, SameName(x, y), SeasonOf[x] = SeasonOf[y],
             EarlierInSeason(x, y)
      PROVE  Ordinal(x) < Ordinal(y)
  <2>1. StartOf[x] \in Nat /\ StartOf[y] \in Nat /\ IdRank[x] \in Nat /\ IdRank[y] \in Nat
    BY <1>1, EventsAssumption
  <2>2. ASSUME NEW z \in Before(x)
        PROVE  z \in Before(y)
    <3>1. StartOf[z] \in Nat /\ IdRank[z] \in Nat
      BY <1>1, EventsAssumption
    <3>2. EarlierInSeason(z, y)
      BY <1>3, <2>1, <3>1 DEF EarlierInSeason
    <3> QED BY <1>3, <3>2 DEF SameName
  <2>3. x \in Before(y) \ Before(x)
    BY <1>3, <2>1 DEF EarlierInSeason, SameName
  <2>4. Cardinality(Before(x)) < Cardinality(Before(y))
    <3>1. Before(x) \subseteq Before(y) /\ Before(x) # Before(y)
      BY <2>2, <2>3
    <3> HIDE DEF Before
    <3>2. Cardinality(Before(x)) <= Cardinality(Before(y))
      BY <1>2, <3>1, FS_Subset
    <3>3. Cardinality(Before(x)) # Cardinality(Before(y))
      BY <1>2, <3>1, FS_Subset
    <3> QED BY <1>2, <3>2, <3>3
  <2>5. Ordinal(x) = 1 + Cardinality(Before(x)) /\ Ordinal(y) = 1 + Cardinality(Before(y))
    BY DEF Ordinal
  <2> HIDE DEF Before
  <2> QED BY <1>2, <2>4, <2>5
<1>4. \A x : Ordinal(x) \in Nat
  <2>1. \A x : Ordinal(x) = 1 + Cardinality(Before(x))
    BY DEF Ordinal
  <2> HIDE DEF Before
  <2> QED BY <1>2, <2>1
<1>5. EarlierInSeason(d, e) \/ EarlierInSeason(e, d)
  <2>1. d \in Draws /\ e \in Draws
    BY <1>1
  <2> QED BY <2>1, EventsAssumption DEF EarlierInSeason
<1>6. SameName(e, d)
  BY DEF SameName
<1> QED BY <1>3, <1>4, <1>5, <1>6

\* Resolve: a row without an override, a number or a team is placed by its name, and
\* shares the event with rows of that name alone.
LEMMA NamedPlace ==
    ASSUME NEW d \in Rows, NEW e \in Rows, LinkOf(d) = "name",
           <<TourOf[d], KeyOf(d)>> = <<TourOf[e], KeyOf(e)>>
    PROVE  /\ d \in Named /\ e \in Named
           /\ SameName(d, e) /\ Ordinal(d) = Ordinal(e)
<1>1. ASSUME NEW x \in Rows
      PROVE  LinkOf(x) = "name" => x \in Named /\ KeyOf(x) = NameKey(tournaments[x].tier, Words(x), Ordinal(x))
  <2>1. CASE IsTeam(x) \/ x \in Numbered \/ Bridged(x)
    BY <2>1 DEF LinkOf
  <2>2. CASE ~(IsTeam(x) \/ x \in Numbered \/ Bridged(x))
    <3>1. LinkOf(x) = "name" /\ x \in Named
      BY <2>2 DEF LinkOf, Named
    <3> QED BY <2>2, <3>1 DEF KeyOf
  <2> QED BY <2>1, <2>2
<1>2. KeyOf(d) = NameKey(tournaments[d].tier, Words(d), Ordinal(d)) /\ d \in Named
  BY <1>1
<1>3. KeyOf(d)[1] = "name" /\ KeyOf(e) = KeyOf(d) /\ TourOf[d] = TourOf[e]
  BY <1>2 DEF NameKey
<1>4. LinkOf(e) = "name"
  <2>1. CASE IsTeam(e)
    <3>1. e \notin Numbered /\ ~Bridged(e)
      BY <2>1 DEF Numbered, Named, Bridged
    <3>2. LinkOf(e) = "team"
      BY <2>1, <3>1 DEF LinkOf
    <3>3. KeyOf(e) = TeamKey(Competition(Words(e)))
      BY <3>1, <3>2 DEF KeyOf
    <3> QED BY <1>3, <3>3 DEF TeamKey
  <2>2. CASE ~IsTeam(e) /\ e \in Numbered
    <3>1. LinkOf(e) \in {"override", "number"}
      <4>1. ~Bridged(e)
        BY <2>2 DEF Bridged, Named
      <4> QED BY <2>2, <4>1 DEF LinkOf
    <3>2. KeyOf(e) = NumberKey(NumberOf(e))
      BY <2>2, <3>1 DEF KeyOf
    <3> QED BY <1>3, <3>2 DEF NumberKey
  <2>3. CASE ~IsTeam(e) /\ e \notin Numbered /\ Bridged(e)
    <3>1. LinkOf(e) = "bridged"
      BY <2>3 DEF LinkOf
    <3>2. KeyOf(e) = NumberKey(CHOOSE n \in NumbersUnder(e) : TRUE)
      BY <2>3, <3>1 DEF KeyOf
    <3> QED BY <1>3, <3>2 DEF NumberKey
  <2> QED BY <2>1, <2>2, <2>3 DEF LinkOf
<1>5. KeyOf(e) = NameKey(tournaments[e].tier, Words(e), Ordinal(e)) /\ e \in Named
  BY <1>1, <1>4
<1>6. /\ tournaments[d].tier = tournaments[e].tier /\ Words(d) = Words(e)
      /\ Ordinal(d) = Ordinal(e)
  <2> DEFINE key(x) == NameKey(tournaments[x].tier, Words(x), Ordinal(x))
  <2>1. key(d) = key(e)
    BY <1>2, <1>3, <1>5
  <2>2. \A x : key(x)[2] = tournaments[x].tier /\ key(x)[3] = Words(x) /\ key(x)[4] = Ordinal(x)
    BY DEF NameKey
  <2> HIDE DEF key
  <2> QED BY <2>1, <2>2
<1> QED BY <1>2, <1>3, <1>5, <1>6 DEF SameName

\* Linked: a row is linked as it was placed.
LEMMA LinkedRow ==
    ASSUME NEW d \in Draws, Linked(Placed)[d] # Null
    PROVE  /\ d \in Rows
           /\ Linked(Placed)[d] = [draw |-> d, event |-> <<TourOf[d], KeyOf(d)>>, link |-> LinkOf(d)]
<1>1. d \in Rows
  BY DEF Linked
<1>2. Linked(Placed)[d] = CHOOSE p \in Placed : p.draw = d
  BY <1>1 DEF Linked
<1> DEFINE place == [draw |-> d, event |-> <<TourOf[d], KeyOf(d)>>, link |-> LinkOf(d)]
<1>3. place \in Placed /\ place.draw = d
  BY <1>1 DEF Placed
<1>4. \A p \in Placed : p.draw = d => p = place
  BY DEF Placed
<1> HIDE DEF place
<1>5. (CHOOSE p \in Placed : p.draw = d) = place
  BY <1>3, <1>4
<1> QED BY <1>1, <1>2, <1>5 DEF place

\* DeriveEvents writes the table; nothing else touches it.
LEMMA OnlyEventsStageWrites ==
    ASSUME [Next]_vars, ~EventsStage
    PROVE  UNCHANGED eventVars
<1> USE DEF eventVars
<1>1. CASE Publish \/ Weekly \/ ByHand \/ UNCHANGED vars
  BY <1>1 DEF Publish, Weekly, ByHand, Launch, vars
<1>2. CASE StartRun \/ FinishRun \/ SkipStage \/ StageFails \/ Interrupted
  BY <1>2 DEF StartRun, FinishRun, SkipStage, StageFails, Interrupted, Abandon
<1>3. CASE SkipMatchFile \/ OpenMatchFile \/ WriteMatchRow \/ EndMatchFile
  BY <1>3 DEF SkipMatchFile, OpenMatchFile, WriteMatchRow, EndMatchFile, InMatches, othersOfMatches
<1>4. CASE ReferenceStage \/ PlayersCutShort \/ Merge \/ Reconciled
  BY <1>4 DEF ReferenceStage, PlayersCutShort, Merge, Reconciled
<1>5. CASE ChartingStage \/ PruneStage \/ RefreshStage
  BY <1>5 DEF ChartingStage, PruneStage, RefreshStage
<1> QED BY <1>1, <1>2, <1>3, <1>4, <1>5 DEF Next, Work

\* DeriveEvents links every row anew; nothing else touches a link.
LEMMA NamesStep ==
    ASSUME NamesInv, [Next]_vars
    PROVE  NamesInv'
<1>1. CASE EventsStage
  <2>1. eventOf' = Linked(Placed)
    BY <1>1 DEF EventsStage, DeriveEvents
  <2>2. ASSUME NEW d \in Draws, NEW e \in Draws \ {d}, eventOf'[d] # Null, eventOf'[e] # Null,
               eventOf'[d].link = "name", eventOf'[e].event = eventOf'[d].event
        PROVE  SeasonOf[e] # SeasonOf[d]
    <3>1. /\ d \in Rows /\ e \in Rows /\ LinkOf(d) = "name"
          /\ <<TourOf[d], KeyOf(d)>> = <<TourOf[e], KeyOf(e)>>
      <4> DEFINE place(x) == [draw |-> x, event |-> <<TourOf[x], KeyOf(x)>>, link |-> LinkOf(x)]
      <4>1. \A x \in {d, e} : x \in Rows /\ eventOf'[x] = place(x)
        BY <2>1, <2>2, LinkedRow
      <4>2. \A x : place(x).event = <<TourOf[x], KeyOf(x)>> /\ place(x).link = LinkOf(x)
        OBVIOUS
      <4> HIDE DEF place
      <4> QED BY <2>2, <4>1, <4>2
    <3>2. d \in Named /\ e \in Named /\ SameName(d, e) /\ Ordinal(d) = Ordinal(e)
      BY <3>1, NamedPlace
    <3> QED BY <2>2, <3>2, OrdinalsDiffer
  <2>3. \A d \in Draws : eventOf'[d] # Null => eventOf'[d].draw = d
    <3> SUFFICES ASSUME NEW d \in Draws, Linked(Placed)[d] # Null
                 PROVE  Linked(Placed)[d].draw = d
      BY <2>1
    <3>1. Linked(Placed)[d] = [draw |-> d, event |-> <<TourOf[d], KeyOf(d)>>, link |-> LinkOf(d)]
      BY LinkedRow
    <3> QED BY <3>1
  <2> QED BY <2>2, <2>3 DEF NamesInv
<1>2. CASE ~EventsStage
  <2>1. eventOf' = eventOf
    BY <1>2, OnlyEventsStageWrites DEF eventVars
  <2> QED BY <2>1 DEF NamesInv
<1> QED BY <1>1, <1>2

\* Two rows of one event that is keyed by a name are of two seasons, and so are two of
\* one name that were bridged to a number and are still placed so (Resolve).
THEOREM OneEdition == Spec => []OneEditionASeason
<1>1. JobInit => NamesInv
  BY DEF JobInit, EventsInit, NamesInv
<1>2. NamesInv => OneEditionASeason
  <2> SUFFICES ASSUME NamesInv, NEW d \in Draws, NEW e \in Draws,
                      d # e, eventOf[d] # Null, eventOf[e] # Null,
                      eventOf[d].event = eventOf[e].event,
                      \/ eventOf[d].link = "name"
                      \/ /\ {eventOf[d].link, eventOf[e].link} = {"bridged"} /\ SameName(d, e)
                         /\ {eventOf[d], eventOf[e]} \subseteq Placed
               PROVE  SeasonOf[d] # SeasonOf[e]
    BY DEF OneEditionASeason
  <2>1. CASE eventOf[d].link = "name"
    BY <2>1 DEF NamesInv
  <2>2. CASE /\ {eventOf[d].link, eventOf[e].link} = {"bridged"} /\ SameName(d, e)
             /\ {eventOf[d], eventOf[e]} \subseteq Placed
    <3>1. ASSUME NEW x \in {d, e}
          PROVE  x \in Named /\ Ordinal(x) = 1
      <4>1. eventOf[x] \in Placed /\ eventOf[x].draw = x /\ eventOf[x].link = "bridged"
        BY <2>2, <3>1 DEF NamesInv
      <4>2. x \in Rows /\ LinkOf(x) = "bridged"
        BY <4>1 DEF Placed
      <4>3. Bridged(x)
        BY <4>2 DEF LinkOf
      <4> QED BY <4>3 DEF Bridged
    <3> QED BY <2>2, <3>1, OrdinalsDiffer
  <2> QED BY <2>1, <2>2
<1> QED BY <1>1, <1>2, NamesStep, PTL DEF Spec

-----------------------------------------------------------------------------
(* Numbers and orders.                                                     *)

\* Of finitely many numbers there is one with any given count of others below it.
LEMMA NumberAtPlace ==
    ASSUME NEW F, IsFiniteSet(F), F \subseteq Nat, NEW c \in Nat, c < Cardinality(F)
    PROVE  \E n \in F : Cardinality({m \in F : m < n}) = c
<1> DEFINE Below(n) == {m \in F : m < n}
           S == {n \in F : Cardinality(Below(n)) >= c}
<1>1. \A n : IsFiniteSet(Below(n)) /\ Cardinality(Below(n)) \in Nat
  <2>1. \A n : Below(n) \subseteq F
    OBVIOUS
  <2> HIDE DEF Below
  <2> QED BY <2>1, FS_Subset, FS_CardinalityType
<1>2. S # {}
  <2>1. Cardinality(F) \in Nat /\ F # {}
    BY FS_CardinalityType, FS_EmptySet
  <2>2. PICK n \in F : \A m \in F : m <= n
    BY <2>1, MaxOfNumbers
  <2>3. Below(n) = F \ {n}
    <3>1. n \in Nat /\ \A m \in F : m \in Nat
      BY <2>2
    <3>2. \A m \in F : m < n <=> m # n
      BY <2>2, <3>1
    <3> QED BY <3>2
  <2>4. Cardinality(F \ {n}) = Cardinality(F) - 1
    BY <2>2, FS_RemoveElement
  <2>5. Cardinality(Below(n)) >= c
    BY <2>1, <2>3, <2>4
  <2> QED BY <2>2, <2>5
<1>3. PICK n \in S : \A m \in S : n <= m
  <2>1. S \subseteq Nat
    OBVIOUS
  <2> HIDE DEF S
  <2> QED BY <1>2, <2>1, MinOfNumbers
<1>4. ASSUME Cardinality(Below(n)) > c
      PROVE  FALSE
  <2>1. Below(n) # {} /\ Below(n) \subseteq Nat
    <3>1. Below(n) \subseteq Nat
      OBVIOUS
    <3>2. Cardinality(Below(n)) # 0
      BY <1>1, <1>4
    <3> HIDE DEF Below
    <3> QED BY <3>1, <3>2, FS_EmptySet
  <2>2. PICK p \in Below(n) : \A m \in Below(n) : m <= p
    <3> HIDE DEF Below
    <3> QED BY <1>1, <2>1, MaxOfNumbers
  <2>3. p \in F /\ p < n /\ p \in Nat /\ n \in Nat
    BY <2>2, <1>3
  <2>4. Below(p) = Below(n) \ {p}
    <3>1. \A m \in F : m \in Nat
      OBVIOUS
    <3>2. \A m \in F : m < n => m <= p
      BY <2>2
    <3>3. \A m \in F : m < p <=> m < n /\ m # p
      BY <2>3, <3>1, <3>2
    <3> QED BY <3>3
  <2>5. Cardinality(Below(n) \ {p}) = Cardinality(Below(n)) - 1
    <3> HIDE DEF Below
    <3> QED BY <1>1, <2>2, FS_RemoveElement
  <2>6. Cardinality(Below(p)) >= c
    <3> HIDE DEF Below
    <3> QED BY <1>1, <1>4, <2>4, <2>5
  <2>7. p \in S
    BY <2>3, <2>6
  <2> QED BY <1>3, <2>3, <2>7
<1>5. n \in F /\ Cardinality(Below(n)) >= c
  BY <1>3
<1>6. Cardinality(Below(n)) = c
  <2> HIDE DEF Below, S
  <2> QED BY <1>1, <1>4, <1>5
<1> QED BY <1>5, <1>6

\* The values of a function of finitely many arguments are finite, and no more.
LEMMA FiniteValues ==
    ASSUME NEW S, IsFiniteSet(S), NEW f, DOMAIN f = S, f = [x \in S |-> f[x]]
    PROVE  LET T == {f[x] : x \in S} IN IsFiniteSet(T) /\ Cardinality(T) <= Cardinality(S)
<1> DEFINE T == {f[x] : x \in S}
<1>1. f \in Surjection(S, T)
  BY DEF Surjection
<1> HIDE DEF T
<1>2. IsFiniteSet(T) /\ Cardinality(T) <= Cardinality(S)
  BY <1>1, FS_Surjection, Zenon
<1> QED BY <1>2 DEF T

\* Rows whose ranks are numbers are in the order of their ranks.
LEMMA MintOrder ==
    ASSUME NEW R, \A r \in R : \A i \in 1 .. 6 : MintRank(r)[i] \in Int
    PROVE  /\ \A x \in R : ~MintedBefore(x, x)
           /\ \A x, y, z \in R : MintedBefore(x, y) /\ MintedBefore(y, z) => MintedBefore(x, z)
           /\ \A x, y \in R : (\E i \in 1 .. 6 : MintRank(x)[i] # MintRank(y)[i])
                              => MintedBefore(x, y) \/ MintedBefore(y, x)
<1> DEFINE k(r, i) == MintRank(r)[i]
<1>1. \A r \in R : /\ k(r, 1) \in Int /\ k(r, 2) \in Int /\ k(r, 3) \in Int
                   /\ k(r, 4) \in Int /\ k(r, 5) \in Int /\ k(r, 6) \in Int
  OBVIOUS
<1>2. \A x, y \in R : MintedBefore(x, y) <=>
        \/ k(x, 1) < k(y, 1)
        \/ k(x, 1) = k(y, 1) /\ k(x, 2) < k(y, 2)
        \/ k(x, 1) = k(y, 1) /\ k(x, 2) = k(y, 2) /\ k(x, 3) < k(y, 3)
        \/ k(x, 1) = k(y, 1) /\ k(x, 2) = k(y, 2) /\ k(x, 3) = k(y, 3) /\ k(x, 4) < k(y, 4)
        \/ /\ k(x, 1) = k(y, 1) /\ k(x, 2) = k(y, 2) /\ k(x, 3) = k(y, 3) /\ k(x, 4) = k(y, 4)
           /\ k(x, 5) < k(y, 5)
        \/ /\ k(x, 1) = k(y, 1) /\ k(x, 2) = k(y, 2) /\ k(x, 3) = k(y, 3) /\ k(x, 4) = k(y, 4)
           /\ k(x, 5) = k(y, 5) /\ k(x, 6) < k(y, 6)
  <2> SUFFICES ASSUME NEW x \in R, NEW y \in R
               PROVE  MintedBefore(x, y) <=>
        \/ k(x, 1) < k(y, 1)
        \/ k(x, 1) = k(y, 1) /\ k(x, 2) < k(y, 2)
        \/ k(x, 1) = k(y, 1) /\ k(x, 2) = k(y, 2) /\ k(x, 3) < k(y, 3)
        \/ k(x, 1) = k(y, 1) /\ k(x, 2) = k(y, 2) /\ k(x, 3) = k(y, 3) /\ k(x, 4) < k(y, 4)
        \/ /\ k(x, 1) = k(y, 1) /\ k(x, 2) = k(y, 2) /\ k(x, 3) = k(y, 3) /\ k(x, 4) = k(y, 4)
           /\ k(x, 5) < k(y, 5)
        \/ /\ k(x, 1) = k(y, 1) /\ k(x, 2) = k(y, 2) /\ k(x, 3) = k(y, 3) /\ k(x, 4) = k(y, 4)
           /\ k(x, 5) = k(y, 5) /\ k(x, 6) < k(y, 6)
    OBVIOUS
  <2>1. MintedBefore(x, y) <=> \E i \in 1 .. 6 : /\ k(x, i) < k(y, i)
                                                 /\ \A j \in 1 .. i - 1 : k(x, j) = k(y, j)
    BY DEF MintedBefore
  <2>2. \A i \in 1 .. 6 : i \in {1, 2, 3, 4, 5, 6}
    OBVIOUS
  <2>3. /\ 1 .. 1 - 1 = {} /\ 1 .. 2 - 1 = {1} /\ 1 .. 3 - 1 = {1, 2} /\ 1 .. 4 - 1 = {1, 2, 3}
        /\ 1 .. 5 - 1 = {1, 2, 3, 4} /\ 1 .. 6 - 1 = {1, 2, 3, 4, 5}
        /\ 1 .. 6 = {1, 2, 3, 4, 5, 6}
    OBVIOUS
  <2> HIDE DEF k
  <2> QED BY <2>1, <2>3
<1>3. \A x, y \in R : (\E i \in 1 .. 6 : MintRank(x)[i] # MintRank(y)[i]) <=>
        \/ k(x, 1) # k(y, 1) \/ k(x, 2) # k(y, 2) \/ k(x, 3) # k(y, 3)
        \/ k(x, 4) # k(y, 4) \/ k(x, 5) # k(y, 5) \/ k(x, 6) # k(y, 6)
  OBVIOUS
<1> HIDE DEF k
<1>4. \A x \in R : ~MintedBefore(x, x)
  BY <1>1, <1>2
<1>5. \A x, y, z \in R : MintedBefore(x, y) /\ MintedBefore(y, z) => MintedBefore(x, z)
  BY <1>1, <1>2
<1>6. \A x, y \in R : (\E i \in 1 .. 6 : MintRank(x)[i] # MintRank(y)[i])
                              => MintedBefore(x, y) \/ MintedBefore(y, x)
  BY <1>1, <1>2, <1>3
<1> QED BY <1>4, <1>5, <1>6

-----------------------------------------------------------------------------
(* The keys of events, and their order.                                    *)

NameKeys == {NameKey(t, w, o) : t \in Tiers, w \in Nat, o \in Nat}
NumberKeys == {NumberKey(n) : n \in Nat}
TeamKeys == {TeamKey(c) : c \in Nat}
EventKeys == NameKeys \cup NumberKeys \cup TeamKeys

\* Rows of draws are of a tier and have a name.
DrawsInv ==
    /\ DOMAIN tournaments = Draws
    /\ \A d \in Draws : tournaments[d] # Null => tournaments[d].tier \in Tiers /\ Words(d) \in Nat

\* Write: the order of keys tells any two apart.
LEMMA KeysOrdered ==
    /\ \A k \in EventKeys : \A i \in 1 .. 4 : KeyRank(k)[i] \in Nat
    /\ \A k, l \in EventKeys : (\A i \in 1 .. 4 : KeyRank(k)[i] = KeyRank(l)[i]) => k = l
<1>1. ASSUME NEW k \in EventKeys
      PROVE  \/ /\ k \in NameKeys
                /\ \E t \in Tiers, w \in Nat, o \in Nat :
                     k = <<"name", t, w, o>> /\ KeyRank(k) = <<1, TierWord(t), w, o>>
             \/ k \in NumberKeys /\ \E n \in Nat : k = <<"number", n>> /\ KeyRank(k) = <<2, n, 0, 0>>
             \/ k \in TeamKeys /\ \E n \in Nat : k = <<"team", n>> /\ KeyRank(k) = <<3, n, 0, 0>>
  <2>1. CASE k \in NameKeys
    <3>1. PICK t \in Tiers, w \in Nat, o \in Nat : k = <<"name", t, w, o>>
      BY <2>1 DEF NameKeys, NameKey
    <3>2. KeyRank(k) = <<1, TierWord(t), w, o>>
      BY <3>1 DEF KeyRank
    <3> QED BY <2>1, <3>1, <3>2
  <2>2. CASE k \in NumberKeys
    <3>1. PICK n \in Nat : k = <<"number", n>>
      BY <2>2 DEF NumberKeys, NumberKey
    <3>2. KeyRank(k) = <<2, n, 0, 0>>
      BY <3>1 DEF KeyRank
    <3> QED BY <2>2, <3>1, <3>2
  <2>3. CASE k \in TeamKeys
    <3>1. PICK n \in Nat : k = <<"team", n>>
      BY <2>3 DEF TeamKeys, TeamKey
    <3>2. KeyRank(k) = <<3, n, 0, 0>>
      BY <3>1 DEF KeyRank
    <3> QED BY <2>3, <3>1, <3>2
  <2> QED BY <2>1, <2>2, <2>3 DEF EventKeys
<1>2. \A t, u \in Tiers : TierWord(t) \in Nat /\ (TierWord(t) = TierWord(u) => t = u)
  BY DEF TierWord, Tiers
<1>3. ASSUME NEW k \in EventKeys, NEW i \in 1 .. 4
      PROVE  KeyRank(k)[i] \in Nat
  <2>1. i \in {1, 2, 3, 4}
    OBVIOUS
  <2> QED BY <1>1, <1>2, <2>1
<1>4. ASSUME NEW k \in EventKeys, NEW l \in EventKeys,
             \A i \in 1 .. 4 : KeyRank(k)[i] = KeyRank(l)[i]
      PROVE  k = l
  <2>1. /\ KeyRank(k)[1] = KeyRank(l)[1] /\ KeyRank(k)[2] = KeyRank(l)[2]
        /\ KeyRank(k)[3] = KeyRank(l)[3] /\ KeyRank(k)[4] = KeyRank(l)[4]
    BY <1>4
  <2>2. CASE \E t \in Tiers, w \in Nat, o \in Nat :
                k = <<"name", t, w, o>> /\ KeyRank(k) = <<1, TierWord(t), w, o>>
    <3>1. PICK t \in Tiers, w \in Nat, o \in Nat :
                 k = <<"name", t, w, o>> /\ KeyRank(k) = <<1, TierWord(t), w, o>>
      BY <2>2
    <3>2. PICK u \in Tiers, x \in Nat, p \in Nat :
                 l = <<"name", u, x, p>> /\ KeyRank(l) = <<1, TierWord(u), x, p>>
      BY <1>1, <2>1, <3>1
    <3> QED BY <1>2, <2>1, <3>1, <3>2
  <2>3. CASE \E n \in Nat : k = <<"number", n>> /\ KeyRank(k) = <<2, n, 0, 0>>
    <3>1. PICK n \in Nat : k = <<"number", n>> /\ KeyRank(k) = <<2, n, 0, 0>>
      BY <2>3
    <3>2. PICK m \in Nat : l = <<"number", m>> /\ KeyRank(l) = <<2, m, 0, 0>>
      BY <1>1, <2>1, <3>1
    <3> QED BY <2>1, <3>1, <3>2
  <2>4. CASE \E n \in Nat : k = <<"team", n>> /\ KeyRank(k) = <<3, n, 0, 0>>
    <3>1. PICK n \in Nat : k = <<"team", n>> /\ KeyRank(k) = <<3, n, 0, 0>>
      BY <2>4
    <3>2. PICK m \in Nat : l = <<"team", m>> /\ KeyRank(l) = <<3, m, 0, 0>>
      BY <1>1, <2>1, <3>1
    <3> QED BY <2>1, <3>1, <3>2
  <2> QED BY <1>1, <2>2, <2>3, <2>4
<1> QED BY <1>3, <1>4

\* Resolve: what a row is keyed by.
LEMMA KeysTyped ==
    ASSUME DrawsInv, NEW d \in Rows
    PROVE  KeyOf(d) \in EventKeys
<1>1. \A e \in Rows : e \in Draws /\ tournaments[e].tier \in Tiers /\ Words(e) \in Nat
  BY DEF Rows, DrawsInv
<1>2. \A e \in Numbered : NumberOf(e) \in Nat
  <2> SUFFICES ASSUME NEW e \in Numbered
               PROVE  NumberOf(e) \in Nat
    OBVIOUS
  <2>1. e \in Draws
    BY <1>1 DEF Numbered
  <2>2. CASE Overridden(e) # {}
    <3>1. Overridden(e) \subseteq {1, 2}
      BY DEF Overridden
    <3>2. Overridden(e) \subseteq Nat
      BY <3>1
    <3>3. Min(Overridden(e)) \in Overridden(e)
      <4>1. PICK m \in Overridden(e) : \A y \in Overridden(e) : m <= y
        BY <2>2, <3>2, MinOfNumbers
      <4> QED BY <4>1 DEF Min
    <3>4. Target(e) \in Range(OverrideTo)
      BY <3>3 DEF Target, Overridden, Range
    <3> QED BY <2>2, <3>4, EventsAssumption DEF NumberOf
  <2>3. CASE Overridden(e) = {}
    <3>1. RawKey(e).kind = "number"
      BY <2>3 DEF Numbered
    <3>2. RawKey(e) = IdShape[e]
      BY <3>1 DEF RawKey
    <3> QED BY <2>1, <2>3, <3>1, <3>2, EventsAssumption DEF NumberOf
  <2> QED BY <2>2, <2>3
<1>3. CASE IsTeam(d)
  <2>1. d \notin Numbered /\ ~Bridged(d)
    BY <1>3 DEF Numbered, Named, Bridged
  <2>2. KeyOf(d) = TeamKey(Competition(Words(d)))
    <3>1. LinkOf(d) = "team"
      BY <1>3, <2>1 DEF LinkOf
    <3> QED BY <2>1, <3>1 DEF KeyOf
  <2>3. Competition(Words(d)) \in Nat
    BY <1>1, EventsAssumption DEF Competition, Range
  <2> QED BY <2>2, <2>3 DEF EventKeys, TeamKeys
<1>4. CASE ~IsTeam(d) /\ d \in Numbered
  <2>1. LinkOf(d) \in {"override", "number"}
    <3>1. ~Bridged(d)
      BY <1>4 DEF Bridged, Named
    <3> QED BY <1>4, <3>1 DEF LinkOf
  <2>2. KeyOf(d) = NumberKey(NumberOf(d))
    BY <1>4, <2>1 DEF KeyOf
  <2> QED BY <1>2, <1>4, <2>2 DEF EventKeys, NumberKeys
<1>5. CASE ~IsTeam(d) /\ d \notin Numbered /\ Bridged(d)
  <2>1. LinkOf(d) = "bridged"
    BY <1>5 DEF LinkOf
  <2>2. KeyOf(d) = NumberKey(CHOOSE n \in NumbersUnder(d) : TRUE)
    BY <1>5, <2>1 DEF KeyOf
  <2>3. NumbersUnder(d) # {} /\ NumbersUnder(d) \subseteq Nat
    <3>1. NumbersUnder(d) # {}
      BY <1>5, FS_EmptySet DEF Bridged
    <3> QED BY <1>2, <3>1 DEF NumbersUnder
  <2>4. (CHOOSE n \in NumbersUnder(d) : TRUE) \in Nat
    BY <2>3
  <2> QED BY <2>2, <2>4 DEF EventKeys, NumberKeys
<1>6. CASE ~IsTeam(d) /\ d \notin Numbered /\ ~Bridged(d)
  <2>1. LinkOf(d) = "name" /\ d \in Named
    BY <1>6 DEF LinkOf, Named
  <2>2. KeyOf(d) = NameKey(tournaments[d].tier, Words(d), Ordinal(d))
    BY <1>6, <2>1 DEF KeyOf
  <2>3. Ordinal(d) \in Nat
    <3> DEFINE Before == {e \in Named : /\ SameName(d, e) /\ SeasonOf[e] = SeasonOf[d]
                                        /\ EarlierInSeason(e, d)}
    <3>1. Before \subseteq Draws /\ Ordinal(d) = 1 + Cardinality(Before)
      BY DEF Ordinal, Named, Rows
    <3> HIDE DEF Before
    <3>2. Cardinality(Before) \in Nat
      BY <3>1, EventsAssumption, FS_Subset, FS_CardinalityType
    <3> QED BY <3>1, <3>2
  <2> QED BY <1>1, <2>2, <2>3 DEF EventKeys, NameKeys
<1> QED BY <1>3, <1>4, <1>5, <1>6

-----------------------------------------------------------------------------
(* The rows Write is handed, and the slugs it gives the new ones.          *)

\* Resolve: finitely many events, each with a key and at least one edition.
LEMMA ResolvedRows ==
    ASSUME DrawsInv
    PROVE  /\ IsFiniteSet(Resolved(Placed))
           /\ \A r \in Resolved(Placed) : r.event[2] \in EventKeys /\ r.last \in Nat /\ r.editions \in Nat
           /\ \A r \in Resolved(Placed) : r.event = <<r.event[1], r.event[2]>>
           /\ \A x, y \in Resolved(Placed) : x.event = y.event => x = y
<1> DEFINE place(d) == [draw |-> d, event |-> <<TourOf[d], KeyOf(d)>>, link |-> LinkOf(d)]
           Events == {p.event : p \in Placed}
           seasons(e) == {SeasonOf[p.draw] : p \in Editions(Placed, e)}
<1>1. IsFiniteSet(Placed)
  <2>1. IsFiniteSet(Rows)
    BY EventsAssumption, FS_Subset DEF Rows
  <2> DEFINE f == [d \in Rows |-> place(d)]
  <2>2. Placed = {f[d] : d \in Rows} /\ DOMAIN f = Rows /\ f = [d \in Rows |-> f[d]]
    BY DEF Placed
  <2> HIDE DEF f
  <2> QED BY <2>1, <2>2, FiniteValues
<1>2. IsFiniteSet(Events)
  <2> DEFINE f == [p \in Placed |-> p.event]
  <2>1. Events = {f[p] : p \in Placed} /\ DOMAIN f = Placed /\ f = [p \in Placed |-> f[p]]
    OBVIOUS
  <2> HIDE DEF f, Events
  <2> QED BY <1>1, <2>1, FiniteValues
<1>3. IsFiniteSet(Resolved(Placed))
  <2> DEFINE f == [e \in Events |-> EventRow(e, Editions(Placed, e))]
  <2>1. Resolved(Placed) = {f[e] : e \in Events} /\ DOMAIN f = Events /\ f = [e \in Events |-> f[e]]
    BY DEF Resolved
  <2> HIDE DEF f, Events
  <2> QED BY <1>2, <2>1, FiniteValues
<1>4. \A r \in Resolved(Placed) : r.event \in Events /\ r = EventRow(r.event, Editions(Placed, r.event))
  <2> SUFFICES ASSUME NEW r \in Resolved(Placed)
               PROVE  r.event \in Events /\ r = EventRow(r.event, Editions(Placed, r.event))
    OBVIOUS
  <2>1. PICK e \in Events : r = EventRow(e, Editions(Placed, e))
    BY DEF Resolved
  <2>2. r.event = e
    BY <2>1 DEF EventRow
  <2> QED BY <2>1, <2>2
<1>5. ASSUME NEW r \in Resolved(Placed)
      PROVE  /\ r.event[2] \in EventKeys /\ r.last \in Nat /\ r.editions \in Nat
             /\ r.event = <<r.event[1], r.event[2]>>
  <2>1. PICK p \in Placed : r.event = p.event
    BY <1>4
  <2>2. PICK d \in Rows : p = place(d)
    BY DEF Placed
  <2>3. r.event = <<TourOf[d], KeyOf(d)>>
    BY <2>1, <2>2
  <2>4. p \in Editions(Placed, r.event) /\ Editions(Placed, r.event) \subseteq Placed
    BY <2>1 DEF Editions
  <2>5. IsFiniteSet(Editions(Placed, r.event)) /\ Cardinality(Editions(Placed, r.event)) \in Nat
    BY <1>1, <2>4, FS_Subset, FS_CardinalityType
  <2>6. Max(seasons(r.event)) \in Nat
    <3>1. seasons(r.event) \subseteq Nat /\ seasons(r.event) # {}
      <4>1. \A q \in Placed : q.draw \in Draws
        BY DEF Placed, Rows
      <4> QED BY <2>4, <4>1, EventsAssumption
    <3>2. IsFiniteSet(seasons(r.event))
      <4> DEFINE E == Editions(Placed, r.event)
                 f == [q \in E |-> SeasonOf[q.draw]]
      <4>1. seasons(r.event) = {f[q] : q \in E} /\ DOMAIN f = E /\ f = [q \in E |-> f[q]]
        OBVIOUS
      <4> HIDE DEF f, E, seasons
      <4> QED BY <2>5, <4>1, FiniteValues DEF E
    <3> HIDE DEF seasons
    <3> QED BY <3>1, <3>2, MaxOfNumbers
  <2>7. r.last = Max(seasons(r.event)) /\ r.editions = Cardinality(Editions(Placed, r.event))
    <3>1. EventRow(r.event, Editions(Placed, r.event)).last = Max(seasons(r.event))
          /\ EventRow(r.event, Editions(Placed, r.event)).editions = Cardinality(Editions(Placed, r.event))
      BY DEF EventRow
    <3> QED BY <1>4, <3>1
  <2>8. KeyOf(d) \in EventKeys
    BY KeysTyped
  <2> QED BY <2>3, <2>5, <2>6, <2>7, <2>8
<1> QED BY <1>3, <1>4, <1>5

\* Write: the order of new events tells any two of a tour apart.
LEMMA RowsRanked ==
    ASSUME DrawsInv
    PROVE  /\ \A r \in Resolved(Placed) : \A i \in 1 .. 6 : MintRank(r)[i] \in Int
           /\ \A x, y \in Resolved(Placed) :
                 x # y /\ x.event[1] = y.event[1] => \E i \in 1 .. 6 : MintRank(x)[i] # MintRank(y)[i]
<1>1. ASSUME NEW r \in Resolved(Placed)
      PROVE  /\ MintRank(r)[1] = -r.last /\ MintRank(r)[2] = -r.editions
             /\ MintRank(r)[3] = KeyRank(r.event[2])[1] /\ MintRank(r)[4] = KeyRank(r.event[2])[2]
             /\ MintRank(r)[5] = KeyRank(r.event[2])[3] /\ MintRank(r)[6] = KeyRank(r.event[2])[4]
  BY DEF MintRank
<1>2. ASSUME NEW r \in Resolved(Placed), NEW i \in 1 .. 6
      PROVE  MintRank(r)[i] \in Int
  <2>1. r.last \in Nat /\ r.editions \in Nat
    BY ResolvedRows
  <2>2. \A j \in 1 .. 4 : KeyRank(r.event[2])[j] \in Nat
    BY ResolvedRows, KeysOrdered
  <2>3. i \in {1, 2, 3, 4, 5, 6}
    OBVIOUS
  <2> QED BY <1>1, <2>1, <2>2, <2>3
<1>3. ASSUME NEW x \in Resolved(Placed), NEW y \in Resolved(Placed), x.event[1] = y.event[1],
             \A i \in 1 .. 6 : MintRank(x)[i] = MintRank(y)[i]
      PROVE  x = y
  <2>1. \A i \in 1 .. 4 : KeyRank(x.event[2])[i] = KeyRank(y.event[2])[i]
    <3> SUFFICES ASSUME NEW i \in 1 .. 4
                 PROVE  KeyRank(x.event[2])[i] = KeyRank(y.event[2])[i]
      OBVIOUS
    <3>1. i \in {1, 2, 3, 4} /\ i + 2 \in 1 .. 6
      OBVIOUS
    <3>2. \A j \in {3, 4, 5, 6} : MintRank(x)[j] = MintRank(y)[j]
      BY <1>3
    <3> QED BY <1>1, <3>1, <3>2
  <2>2. x.event[2] = y.event[2]
    BY <2>1, ResolvedRows, KeysOrdered
  <2>3. x.event = y.event
    BY <1>3, <2>2, ResolvedRows
  <2> QED BY <2>3, ResolvedRows
<1> QED BY <1>2, <1>3

\* mint: a new event gets a slug no event has, and no two get the same.
LEMMA FreshSlugs ==
    ASSUME IsFiniteSet(DOMAIN events), NEW new, IsFiniteSet(new),
           \A r \in new : \A i \in 1 .. 6 : MintRank(r)[i] \in Int,
           \A x, y \in new : x # y /\ x.event[1] = y.event[1]
                             => \E i \in 1 .. 6 : MintRank(x)[i] # MintRank(y)[i]
    PROVE  /\ \A r \in new, e \in DOMAIN events : Mint(r, new) # events[e].slug
           /\ \A x, y \in new : Mint(x, new) = Mint(y, new) => x = y
<1> DEFINE K == Cardinality(DOMAIN events) + Cardinality(new)
           Slug(r, n) == [name |-> r.name, tour |-> r.event[1], serial |-> n]
           Free(r) == {n \in 1 .. K : \A e \in DOMAIN events : events[e].slug # Slug(r, n)}
           Before(r) == {q \in new : /\ q.name = r.name /\ q.event[1] = r.event[1]
                                     /\ MintedBefore(q, r)}
           Below(F, n) == {m \in F : m < n}
           Serial(r) == CHOOSE n \in Free(r) : Cardinality(Below(Free(r), n)) = Cardinality(Before(r))
<1>1. Cardinality(DOMAIN events) \in Nat /\ Cardinality(new) \in Nat /\ K \in Nat
  BY FS_CardinalityType
<1>2. ASSUME NEW r \in new
      PROVE  /\ Free(r) \subseteq Nat /\ IsFiniteSet(Free(r))
             /\ Cardinality(Free(r)) >= Cardinality(new)
  <2> DEFINE Taken == {n \in 1 .. K : \E e \in DOMAIN events : events[e].slug = Slug(r, n)}
             f == [n \in Taken |-> CHOOSE e \in DOMAIN events : events[e].slug = Slug(r, n)]
  <2>1. \A n \in Taken : f[n] \in DOMAIN events /\ events[f[n]].slug = Slug(r, n)
    OBVIOUS
  <2>2. \A n, m : Slug(r, n) = Slug(r, m) => n = m
    <3>1. \A n : Slug(r, n).serial = n
      OBVIOUS
    <3> HIDE DEF Slug
    <3> QED BY <3>1
  <2>3. f \in Injection(Taken, DOMAIN events)
    <3>1. f \in [Taken -> DOMAIN events]
      BY <2>1
    <3>2. \A n, m \in Taken : f[n] = f[m] => n = m
      <4> HIDE DEF f, Taken, Slug
      <4> QED BY <2>1, <2>2
    <3> HIDE DEF f, Taken
    <3> QED BY <3>1, <3>2 DEF Injection, IsInjective
  <2>4. Cardinality(Taken) <= Cardinality(DOMAIN events)
    <3> HIDE DEF f, Taken
    <3> QED BY <2>3, FS_Injection, Zenon
  <2>5. IsFiniteSet(1 .. K) /\ Cardinality(1 .. K) = K
    <3> HIDE DEF K
    <3>1. 1 \in Int /\ K \in Int /\ K >= 0
      BY <1>1
    <3>2. IsFiniteSet(1 .. K) /\ Cardinality(1 .. K) = IF 1 > K THEN 0 ELSE K - 1 + 1
      BY <3>1, FS_Interval
    <3> QED BY <3>1, <3>2
  <2>6. Free(r) = (1 .. K) \ Taken /\ Taken \subseteq 1 .. K
    OBVIOUS
  <2>7. IsFiniteSet(Taken) /\ Cardinality(Taken) \in Nat
    <3> HIDE DEF Taken
    <3> QED BY <2>5, <2>6, FS_Subset, FS_CardinalityType
  <2>8. IsFiniteSet(Free(r)) /\ Cardinality(Free(r)) = K - Cardinality(Taken)
    <3> DEFINE I == 1 .. K
    <3> HIDE DEF Taken, Free, I
    <3>1. Free(r) = I \ Taken /\ I \cap Taken = Taken /\ IsFiniteSet(I) /\ Cardinality(I) = K
      BY <2>5, <2>6 DEF I
    <3> HIDE DEF K
    <3>2. IsFiniteSet(I \ Taken) /\ Cardinality(I \ Taken) = Cardinality(I) - Cardinality(I \cap Taken)
      BY <3>1, FS_Difference
    <3> QED BY <3>1, <3>2
  <2>9. Cardinality(Free(r)) >= Cardinality(new)
    <3> HIDE DEF Taken, Free
    <3> QED BY <1>1, <2>4, <2>7, <2>8
  <2>10. Free(r) \subseteq Nat
    OBVIOUS
  <2> QED BY <2>8, <2>9, <2>10
<1>3. \A r : Before(r) \subseteq new
  OBVIOUS
<1>4. \A r : IsFiniteSet(Before(r)) /\ Cardinality(Before(r)) \in Nat
  <2> HIDE DEF Before
  <2> QED BY <1>3, FS_Subset, FS_CardinalityType
<1>5. ASSUME NEW r \in new
      PROVE  Cardinality(Before(r)) < Cardinality(new)
  <2>1. r \notin Before(r)
    BY MintOrder
  <2>2. Before(r) # new
    BY <2>1
  <2> HIDE DEF Before
  <2>3. Cardinality(Before(r)) <= Cardinality(new) /\ Cardinality(Before(r)) # Cardinality(new)
    BY <1>3, <2>2, FS_Subset
  <2> QED BY <1>1, <1>4, <2>3
<1>6. ASSUME NEW r \in new
      PROVE  Serial(r) \in Free(r) /\ Cardinality(Below(Free(r), Serial(r))) = Cardinality(Before(r))
  <2>1. Cardinality(Before(r)) < Cardinality(Free(r))
    <3>1. Cardinality(Free(r)) \in Nat
      <4> HIDE DEF Free
      <4> QED BY <1>2, FS_CardinalityType
    <3> HIDE DEF Free, Before
    <3> QED BY <1>1, <1>2, <1>4, <1>5, <3>1
  <2>2. \E n \in Free(r) : Cardinality({m \in Free(r) : m < n}) = Cardinality(Before(r))
    <3> HIDE DEF Free, Before
    <3> QED BY <1>2, <1>4, <2>1, NumberAtPlace
  <2> HIDE DEF Free, Before
  <2> QED BY <2>2
<1>7. \A r : Mint(r, new) = Slug(r, Serial(r))
  BY DEF Mint
<1>8. ASSUME NEW r \in new, NEW e \in DOMAIN events
      PROVE  Mint(r, new) # events[e].slug
  <2>1. \A n \in Free(r) : events[e].slug # Slug(r, n)
    OBVIOUS
  <2> HIDE DEF Free, Serial, Slug
  <2> QED BY <1>6, <1>7, <2>1
<1>9. ASSUME NEW x \in new, NEW y \in new, x.name = y.name, x.event[1] = y.event[1], MintedBefore(x, y)
      PROVE  Cardinality(Before(x)) < Cardinality(Before(y))
  <2>1. Before(x) \subseteq Before(y)
    <3> SUFFICES ASSUME NEW q \in Before(x)
                 PROVE  q \in Before(y)
      OBVIOUS
    <3>1. q \in new /\ q.name = x.name /\ q.event[1] = x.event[1] /\ MintedBefore(q, x)
      OBVIOUS
    <3>2. MintedBefore(q, y)
      BY <1>9, <3>1, MintOrder
    <3> QED BY <1>9, <3>1, <3>2
  <2>2. x \in Before(y) /\ x \notin Before(x)
    BY <1>9, MintOrder
  <2>3. Before(x) # Before(y)
    BY <2>2
  <2> HIDE DEF Before
  <2>4. Cardinality(Before(x)) <= Cardinality(Before(y)) /\ Cardinality(Before(x)) # Cardinality(Before(y))
    BY <1>4, <2>1, <2>3, FS_Subset
  <2> QED BY <1>4, <2>4
<1>10. ASSUME NEW x \in new, NEW y \in new, Mint(x, new) = Mint(y, new), x # y
       PROVE  FALSE
  <2>1. x.name = y.name /\ x.event[1] = y.event[1] /\ Serial(x) = Serial(y)
    <3>1. \A r, n : Slug(r, n).name = r.name /\ Slug(r, n).tour = r.event[1] /\ Slug(r, n).serial = n
      OBVIOUS
    <3> HIDE DEF Slug, Serial
    <3> QED BY <1>7, <1>10, <3>1
  <2>2. Free(x) = Free(y)
    BY <2>1
  <2>3. MintedBefore(x, y) \/ MintedBefore(y, x)
    <3>1. \E i \in 1 .. 6 : MintRank(x)[i] # MintRank(y)[i]
      BY <1>10, <2>1
    <3> QED BY <3>1, MintOrder
  <2>4. Cardinality(Before(x)) # Cardinality(Before(y))
    <3> HIDE DEF Before
    <3> QED BY <1>4, <1>9, <2>1, <2>3
  <2> HIDE DEF Free, Before, Serial, Below
  <2> QED BY <1>6, <2>1, <2>2, <2>4
<1> QED BY <1>8, <1>10

-----------------------------------------------------------------------------
(* Write, over a load.                                                     *)

\* Two events of the table have two slugs, and the table is finite.
SlugsInv ==
    /\ IsFiniteSet(DOMAIN events)
    /\ \A e, g \in DOMAIN events : events[e].slug = events[g].slug => e = g

\* Write: who is in the table keeps the slug, the others get one that is new to the
\* table and to each other.
LEMMA WrittenSlugs ==
    ASSUME DrawsInv, SlugsInv
    PROVE  LET written == Written(Placed) IN
           /\ IsFiniteSet(DOMAIN written)
           /\ \A e \in DOMAIN written :
                 IF e \in DOMAIN events THEN written[e].slug = events[e].slug
                 ELSE \A g \in DOMAIN events : written[e].slug # events[g].slug
           /\ \A e, g \in DOMAIN written : written[e].slug = written[g].slug => e = g
<1> DEFINE written == Written(Placed)
           rows == Resolved(Placed)
           new == rows \ Known(rows)
           row(e) == CHOOSE r \in rows : r.event = e
<1>1. IsFiniteSet(rows) /\ \A x, y \in rows : x.event = y.event => x = y
  BY ResolvedRows
<1>2. DOMAIN written = {r.event : r \in rows} /\ \A e \in DOMAIN written : written[e] = Stored(row(e), rows)
  BY DEF Written
<1>3. IsFiniteSet(DOMAIN written)
  <2> DEFINE f == [r \in rows |-> r.event]
  <2>1. {r.event : r \in rows} = {f[r] : r \in rows} /\ DOMAIN f = rows /\ f = [r \in rows |-> f[r]]
    OBVIOUS
  <2> HIDE DEF f, rows, written
  <2> QED BY <1>1, <1>2, <2>1, FiniteValues
<1> HIDE DEF written
<1>4. \A e \in DOMAIN written : row(e) \in rows /\ row(e).event = e
  BY <1>2
<1>5. \A r \in rows : Stored(r, rows).slug = IF r.event \in DOMAIN events THEN events[r.event].slug ELSE Mint(r, new)
  BY DEF Stored, Known
<1>6. \A r \in rows : r \in new <=> r.event \notin DOMAIN events
  BY DEF Known
<1>7. IsFiniteSet(new) /\ new \subseteq rows
  <2> HIDE DEF rows
  <2> QED BY <1>1, FS_Subset
<1>8. /\ \A r \in new, e \in DOMAIN events : Mint(r, new) # events[e].slug
      /\ \A x, y \in new : Mint(x, new) = Mint(y, new) => x = y
  <2>1. /\ \A r \in new : \A i \in 1 .. 6 : MintRank(r)[i] \in Int
        /\ \A x, y \in new : x # y /\ x.event[1] = y.event[1]
                             => \E i \in 1 .. 6 : MintRank(x)[i] # MintRank(y)[i]
    BY <1>7, RowsRanked
  <2> HIDE DEF new
  <2> QED BY <1>7, <2>1, FreshSlugs DEF SlugsInv
<1> HIDE DEF rows, new, row
<1>9. \A e \in DOMAIN written :
         /\ e \in DOMAIN events => written[e].slug = events[e].slug
         /\ e \notin DOMAIN events => row(e) \in new /\ written[e].slug = Mint(row(e), new)
  BY <1>2, <1>4, <1>5, <1>6
<1>10. ASSUME NEW e \in DOMAIN written, NEW g \in DOMAIN written, written[e].slug = written[g].slug
       PROVE  e = g
  <2>1. CASE e \in DOMAIN events /\ g \in DOMAIN events
    BY <1>9, <1>10, <2>1 DEF SlugsInv
  <2>2. CASE e \notin DOMAIN events /\ g \notin DOMAIN events
    <3>1. row(e) = row(g)
      BY <1>8, <1>9, <1>10, <2>2
    <3> QED BY <1>4, <3>1
  <2>3. CASE (e \in DOMAIN events) # (g \in DOMAIN events)
    BY <1>8, <1>9, <1>10, <2>3
  <2> QED BY <2>1, <2>2, <2>3
<1> QED BY <1>3, <1>8, <1>9, <1>10 DEF written

\* WriteMatchRow writes the row of a draw; no other step does.
LEMMA DrawsStand ==
    ASSUME [Next]_vars, ~WriteMatchRow
    PROVE  tournaments' = tournaments
<1> USE DEF matchVars, tables
<1>1. CASE Publish \/ Weekly \/ ByHand \/ UNCHANGED vars
  BY <1>1 DEF Publish, Weekly, ByHand, Launch, vars
<1>2. CASE StartRun \/ FinishRun \/ SkipStage \/ StageFails \/ Interrupted
  BY <1>2 DEF StartRun, FinishRun, SkipStage, StageFails, Interrupted, Abandon
<1>3. CASE SkipMatchFile \/ OpenMatchFile \/ EndMatchFile
  BY <1>3 DEF SkipMatchFile, OpenMatchFile, EndMatchFile, RecordMatchFile
<1>4. CASE PlayersCutShort \/ Merge \/ Reconciled
  BY <1>4 DEF PlayersCutShort, Merge, Reconciled
<1>5. CASE EventsStage \/ PruneStage
  BY <1>5 DEF EventsStage, DeriveEvents, PruneStage, Prune
<1>6. CASE RefreshStage
  BY <1>6 DEF RefreshStage, RefreshProminence, DerivePage, RebuildClutchBaselines,
              RefreshServeBaselines, RefreshPlayerTotals
<1>7. CASE ReferenceStage
  BY <1>7 DEF ReferenceStage, RefStep
<1>8. CASE ChartingStage
  BY <1>8 DEF ChartingStage, ChartStep
<1> QED BY <1>1, <1>2, <1>3, <1>4, <1>5, <1>6, <1>7, <1>8 DEF Next, Work

\* A row that is written is of a tier and has a name; no other step touches a draw.
LEMMA DrawsStep ==
    ASSUME LoadInv, DrawsInv, [Next]_vars
    PROVE  DrawsInv'
<1>1. CASE WriteMatchRow
  <2>1. PICK k \in Keys, row \in FileRows, source \in Sources :
          tournaments' = [tournaments EXCEPT ![DrawOf[k]] = UpsertedDraw(source, row)]
    BY <1>1, WrittenRow DEF LoadInv
  <2>2. UpsertedDraw(source, row).tier \in Tiers /\ UpsertedDraw(source, row).name.words \in Nat
    <3>1. TierOf(row.level, FallbackTier[source]) \in Tiers
      BY EventsAssumption DEF TierOf, Tiers
    <3>2. row.name.words \in Nat
      BY EventsAssumption
    <3> QED BY <3>1, <3>2 DEF UpsertedDraw
  <2> DEFINE new == UpsertedDraw(source, row)
  <2> HIDE DEF new
  <2>3. /\ DOMAIN tournaments' = Draws
        /\ \A d \in Draws : tournaments'[d] = IF d = DrawOf[k] THEN new ELSE tournaments[d]
    BY <2>1 DEF DrawsInv, new
  <2>4. new.tier \in Tiers /\ new.name.words \in Nat
    BY <2>2 DEF new
  <2> QED BY <2>3, <2>4 DEF DrawsInv, Words
<1>2. CASE ~WriteMatchRow
  <2>1. tournaments' = tournaments
    BY <1>2, DrawsStand
  <2> QED BY <2>1 DEF DrawsInv, Words
<1> QED BY <1>1, <1>2

\* Write moves the table from one with slugs of their own to another.
LEMMA SlugsStep ==
    ASSUME DrawsInv, SlugsInv, [Next]_vars
    PROVE  /\ SlugsInv'
           /\ [\A e \in DOMAIN events, g \in DOMAIN events' :
                  (events[e].slug = events'[g].slug) <=> e = g]_events
<1>1. CASE EventsStage
  <2> DEFINE written == Written(Placed)
  <2>1. events' = written
    BY <1>1 DEF EventsStage, DeriveEvents
  <2>2. /\ IsFiniteSet(DOMAIN written)
        /\ \A e \in DOMAIN written :
              IF e \in DOMAIN events THEN written[e].slug = events[e].slug
              ELSE \A g \in DOMAIN events : written[e].slug # events[g].slug
        /\ \A e, g \in DOMAIN written : written[e].slug = written[g].slug => e = g
    BY WrittenSlugs
  <2> HIDE DEF written
  <2> QED BY <2>1, <2>2 DEF SlugsInv
<1>2. CASE ~EventsStage
  BY <1>2, OnlyEventsStageWrites DEF SlugsInv, eventVars
<1> QED BY <1>1, <1>2

\* An event that stays keeps its slug, and no slug that was ever an event's while the
\* event was there is handed to another (Store.Write, mint).
THEOREM SlugsStay == Spec => SlugsAreKept
<1>1. JobInit => DrawsInv /\ SlugsInv
  <2> SUFFICES ASSUME JobInit
               PROVE  DrawsInv /\ SlugsInv
    OBVIOUS
  <2>1. DrawsInv
    <3>1. tournaments = [d \in Draws |-> IF \E k \in registry.legacy : DrawOf[k] = d
                        THEN [tier |-> "tour", name |-> LegacyName, level |-> "G"] ELSE Null]
      BY DEF JobInit, MatchInit
    <3>2. LegacyName.words \in Nat /\ "tour" \in Tiers
      BY EventsAssumption DEF Tiers
    <3> QED BY <3>1, <3>2 DEF DrawsInv, Words
  <2>2. SlugsInv
    <3>1. DOMAIN events = {}
      BY DEF JobInit, EventsInit
    <3> QED BY <3>1, FS_EmptySet DEF SlugsInv
  <2> QED BY <2>1, <2>2
<1>2. LoadInv /\ DrawsInv /\ SlugsInv /\ [Next]_vars =>
        /\ DrawsInv' /\ SlugsInv'
        /\ [\A e \in DOMAIN events, g \in DOMAIN events' :
               (events[e].slug = events'[g].slug) <=> e = g]_events
  BY DrawsStep, SlugsStep
<1> QED BY <1>1, <1>2, LoadInvariant, PTL DEF Spec, SlugsAreKept

-----------------------------------------------------------------------------
(* Run twice: what is written depends on the rows alone.                   *)

\* Resolve: the same rows are placed on the same events.
LEMMA SamePlaces ==
    ASSUME tournaments' = tournaments
    PROVE  /\ Placed' = Placed /\ Resolved(Placed)' = Resolved(Placed)
           /\ Linked(Placed)' = Linked(Placed)
<1>1. Rows' = Rows /\ \A d : Words(d)' = Words(d)
  BY DEF Rows, Words
<1>2. \A d : IsTeam(d)' = IsTeam(d)
  BY DEF IsTeam
<1>3. \A d, e : SameName(d, e)' = SameName(d, e)
  BY <1>1 DEF SameName
<1>4. /\ \A d : RawKey(d)' = RawKey(d) /\ Overridden(d)' = Overridden(d)
      /\ \A d : NumberOf(d)' = NumberOf(d)
      /\ \A d, e : EarlierInSeason(d, e)' = EarlierInSeason(d, e)
  OBVIOUS
<1>5. Numbered' = Numbered
  BY <1>1, <1>2, <1>4 DEF Numbered
<1>6. Named' = Named
  BY <1>1, <1>2, <1>5 DEF Named
<1>7. \A d : Ordinal(d)' = Ordinal(d)
  BY <1>3, <1>4, <1>6 DEF Ordinal
<1>8. \A d : NumbersUnder(d)' = NumbersUnder(d)
  BY <1>3, <1>4, <1>5 DEF NumbersUnder
<1>9. \A d : Bridged(d)' = Bridged(d)
  BY <1>6, <1>7, <1>8 DEF Bridged
<1>10. \A d : LinkOf(d)' = LinkOf(d)
  BY <1>2, <1>4, <1>5, <1>9 DEF LinkOf
<1>11. \A d : KeyOf(d)' = KeyOf(d)
  BY <1>1, <1>4, <1>5, <1>7, <1>8, <1>10 DEF KeyOf
<1>12. Placed' = Placed
  BY <1>1, <1>10, <1>11 DEF Placed
<1>13. \A e, s : EventRow(e, s)' = EventRow(e, s)
  <2>1. \A s : DisplayName(s)' = DisplayName(s)
    BY <1>1, <1>4 DEF DisplayName, Latest
  <2> QED BY <2>1 DEF EventRow, Pinned
<1>14. \A e : Editions(Placed, e)' = Editions(Placed, e)
  BY <1>12 DEF Editions
<1>15. Resolved(Placed)' = Resolved(Placed)
  BY <1>12, <1>13, <1>14 DEF Resolved
<1>16. Linked(Placed)' = Linked(Placed)
  BY <1>1, <1>12 DEF Linked
<1> QED BY <1>12, <1>15, <1>16
\* Write: over the same rows and the same table, the same table.
LEMMA SameWritten ==
    ASSUME tournaments' = tournaments, events' = events
    PROVE  Written(Placed)' = Written(Placed)
<1>1. Resolved(Placed)' = Resolved(Placed)
  BY SamePlaces
<1>2. \A rows : Known(rows)' = Known(rows)
  BY DEF Known
<1>3. \A x, y : MintedBefore(x, y)' = MintedBefore(x, y)
  OBVIOUS
<1>4. \A r, new : Mint(r, new)' = Mint(r, new)
  BY <1>3 DEF Mint
<1>5. \A r, rows : Stored(r, rows)' = Stored(r, rows)
  BY <1>2, <1>4 DEF Stored
<1> QED BY <1>1, <1>5 DEF Written

\* Run: "a second run over the same rows changes nothing". Every event is known then.
LEMMA WrittenTwice ==
    ASSUME tournaments' = tournaments, events' = Written(Placed)
    PROVE  Written(Placed)' = Written(Placed)
<1> DEFINE written == Written(Placed)
           rows == Resolved(Placed)
           row(e) == CHOOSE r \in rows : r.event = e
<1>1. rows' = rows
  BY SamePlaces
<1>2. /\ DOMAIN written = {r.event : r \in rows}
      /\ \A e \in DOMAIN written : written[e] = Stored(row(e), rows)
      /\ written = [e \in DOMAIN written |-> written[e]]
  BY DEF Written
<1>3. Written(Placed)' = [e \in {r.event : r \in rows} |-> Stored(row(e), rows)']
  BY <1>1 DEF Written
<1>4. \A e \in DOMAIN written : row(e) \in rows /\ row(e).event = e
  BY <1>2
<1>5. Known(rows)' = rows
  BY <1>1, <1>2 DEF Known
<1>6. ASSUME NEW e \in DOMAIN written
      PROVE  Stored(row(e), rows)' = written[e]
  <2>1. Stored(row(e), rows)' = [slug |-> written[e].slug, name |-> row(e).name,
                                 first |-> row(e).first, last |-> row(e).last]
    BY <1>1, <1>4, <1>5 DEF Stored
  <2>2. \A r : \E s : Stored(r, rows) = [slug |-> s, name |-> r.name, first |-> r.first, last |-> r.last]
    BY DEF Stored
  <2>3. \E s : written[e] = [slug |-> s, name |-> row(e).name,
                            first |-> row(e).first, last |-> row(e).last]
    BY <1>2, <2>2
  <2>4. written[e] = [slug |-> written[e].slug, name |-> row(e).name,
                      first |-> row(e).first, last |-> row(e).last]
    <3> HIDE DEF written, row
    <3> QED BY <2>3
  <2> QED BY <2>1, <2>4
<1> HIDE DEF written, rows, row
<1>7. Written(Placed)' = [e \in DOMAIN written |-> written[e]]
  BY <1>2, <1>3, <1>6
<1> QED BY <1>2, <1>7 DEF written

\* What is left of a load is the end of its plan.
PlanInv ==
    ~Idle =>
        LET plan == StepsOf(job.stage)
            gone == Len(plan) - Len(job.todo)
        IN /\ job.stage \in Stages /\ gone \in Nat
           /\ \A i \in 1 .. Len(job.todo) : job.todo[i] = plan[gone + i]

\* StepsOf: what comes before the place where the events are settled is their stage.
LEMMA EventsComeBefore ==
    ASSUME PlanInv, JobInv, ~Idle, Len(job.todo) > 1,
           <<job.stage, job.todo[2]>> \in {<<"all", "charting">>, <<"events", "prominence">>}
    PROVE  Step = "events"
<1>1. /\ Len(StepsOf("all")) = 10 /\ StepsOf("all")[4] = "events"
      /\ \A i \in 1 .. 10 : StepsOf("all")[i] = "charting" => i = 5
  <2> DEFINE s == <<"matches", "reference", "reconcile", "events", "charting">>
  <2>1. /\ s \in Seq(StepNames) /\ Len(s) = 5 /\ s[1] = "matches" /\ s[2] = "reference"
        /\ s[3] = "reconcile" /\ s[4] = "events" /\ s[5] = "charting"
    BY DEF StepNames, RunStages
  <2>2. /\ Refresh \in Seq(StepNames) /\ Len(Refresh) = 5
        /\ \A i \in 1 .. 5 : Refresh[i] # "charting"
    BY DEF Refresh, StepNames, RefreshSteps
  <2>3. StepsOf("all") = s \o Refresh
    BY DEF StepsOf
  <2> HIDE DEF s
  <2>4. /\ Len(s \o Refresh) = 10
        /\ \A i \in 1 .. 5 : (s \o Refresh)[i] = s[i]
        /\ \A i \in 1 .. 5 : (s \o Refresh)[5 + i] = Refresh[i]
    <3> s \in Seq(StepNames) /\ Refresh \in Seq(StepNames)
      BY <2>1, <2>2
    <3>1. /\ Len(s \o Refresh) = Len(s) + Len(Refresh)
          /\ \A i \in 1 .. Len(s) : (s \o Refresh)[i] = s[i]
          /\ \A i \in 1 .. Len(Refresh) : (s \o Refresh)[Len(s) + i] = Refresh[i]
      BY Concatenated
    <3>2. Len(s \o Refresh) = 10 /\ \A i \in 1 .. 5 : (s \o Refresh)[5 + i] = Refresh[i]
      BY <2>1, <2>2, <3>1
    <3> QED BY <2>1, <3>1, <3>2
  <2>5. \A i \in 6 .. 10 : (s \o Refresh)[i] # "charting"
    <3> SUFFICES ASSUME NEW i \in 6 .. 10
                 PROVE  (s \o Refresh)[i] # "charting"
      OBVIOUS
    <3>1. i - 5 \in 1 .. 5 /\ 5 + (i - 5) = i
      OBVIOUS
    <3>2. (s \o Refresh)[5 + (i - 5)] = Refresh[i - 5]
      BY <2>4, <3>1
    <3> QED BY <2>2, <3>1, <3>2
  <2>6. \A i \in 1 .. 4 : (s \o Refresh)[i] # "charting"
    <3>1. \A i \in 1 .. 4 : i \in {1, 2, 3, 4} /\ i \in 1 .. 5
      OBVIOUS
    <3> QED BY <2>1, <2>4, <3>1
  <2>7. (s \o Refresh)[4] = "events"
    <3>1. 4 \in 1 .. 5
      OBVIOUS
    <3>2. (s \o Refresh)[4] = s[4]
      BY <2>4, <3>1
    <3> QED BY <2>1, <3>2
  <2>8. \A i \in 1 .. 10 : i \in 1 .. 4 \/ i = 5 \/ i \in 6 .. 10
    OBVIOUS
  <2> QED BY <2>3, <2>4, <2>5, <2>6, <2>7, <2>8
<1>2. /\ Len(StepsOf("events")) = 6 /\ StepsOf("events")[1] = "events"
      /\ \A i \in 1 .. 6 : StepsOf("events")[i] = "prominence" => i = 2
  <2> DEFINE s == <<"events">>
  <2>1. s \in Seq(StepNames) /\ Len(s) = 1 /\ s[1] = "events"
    BY DEF StepNames
  <2>2. /\ Refresh \in Seq(StepNames) /\ Len(Refresh) = 5
        /\ \A i \in 2 .. 5 : Refresh[i] # "prominence"
    BY DEF Refresh, StepNames, RefreshSteps
  <2>3. StepsOf("events") = s \o Refresh
    BY DEF StepsOf
  <2> HIDE DEF s
  <2>4. /\ Len(s \o Refresh) = 6 /\ (s \o Refresh)[1] = "events"
        /\ \A i \in 1 .. 5 : (s \o Refresh)[1 + i] = Refresh[i]
    <3> s \in Seq(StepNames) /\ Refresh \in Seq(StepNames)
      BY <2>1, <2>2
    <3>1. /\ Len(s \o Refresh) = Len(s) + Len(Refresh)
          /\ \A i \in 1 .. Len(s) : (s \o Refresh)[i] = s[i]
          /\ \A i \in 1 .. Len(Refresh) : (s \o Refresh)[Len(s) + i] = Refresh[i]
      BY Concatenated
    <3>2. Len(s \o Refresh) = 6 /\ \A i \in 1 .. 5 : (s \o Refresh)[1 + i] = Refresh[i]
      BY <2>1, <2>2, <3>1
    <3> QED BY <2>1, <3>1, <3>2
  <2>5. \A i \in 3 .. 6 : (s \o Refresh)[i] # "prominence"
    <3> SUFFICES ASSUME NEW i \in 3 .. 6
                 PROVE  (s \o Refresh)[i] # "prominence"
      OBVIOUS
    <3>1. i - 1 \in 2 .. 5 /\ i - 1 \in 1 .. 5 /\ 1 + (i - 1) = i
      OBVIOUS
    <3>2. (s \o Refresh)[1 + (i - 1)] = Refresh[i - 1]
      BY <2>4, <3>1
    <3> QED BY <2>2, <3>1, <3>2
  <2>6. \A i \in 1 .. 6 : i = 1 \/ i = 2 \/ i \in 3 .. 6
    OBVIOUS
  <2> QED BY <2>3, <2>4, <2>5, <2>6
<1> DEFINE plan == StepsOf(job.stage)
           gone == Len(plan) - Len(job.todo)
<1>3. /\ Len(job.todo) \in Nat /\ gone \in Nat
      /\ job.todo[1] = plan[gone + 1] /\ job.todo[2] = plan[gone + 2]
      /\ Step = job.todo[1] /\ gone + Len(job.todo) = Len(plan)
  <2>1. job.todo \in Seq(StepNames) /\ Len(job.todo) \in Nat
    BY DEF JobInv, JobType, Jobs
  <2>2. gone \in Nat /\ \A i \in 1 .. Len(job.todo) : job.todo[i] = plan[gone + i]
    BY DEF PlanInv
  <2>3. 1 \in 1 .. Len(job.todo) /\ 2 \in 1 .. Len(job.todo)
    BY <2>1
  <2>4. Len(plan) \in Nat
    BY PlansEndWithTheRefresh DEF PlanInv
  <2>5. gone + Len(job.todo) = Len(plan)
    <3> HIDE DEF plan
    <3> QED BY <2>1, <2>4
  <2> HIDE DEF plan, gone
  <2> QED BY <2>1, <2>2, <2>3, <2>5 DEF Step
<1> HIDE DEF gone
<1>4. CASE job.stage = "all" /\ job.todo[2] = "charting"
  <2>1. plan = StepsOf("all")
    BY <1>4
  <2> HIDE DEF plan
  <2>2. gone + 2 \in 1 .. 10
    <3>1. Len(plan) = 10
      BY <1>1, <2>1
    <3> DEFINE n == Len(job.todo)
    <3>2. n \in Nat /\ n > 1 /\ gone \in Nat /\ gone + n = 10
      BY <1>3, <3>1
    <3> HIDE DEF n
    <3> QED BY <3>2
  <2>3. gone + 2 = 5
    BY <1>1, <1>3, <1>4, <2>1, <2>2
  <2>4. gone + 1 = 4
    BY <1>3, <2>3
  <2> QED BY <1>1, <1>3, <2>1, <2>4
<1>5. CASE job.stage = "events" /\ job.todo[2] = "prominence"
  <2>1. plan = StepsOf("events")
    BY <1>5
  <2> HIDE DEF plan
  <2>2. gone + 2 \in 1 .. 6
    <3>1. Len(plan) = 6
      BY <1>2, <2>1
    <3> DEFINE n == Len(job.todo)
    <3>2. n \in Nat /\ n > 1 /\ gone \in Nat /\ gone + n = 6
      BY <1>3, <3>1
    <3> HIDE DEF n
    <3> QED BY <3>2
  <2>3. gone + 2 = 2
    BY <1>2, <1>3, <1>5, <2>1, <2>2
  <2>4. gone + 1 = 1
    BY <1>3, <2>3
  <2> QED BY <1>2, <1>3, <2>1, <2>4
<1> QED BY <1>4, <1>5

\* What a step does to the plan: nothing, the next step of it, its end, or a new one.
LEMMA PlanMoves ==
    ASSUME JobInv, [Next]_vars
    PROVE  \/ job'.todo = job.todo /\ job'.stage = job.stage /\ (job'.open \/ job'.open = job.open)
           \/ /\ ~Idle /\ Advance
              /\ Step \in RunStages \cup {"reconcile", "prune"} \cup RefreshSteps \/ EventsStage
           \/ job'.todo = <<>>
           \/ \E stage \in Stages : job'.todo = StepsOf(stage) /\ job'.stage = stage
<1>1. CASE Publish \/ ReferenceStage \/ PlayersCutShort \/ Merge \/ ChartingStage \/ UNCHANGED vars
  BY <1>1 DEF Publish, ReferenceStage, PlayersCutShort, Merge, ChartingStage, vars, jobVars
<1>2. ASSUME NEW stage \in Stages, NEW force \in BOOLEAN, Launch(stage, force)
      PROVE  job'.todo = StepsOf(stage) /\ job'.stage = stage
  BY <1>2 DEF Launch, Ended
<1>3. CASE Weekly \/ ByHand
  BY <1>2, <1>3, LoadJobAssumption DEF Weekly, ByHand, Stages
<1>4. CASE StageFails \/ Interrupted
  BY <1>4 DEF StageFails, Interrupted, Abandon, Done, Ended
<1>5. CASE SkipStage \/ FinishRun \/ Reconciled \/ PruneStage \/ EventsStage
  BY <1>5 DEF SkipStage, FinishRun, Reconciled, PruneStage, EventsStage, Doing, Step, Idle
<1>6. CASE StartRun \/ SkipMatchFile \/ OpenMatchFile \/ WriteMatchRow \/ EndMatchFile
  BY <1>6 DEF StartRun, SkipMatchFile, OpenMatchFile, WriteMatchRow, EndMatchFile, InMatches,
              JobInv, JobType, Jobs
<1>7. CASE RefreshStage
  <2>1. ~Idle /\ Step \in RefreshSteps
    BY <1>7 DEF RefreshStage, Doing, Step, RefreshSteps
  <2>2. Advance \/ UNCHANGED job
    BY <1>7 DEF RefreshStage
  <2> QED BY <2>1, <2>2
<1> QED BY <1>1, <1>3, <1>4, <1>5, <1>6, <1>7 DEF Next, Work

\* The plan is followed to its end.
LEMMA PlanStep ==
    ASSUME JobInv, PlanInv, [Next]_vars
    PROVE  PlanInv'
<1>1. CASE job'.todo = job.todo /\ job'.stage = job.stage
  BY <1>1 DEF PlanInv, Idle
<1>2. CASE job'.todo = <<>>
  BY <1>2 DEF PlanInv, Idle
<1>3. ASSUME NEW stage \in Stages, job'.todo = StepsOf(stage), job'.stage = stage
      PROVE  PlanInv'
  <2>1. Len(StepsOf(stage)) \in Nat
    BY PlansEndWithTheRefresh
  <2> QED BY <1>3, <2>1 DEF PlanInv
<1>4. CASE ~Idle /\ Advance
  <2>1. CASE Len(job.todo) = 1
    BY <1>4, <2>1 DEF Advance, Done, Ended, PlanInv, Idle
  <2>2. CASE Len(job.todo) # 1
    <3>1. job \in Jobs /\ job.todo \in Seq(StepNames) /\ job.todo # <<>>
      BY <1>4 DEF JobInv, JobType, Jobs, Idle
    <3>2. job'.todo = Tail(job.todo) /\ job'.stage = job.stage
      BY <1>4, <2>2, <3>1 DEF Advance, Jobs
    <3>3. /\ Len(Tail(job.todo)) = Len(job.todo) - 1 /\ Len(job.todo) \in Nat \ {0}
          /\ \A i \in 1 .. Len(Tail(job.todo)) : Tail(job.todo)[i] = job.todo[i + 1]
      BY <3>1, EmptySeq, HeadTailProperties
    <3> DEFINE plan == StepsOf(job.stage)
               gone == Len(plan) - Len(job.todo)
    <3>4. /\ job.stage \in Stages /\ gone \in Nat
          /\ \A i \in 1 .. Len(job.todo) : job.todo[i] = plan[gone + i]
      BY <1>4 DEF PlanInv
    <3>5. Len(plan) \in Nat
      BY <3>4, PlansEndWithTheRefresh
    <3>6. Len(plan) - Len(Tail(job.todo)) = gone + 1
      <4> DEFINE n == Len(job.todo)  m == Len(Tail(job.todo))  p == Len(plan)
      <4>1. n \in Nat /\ m = n - 1 /\ p \in Nat /\ gone = p - n
        BY <3>3, <3>5
      <4> HIDE DEF n, m, p, gone
      <4>2. p - m = gone + 1
        BY <4>1
      <4> QED BY <4>2 DEF m, p
    <3>7. \A i \in 1 .. Len(Tail(job.todo)) : Tail(job.todo)[i] = plan[(gone + 1) + i]
      <4> HIDE DEF plan, gone
      <4> SUFFICES ASSUME NEW i \in 1 .. Len(Tail(job.todo))
                   PROVE  Tail(job.todo)[i] = plan[(gone + 1) + i]
        OBVIOUS
      <4>1. i + 1 \in 1 .. Len(job.todo) /\ gone + (i + 1) = (gone + 1) + i
        BY <3>3, <3>4
      <4> QED BY <3>3, <3>4, <4>1
    <3>8. gone + 1 \in Nat
      BY <3>4
    <3> HIDE DEF gone
    <3> QED BY <3>2, <3>4, <3>6, <3>7, <3>8 DEF PlanInv
  <2> QED BY <2>1, <2>2
<1> QED BY <1>1, <1>2, <1>3, <1>4, PlanMoves

\* Run: what was written is what would be written, until the next stage moves the rows.
LEMMA SettledStep ==
    ASSUME JobInv, PlanInv, EventsAreSettled, [Next]_vars
    PROVE  EventsAreSettled'
<1> DEFINE Place(j) == <<j.stage, Head(j.todo)>> \in {<<"all", "charting">>, <<"events", "prominence">>}
<1> SUFFICES ASSUME job'.todo # <<>>, ~job'.open, Place(job')
             PROVE  Written(Placed)' = events' /\ Linked(Placed)' = eventOf'
  BY DEF EventsAreSettled, Idle, Step
<1>1. CASE EventsStage
  <2>1. events' = Written(Placed) /\ eventOf' = Linked(Placed) /\ tournaments' = tournaments
    BY <1>1 DEF EventsStage, DeriveEvents, matchVars, tables
  <2> QED BY <2>1, WrittenTwice, SamePlaces
<1>2. CASE ~EventsStage /\ job'.todo = job.todo /\ job'.stage = job.stage /\ (job'.open \/ job'.open = job.open)
  <2>1. ~Idle /\ ~job.open /\ Place(job)
    BY <1>2 DEF Idle
  <2>2. Written(Placed) = events /\ Linked(Placed) = eventOf
    BY <2>1 DEF EventsAreSettled, Step
  <2>3. events' = events /\ eventOf' = eventOf
    BY <1>2, OnlyEventsStageWrites DEF eventVars
  <2>4. ~WriteMatchRow
    BY <2>1 DEF WriteMatchRow, Doing
  <2>5. tournaments' = tournaments
    BY <2>4, DrawsStand
  <2> QED BY <2>2, <2>3, <2>5, SameWritten, SamePlaces
<1>3. CASE /\ ~EventsStage /\ ~Idle /\ Advance
           /\ Step \in RunStages \cup {"reconcile", "prune"} \cup RefreshSteps
  <2>1. job \in Jobs /\ job.todo \in Seq(StepNames) /\ job.todo # <<>>
    BY <1>3 DEF JobInv, JobType, Jobs, Idle
  <2>2. Len(job.todo) # 1
    BY <1>3 DEF Advance, Done, Ended
  <2>3. job'.todo = Tail(job.todo) /\ job'.stage = job.stage
    BY <1>3, <2>1, <2>2 DEF Advance, Jobs
  <2>4. Len(job.todo) > 1 /\ Head(Tail(job.todo)) = job.todo[2]
    <3>1. /\ Len(Tail(job.todo)) = Len(job.todo) - 1 /\ Len(job.todo) \in Nat \ {0}
          /\ \A i \in 1 .. Len(Tail(job.todo)) : Tail(job.todo)[i] = job.todo[i + 1]
      BY <2>1, EmptySeq, HeadTailProperties
    <3>2. 1 \in 1 .. Len(Tail(job.todo)) /\ Len(job.todo) > 1
      <4> DEFINE n == Len(job.todo)  m == Len(Tail(job.todo))
      <4>1. n \in Nat \ {0} /\ m = n - 1 /\ n # 1
        BY <2>2, <3>1
      <4> HIDE DEF n, m
      <4>2. 1 \in 1 .. m /\ n > 1
        BY <4>1
      <4> QED BY <4>2 DEF n, m
    <3>3. Tail(job.todo)[1] = job.todo[2]
      BY <3>1, <3>2
    <3> QED BY <3>2, <3>3
  <2>5. Step = "events"
    BY <1>3, <2>3, <2>4, EventsComeBefore
  <2> QED BY <1>3, <2>5 DEF RunStages, RefreshSteps
<1>4. ASSUME NEW stage \in Stages, job'.todo = StepsOf(stage), job'.stage = stage
      PROVE  FALSE
  <2>1. CASE stage = "all"
    <3>1. Head(StepsOf("all")) = "matches"
      <4> DEFINE s == <<"matches", "reference", "reconcile", "events", "charting">>
      <4>1. s \in Seq(StepNames) /\ Len(s) = 5 /\ s[1] = "matches"
        BY DEF StepNames, RunStages
      <4>2. Refresh \in Seq(StepNames)
        BY DEF Refresh, StepNames, RefreshSteps
      <4>3. StepsOf("all") = s \o Refresh
        BY DEF StepsOf
      <4> HIDE DEF s
      <4>4. s \o Refresh \in Seq(StepNames) /\ (s \o Refresh)[1] = "matches"
        <5> s \in Seq(StepNames) /\ Refresh \in Seq(StepNames)
          BY <4>1, <4>2
        <5>1. s \o Refresh \in Seq(StepNames) /\ \A i \in 1 .. Len(s) : (s \o Refresh)[i] = s[i]
          BY Concatenated
        <5> QED BY <4>1, <5>1
      <4> DEFINE t == s \o Refresh
      <4> HIDE DEF t
      <4>5. t \in Seq(StepNames) /\ t[1] = "matches" /\ StepsOf("all") = t
        BY <4>3, <4>4 DEF t
      <4>6. Head(t) = t[1]
        BY <4>5
      <4> QED BY <4>5, <4>6
    <3> QED BY <1>4, <2>1, <3>1
  <2>2. CASE stage = "events"
    <3>1. Head(StepsOf("events")) = "events"
      <4> DEFINE s == <<"events">>
      <4>1. s \in Seq(StepNames) /\ Len(s) = 1 /\ s[1] = "events"
        BY DEF StepNames
      <4>2. Refresh \in Seq(StepNames)
        BY DEF Refresh, StepNames, RefreshSteps
      <4>3. StepsOf("events") = s \o Refresh
        BY DEF StepsOf
      <4> HIDE DEF s
      <4>4. s \o Refresh \in Seq(StepNames) /\ (s \o Refresh)[1] = "events"
        <5> s \in Seq(StepNames) /\ Refresh \in Seq(StepNames)
          BY <4>1, <4>2
        <5>1. s \o Refresh \in Seq(StepNames) /\ \A i \in 1 .. Len(s) : (s \o Refresh)[i] = s[i]
          BY Concatenated
        <5> QED BY <4>1, <5>1
      <4> DEFINE t == s \o Refresh
      <4> HIDE DEF t
      <4>5. t \in Seq(StepNames) /\ t[1] = "events" /\ StepsOf("events") = t
        BY <4>3, <4>4 DEF t
      <4>6. Head(t) = t[1]
        BY <4>5
      <4> QED BY <4>5, <4>6
    <3> QED BY <1>4, <2>2, <3>1
  <2> QED BY <1>4, <2>1, <2>2
<1> QED BY <1>1, <1>2, <1>3, <1>4, PlanMoves

\* Once the events stage ran, running it again changes no event and no link, until the
\* load goes on (events.Run).
THEOREM EventsSettle == Spec => []EventsAreSettled
<1>1. JobInit => PlanInv /\ EventsAreSettled
  BY DEF JobInit, Ended, PlanInv, EventsAreSettled, Idle
<1>2. LoadInv /\ PlanInv /\ EventsAreSettled /\ [Next]_vars => PlanInv' /\ EventsAreSettled'
  BY PlanStep, SettledStep DEF LoadInv
<1> QED BY <1>1, <1>2, LoadInvariant, PTL DEF Spec
==============================================================================
