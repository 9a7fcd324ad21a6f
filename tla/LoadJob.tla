------------------------------- MODULE LoadJob -------------------------------
(***************************************************************************)
(* A load (cmd/ingest): the stages in their order, the runs they record,   *)
(* the refresh that follows, and what a stage that fails, a cancelled      *)
(* context and a killed process leave. Started weekly by the CronJob with  *)
(* every stage, and by hand with any.                                      *)
(*                                                                         *)
(* The match stage reads a file at a time here; its readers, batches and   *)
(* faults are IngestPipeline's. Reconcile merges players without matches;  *)
(* what identity decides, and the other tables it moves, are Identity's.   *)
(***************************************************************************)
EXTENDS ReferenceLoad, Charting, Events

CONSTANTS
    Deployments,  \* [files, reference, charting]: the registry of sources; legacy: the
                  \* keys that are fused rows in its database; and the bounds publishes,
                  \* faults (loads that do not end well), manual (loads by hand)
    MergePairs,   \* the <<duplicate, canonical>> identity may accept
    ManualStages  \* -stage of the loads started by hand

RunStages == {"matches", "reference", "charting"}

\* A database written under the old key holds every row of the files it recorded, its
\* fused rows a third player, and nobody is merged into himself.
ASSUME LoadJobAssumption ==
    /\ ManualStages \subseteq RunStages \cup {"all", "reconcile", "events", "refresh", "prune"}
    /\ \A d \in Deployments :
          /\ d.files \subseteq Files /\ d.legacy \subseteq Keys
          /\ {d.reference, d.charting} \subseteq BOOLEAN
          /\ {d.publishes, d.faults, d.manual} \subseteq Nat
          /\ \A k \in d.legacy : ThirdMan \notin PairOf[k]
          /\ \A k \in d.legacy, s \in Sources :
                \A e \in Range(FeedRows[<<s, UnitOf[k]>>][Min(Versions)]) : e.key \in d.legacy
    /\ MergePairs \subseteq {m \in Players \X Players : m[1] # m[2]}

VARIABLES
    registry,     \* the registry in force
    mirror,       \* the version a mirror has of each match file, or Null
    job,          \* the process
    runs,         \* ingest_runs: the newest of each stage: none, open, ok, failed, or
                  \* lost: still open in the table, for FinishRun could not write
    prunedFrom,   \* the <<source, season>> prune forgot for a key it deleted last
    faults, manual

jobVars == <<registry, mirror, job, runs, prunedFrom, faults, manual>>
vars == <<matchVars, refVars, eventVars, chartVars, jobVars>>

\* todo: the steps left, the first one running; open: the stage has its run;
\* started: stages that opened one; known, left, file, version, row: runMatches.
NoFile == [file |-> Null, version |-> Null, row |-> 0]
NothingKnown == [f \in Files |-> Null]
Ended(stage, outcome, started, last) ==
    [stage |-> stage, force |-> FALSE, todo |-> <<>>, open |-> FALSE, started |-> started,
     last |-> last, outcome |-> outcome, known |-> NothingKnown, left |-> {}, at |-> NoFile]

Refresh == <<"prominence", "derive", "clutch", "serve", "totals">>
StepsOf(stage) ==
    CASE stage = "all"     -> <<"matches", "reference", "reconcile", "events", "charting">> \o Refresh
      [] stage = "refresh" -> Refresh
      [] stage = "prune"   -> <<"prune">>
      [] OTHER             -> <<stage>> \o Refresh

JobInit ==
    /\ RefInit /\ EventsInit /\ ChartInit
    /\ registry \in Deployments
    /\ MatchInit(registry.legacy)
    /\ mirror = [f \in Files |-> IF f \in registry.files THEN Min(Versions) ELSE Null]
    /\ job = Ended(Null, "none", {}, Null)
    /\ runs = [s \in RunStages |-> "none"]
    /\ prunedFrom = [k \in Keys |-> Null]
    /\ faults = 0 /\ manual = 0

Idle == job.todo = <<>>
Doing(step) == ~Idle /\ Head(job.todo) = step
Step == Head(job.todo)

-----------------------------------------------------------------------------
(* The world around a load.                                                *)
Publish ==
    /\ published < registry.publishes
    /\ \/ /\ \E f \in registry.files :
               /\ NextVersion(mirror[f]) \in DOMAIN FeedRows[f]
               /\ mirror' = [mirror EXCEPT ![f] = NextVersion(@)]
          /\ published' = published + 1
          /\ UNCHANGED <<served, refTables, known, ref, chartVars>>
       \/ /\ registry.reference
          /\ RefPublish
          /\ UNCHANGED <<mirror, chartVars>>
       \/ /\ registry.charting
          /\ \E f \in ChartFiles :
               /\ chartServed[f] # Null
               /\ \E v \in {Null, chartServed[f] + 1} \cap ({Null} \cup Versions) :
                     chartServed' = [chartServed EXCEPT ![f] = v]
          /\ published' = published + 1
          /\ UNCHANGED <<mirror, served, refTables, known, ref, chartTables, ct>>
    /\ UNCHANGED <<matchVars, eventVars, registry, job, runs, prunedFrom, faults, manual>>

Launch(stage, force) ==
    /\ Idle
    /\ job' = [Ended(stage, "running", {}, Null) EXCEPT !.force = force, !.todo = StepsOf(stage)]
    /\ UNCHANGED <<matchVars, refVars, eventVars, chartVars, registry, mirror, runs, prunedFrom, faults>>
Weekly == Launch("all", FALSE) /\ UNCHANGED manual
ByHand ==
    /\ manual < registry.manual
    /\ manual' = manual + 1
    /\ \E stage \in ManualStages, force \in BOOLEAN : Launch(stage, force)

-----------------------------------------------------------------------------
(* StartRun and FinishRun around the stages that have a run.               *)
Done(outcome) == Ended(job.stage, outcome, job.started, job.last)
\* The end of a step, and of the load after its last.
Advance ==
    job' = IF Len(job.todo) = 1 THEN Done("success")
           ELSE [job EXCEPT !.todo = Tail(@), !.open = FALSE, !.known = NothingKnown]

Configured(stage) ==
    CASE stage = "reference" -> registry.reference
      [] stage = "charting"  -> registry.charting
      [] OTHER               -> TRUE

SkipStage ==
    /\ ~Idle /\ Step \in RunStages /\ ~Configured(Step)
    /\ Advance
    /\ UNCHANGED <<matchVars, refVars, eventVars, chartVars, registry, mirror, runs, prunedFrom, faults, manual>>

StartRun ==
    /\ ~Idle /\ Step \in RunStages /\ Configured(Step) /\ ~job.open
    /\ runs' = [runs EXCEPT ![Step] = "open"]
    /\ job' = [job EXCEPT !.open = TRUE, !.started = @ \cup {Step}, !.last = Step,
                          !.known = IF Step = "matches" /\ ~job.force THEN ledger ELSE @,
                          !.left = IF Step = "matches" THEN registry.files ELSE {}]
    /\ IF Step = "reference" THEN RefStart(job.force) /\ UNCHANGED chartVars
       ELSE IF Step = "charting" THEN ChartStart(job.force) /\ UNCHANGED refVars
       ELSE UNCHANGED <<refVars, chartVars>>
    /\ UNCHANGED <<matchVars, eventVars, registry, mirror, prunedFrom, faults, manual>>

Loaded ==
    CASE Step = "matches"   -> job.left = {} /\ job.at = NoFile
      [] Step = "reference" -> ref.at = "done"
      [] OTHER              -> ct.at = "done"
\* Mutant: an error does not close the run.
ClosedIfOk(outcome) == IF job.open /\ outcome # "failed" THEN [runs EXCEPT ![Step] = outcome] ELSE runs

ClosedAs(outcome) == IF job.open THEN [runs EXCEPT ![Step] = outcome] ELSE runs
\* The stage logs an error of FinishRun's own and goes on with its result.
Closed(outcome) ==
    \/ runs' = ClosedAs(outcome) /\ UNCHANGED faults
    \/ /\ job.open /\ faults < registry.faults /\ faults' = faults + 1
       /\ runs' = ClosedAs("lost")

FinishRun ==
    /\ ~Idle /\ Step \in RunStages /\ job.open /\ Loaded
    /\ Closed("ok")
    /\ Advance
    /\ ref' = RefIdle /\ ct' = ChartIdle
    /\ UNCHANGED <<matchVars, served, published, refTables, known, eventVars, chartServed,
                   chartTables, registry, mirror, prunedFrom, manual>>

\* What a process that ends early holds is lost with it.
Abandon(outcome) ==
    /\ job' = Done(outcome)
    /\ ref' = RefIdle /\ ct' = ChartIdle /\ derivedTo' = 0
    /\ UNCHANGED <<tables, derivedTables, served, published, refTables, known, eventVars,
                   chartServed, chartTables, registry, mirror, prunedFrom, manual>>

\* A stage that fails closes its run with the error, if the database that may have
\* failed it lets it, and the load exits with 1.
StageFails ==
    /\ ~Idle
    /\ IF ref.at = "failed" \/ ct.at = "failed" THEN Closed("failed")
       ELSE /\ faults < registry.faults /\ faults' = faults + 1
            /\ runs' \in {ClosedAs("failed"), ClosedAs("lost")}
    /\ Abandon("failed")

\* A killed process closes nothing. A cancelled context fails FinishRun too,
\* and the load exits with 0.
Interrupted ==
    /\ ~Idle /\ faults < registry.faults /\ faults' = faults + 1
    /\ Abandon("interrupted")
    /\ UNCHANGED runs

-----------------------------------------------------------------------------
(* runMatches.                                                             *)
InMatches == Doing("matches") /\ job.open /\ job.at = NoFile
othersOfMatches == <<refVars, eventVars, chartVars, registry, mirror, runs, prunedFrom, faults, manual>>

SkipMatchFile ==
    /\ InMatches
    /\ \E f \in job.left :
          /\ mirror[f] = Null \/ mirror[f] = job.known[f]
          /\ job' = [job EXCEPT !.left = @ \ {f}]
    /\ UNCHANGED <<matchVars, othersOfMatches>>

OpenMatchFile ==
    /\ InMatches
    /\ \E f \in job.left :
          /\ mirror[f] # Null /\ mirror[f] # job.known[f]
          /\ job' = [job EXCEPT !.left = @ \ {f},
                                !.at = [file |-> f, version |-> mirror[f], row |-> 1]]
    /\ UNCHANGED <<matchVars, othersOfMatches>>

Feed == FeedRows[job.at.file][job.at.version]

WriteMatchRow ==
    /\ Doing("matches") /\ job.at # NoFile /\ job.at.row <= Len(Feed)
    /\ WriteRow(job.at.file[1], Feed[job.at.row].key, Feed[job.at.row].row)
    /\ job' = [job EXCEPT !.at.row = @ + 1]
    /\ UNCHANGED othersOfMatches

\* record, of a file that was read to its end.
EndMatchFile ==
    /\ Doing("matches") /\ job.at # NoFile /\ job.at.row > Len(Feed)
    /\ RecordMatchFile(job.at.file, job.at.version)
    /\ job' = [job EXCEPT !.at = NoFile]
    /\ UNCHANGED othersOfMatches

-----------------------------------------------------------------------------
(* The other stages and the refresh.                                       *)
unmoved == <<registry, mirror, runs, faults, manual>>

ReferenceStage ==
    /\ Doing("reference") /\ job.open
    /\ RefStep
    /\ UNCHANGED <<eventVars, chartVars, job, prunedFrom, unmoved>>
\* The stage dies while it writes the player table.
PlayersCutShort ==
    /\ Doing("reference") /\ job.open /\ faults < registry.faults
    /\ faults' = faults + 1
    /\ LoadSomePlayers
    /\ UNCHANGED <<alias, tournaments, matches, appearances, ledger, derivedTables, derivedTo>>
    /\ UNCHANGED <<eventVars, chartVars, job, prunedFrom, registry, mirror, runs, manual>>

Merge ==
    /\ Doing("reconcile")
    /\ \E m \in MergePairs :
          /\ {m[1], m[2]} \subseteq players
          /\ \A k \in Held : m[1] \notin SidesOf(k)
          /\ MergeRankings(m[1], m[2])
    /\ UNCHANGED <<tournaments, matches, appearances, ledger, derivedTables, derivedTo,
                   eventVars, chartVars, job, prunedFrom, unmoved>>
Reconciled ==
    /\ Doing("reconcile")
    /\ Advance
    /\ UNCHANGED <<matchVars, refVars, eventVars, chartVars, prunedFrom, unmoved>>

EventsStage ==
    /\ Doing("events") /\ DeriveEvents /\ Advance
    /\ UNCHANGED <<refVars, chartVars, prunedFrom, unmoved>>

ChartingStage ==
    /\ Doing("charting") /\ job.open
    /\ ChartStep
    /\ UNCHANGED <<refVars, eventVars, job, prunedFrom, unmoved>>

PruneStage ==
    /\ Doing("prune")
    /\ Prune /\ Cascade /\ Advance
    /\ prunedFrom' = [k \in Keys |-> IF k \in Collapsed THEN <<matches[k].source, Season(k)>>
                                     ELSE prunedFrom[k]]
    /\ UNCHANGED <<refVars, eventVars, chartServed, chartLedger, chartUnresolved, ct, unmoved>>

RefreshStage ==
    /\ \/ Doing("prominence") /\ RefreshProminence /\ Advance
       \/ Doing("derive") /\ DerivePage(job.force)
                          /\ IF LastPage(job.force) THEN Advance ELSE UNCHANGED job
       \/ Doing("clutch") /\ RebuildClutchBaselines /\ Advance
       \/ Doing("serve") /\ RefreshServeBaselines /\ Advance
       \/ Doing("totals") /\ RefreshPlayerTotals /\ Advance
    /\ UNCHANGED <<refVars, eventVars, chartVars, prunedFrom, unmoved>>

Work ==
    \/ SkipStage \/ StartRun \/ FinishRun
    \/ SkipMatchFile \/ OpenMatchFile \/ WriteMatchRow \/ EndMatchFile
    \/ ReferenceStage \/ Merge \/ Reconciled \/ EventsStage \/ ChartingStage
    \/ PruneStage \/ RefreshStage
    \/ (ref.at = "failed" \/ ct.at = "failed") /\ StageFails
Next == Publish \/ Weekly \/ ByHand \/ Work \/ StageFails \/ Interrupted \/ PlayersCutShort

\* The CronJob starts a load every week, and a load that runs takes its next
\* step: WF_vars(Work), stated without ENABLED, for a running load always has a
\* step and each step of it moves one of these.
progress == <<job, ref, ct, derivedTo, alias>>
Spec ==
    /\ JobInit /\ [][Next]_vars
    /\ WF_vars(Weekly) /\ ([]<>Idle \/ []<><<progress' # progress>>_vars)
-----------------------------------------------------------------------------
(* Properties.                                                             *)

\* The columns the parser derives are of the score that is stored: an upsert
\* that keeps an older score (store.go) may not leave another's figures.
DerivedDescribeScore ==
    \A k \in Held : matches[k].derived # Null =>
        /\ ~matches[k].incomplete
        /\ matches[k].derived = Classified(matches[k].line, matches[k].bestOf).derived

\* However often the sources disagree on a match, its two sides say who won it
\* as the match does, and it claims statistics only when both sides have them.
SidesAgreeWithTheMatch ==
    \A k \in Held \ Collapsed :
        /\ matches[k].winner \in SidesOf(k)
        /\ \A p \in SidesOf(k) : Won(k, p) <=> p = matches[k].winner
        /\ matches[k].detailed => \A p \in SidesOf(k) : Served(k, p)

Settled == Idle /\ job.outcome = "success" /\ job.stage # "prune"

\* After a load that succeeded, whatever its stage, what the refresh derives is
\* what the rows say (cmd/ingest, run), but for one thing it leaves behind: a
\* player whose last match was moved or pruned keeps the prominence he had, for
\* RefreshProminence writes no player without a match, and search still reads it.
FreshAfterSuccess ==
    Settled =>
        /\ clutch = ClutchTable /\ serve = ServeTable /\ totals = TotalsTable
        /\ \A p \in WithMatches : prominence[p] = ProminenceOf(p)
        /\ \A k \in Held : matches[k].derived = Null => \/ matches[k].incomplete
                                                        \/ matches[k].line = Blank

Sum(rows, column) == SumFunction([r \in rows |-> r[column]])
\* Every match won is one lost, and every set, game and tiebreak won by one
\* side was played by both (RefreshPlayerTotals).
TotalsBalance ==
    Settled /\ Collapsed = {} =>
        /\ 2 * Sum(totals, "wins") = Sum(totals, "matches")
        /\ 2 * Sum(totals, "setsWon") = Sum(totals, "setsPlayed")
        /\ 2 * Sum(totals, "gamesWon") = Sum(totals, "gamesPlayed")
        /\ 2 * Sum(totals, "tiebreaksWon") = Sum(totals, "tiebreaksPlayed")
        /\ 2 * Sum(totals, "decidersWon") = Sum(totals, "deciders")

\* A match a recorded file carries is held, unless prune deleted it under the
\* name of another source or season than the file's (prune.go, forget).
PrunedMatchesComeBack ==
    \A f \in Files : ledger[f] # Null =>
        \A i \in DOMAIN FeedRows[f][ledger[f]] :
            LET k == FeedRows[f][ledger[f]][i].key IN
            matches[k] = Null => prunedFrom[k] \notin {Null, f}

\* The newest run of a stage tells how it ended: left open only by a load that
\* was killed or cancelled in it, or whose FinishRun could not write; with an error
\* only in the stage at which a load failed (StartRun, FinishRun).
RunRecordsFollowTheJob ==
    Idle => \A s \in job.started :
        /\ s # job.last \/ job.outcome = "success" => runs[s] \in {"ok", "lost"}
        /\ runs[s] = "open" => s = job.last /\ job.outcome = "interrupted"
        /\ runs[s] = "failed" => s = job.last /\ job.outcome = "failed"

\* A ranking file that is recorded has every row held by the player its id is
\* now, whatever was merged since (loadRankingFile, Merge).
RecordedRankingsAreHeld ==
    \A f \in Range(RankPaths) : refLedger[f] # Null =>
        \A i \in DOMAIN RankRows[f][refLedger[f]] :
            LET row == RankRows[f][refLedger[f]][i] IN
            rankings[Resolve(row.id)][row.date] # Null

\* Slugs belong to their event: one that stays keeps its own, and none is
\* handed to another event (Store.Write).
SlugsAreKept ==
    [][\A e \in DOMAIN events, g \in DOMAIN events' :
          (events[e].slug = events'[g].slug) <=> e = g]_events

\* A run keyed by name has one edition a season, and so has a name bridged to
\* a number, until the rows have another name (ordinalsWithinSeason).
OneEditionASeason ==
    \A d, e \in Draws :
        /\ d # e /\ eventOf[d] # Null /\ eventOf[e] # Null
        /\ eventOf[d].event = eventOf[e].event
        /\ \/ eventOf[d].link = "name"
           \/ /\ {eventOf[d].link, eventOf[e].link} = {"bridged"} /\ SameName(d, e)
              /\ {eventOf[d], eventOf[e]} \subseteq Placed
        => SeasonOf[d] # SeasonOf[e]

\* Run: "Idempotent; a second run over the same rows changes nothing."
EventsAreSettled ==
    (~Idle /\ ~job.open /\ <<job.stage, Step>> \in {<<"all", "charting">>, <<"events", "prominence">>}) =>
        LET placed == Placed IN Written(placed) = events /\ Linked(placed) = eventOf

\* What a read of the charting files accounts for: every charted match is
\* attached, or listed as unresolved, or gave its row to a later one, and never
\* attached and listed (Write, RecordUnresolved). Figures hang on a match that
\* is there and on its two players.
ChartedAreAccountedFor ==
    LET attached == {charted[k].id : k \in {j \in Keys : charted[j] # Null}}
        listed == {x.id : x \in chartUnresolved}
    IN
    /\ \A k \in Keys : charted[k] # Null =>
          k \in Held /\ DOMAIN charted[k].figures \subseteq SidesOf(k)
    /\ attached \cap listed = {}
    /\ ct.at = "done" /\ (\A f \in ChartFiles : ct.body[f] # Null) =>
          \A m \in Range(ChartRows[ct.body["matches"]]) :
              \/ m.id \in attached \cup listed
              \/ Reason(m) = Null /\ charted[RowOf(m)] # Null

\* Skipping the charting files is sound: both recorded as served, the figures
\* attached are those of the recorded version (load, record).
SkippedChartingIsCurrent ==
    (\A f \in ChartFiles : chartLedger[f] # Null /\ chartLedger[f] = chartServed[f]) =>
        \A k \in Keys :
            /\ charted[k] # Null
            /\ \E m \in Range(ChartRows[chartLedger["matches"]]) : m.id = charted[k].id
            => \A p \in DOMAIN charted[k].figures : charted[k].figures[p] = chartLedger["stats"]

\* Publishing and faults over, the weekly load succeeds again and again: one
\* that finds nothing new is no failure. A registry whose reference mirror has
\* no file at all fails each load before its refresh.
LoadsSucceed ==
    (registry.reference => <>[](served[PlayerTable] # Null)) => []<>Settled

\* The rankings of a player who is there arrive, however late he came
\* (loadRankingFile: a file with unresolved rows is not recorded).
RankingsArrive ==
    (registry.reference /\ <>[](served[PlayerTable] # Null)) =>
        <>[](\A f \in Range(RankPaths) : served[f] # Null =>
                \A i \in DOMAIN RankRows[f][served[f]] :
                    LET row == RankRows[f][served[f]][i] IN
                    row.id \in players => rankings[row.id][row.date] # Null)
=============================================================================
