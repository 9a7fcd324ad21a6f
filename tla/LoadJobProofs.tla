---------------------------- MODULE LoadJobProofs ----------------------------
(***************************************************************************)
(* What a load keeps true of the match tables, its run records and the     *)
(* ledger of match files, however it is cut short, repeated or forced;     *)
(* and that the tables it derives are of the rows, and add up.             *)
(***************************************************************************)
EXTENDS LoadJob, SetLemmas, SequenceTheorems

RefreshSteps == {"prominence", "derive", "clutch", "serve", "totals"}
StepNames == RunStages \cup {"reconcile", "events", "prune"} \cup RefreshSteps
Stages == RunStages \cup {"all", "reconcile", "events", "refresh", "prune"}
OpenFiles == [file : Files, version : Nat, row : Nat]
Jobs ==
    [stage : Stages \cup {Null}, force : BOOLEAN, todo : Seq(StepNames), open : BOOLEAN,
     started : SUBSET RunStages, last : RunStages \cup {Null},
     outcome : {"none", "running", "success", "failed", "interrupted"},
     known : [Files -> Nat \cup {Null}], left : SUBSET Files, at : OpenFiles \cup {NoFile}]

WorldType ==
    /\ registry \in Deployments
    /\ mirror \in [Files -> Nat \cup {Null}]
    /\ \A f \in Files : mirror[f] # Null => mirror[f] \in DOMAIN FeedRows[f]
TableType ==
    /\ matches \in [Keys -> MatchRow \cup {Null}]
    /\ appearances \in [Keys -> [Players -> Side \cup {Null}]]
    /\ \A k \in Keys : matches[k] = Null => appearances[k] = NoSides
    /\ ledger \in [Files -> Nat \cup {Null}]
    /\ \A f \in Files : ledger[f] # Null => ledger[f] \in DOMAIN FeedRows[f]
    /\ derivedTo \in Nat
    /\ prunedFrom \in [Keys -> (Sources \X {SeasonOf[d] : d \in Draws}) \cup {Null}]
JobType ==
    /\ job \in Jobs
    /\ runs \in [RunStages -> {"none", "open", "ok", "failed", "lost"}]

\* The steps left of a load end with the refresh, in its order.
InPlan(todo) ==
    LET n == Len(todo) IN
    /\ n >= 1 => todo[n] = "totals"
    /\ n >= 2 => todo[n - 1] = "serve"
    /\ n >= 3 => todo[n - 2] = "clutch"
    /\ n >= 4 => todo[n - 3] = "derive"
    /\ n >= 5 => todo[n - 4] = "prominence"
    /\ \A i \in 1 .. n - 5 : todo[i] \notin RefreshSteps \cup {"prune"}

\* Where a load can be: on a step of its plan, in a stage with a run open, in a
\* file, on a page of the derivation.
Control ==
    /\ job.stage # "prune" => InPlan(job.todo)
    /\ job.stage = "prune" => job.todo \in {<<>>, <<"prune">>}
    /\ ~Idle => job.outcome = "running"
    /\ job.open => ~Idle /\ Step \in RunStages /\ Configured(Step)
    /\ job.at # NoFile => /\ Doing("matches") /\ job.open
                          /\ job.at.version \in DOMAIN FeedRows[job.at.file]
                          /\ job.at.row \in 1 .. Len(Feed) + 1
    /\ derivedTo # 0 => Doing("derive")

\* A stage that was started has closed its run or could not, unless it runs.
RunsInv ==
    /\ ~Idle => /\ \A s \in job.started : IF job.open /\ s = Step THEN runs[s] = "open"
                                          ELSE runs[s] \in {"ok", "lost"}
                /\ job.open => job.last = Step /\ Step \in job.started
    /\ RunRecordsFollowTheJob
JobInv == JobType /\ Control /\ RunsInv
LoadInv == WorldType /\ TableType /\ JobInv

\* The score of a match that is finished is one that parses as finished, and the
\* columns derived are its own.
ScoreInv(k) ==
    matches[k] # Null =>
        /\ ~matches[k].incomplete => ~Classified(matches[k].line, matches[k].bestOf).incomplete
        /\ matches[k].derived # Null =>
              /\ ~matches[k].incomplete
              /\ matches[k].derived = Classified(matches[k].line, matches[k].bestOf).derived

\* The rows of the open file that were passed are held.
FileInv ==
    job.at # NoFile =>
        \A i \in 1 .. job.at.row - 1 : matches[Feed[i].key] # Null

-----------------------------------------------------------------------------
(* Facts about the constants, the plans and sequences.                     *)

\* What the proofs use of a feed: a row of it names a key, its source and its rows'
\* players are known.
LEMMA FeedFacts ==
    ASSUME NEW f \in Files, NEW v \in DOMAIN FeedRows[f]
    PROVE  /\ v \in Nat /\ f[1] \in Sources
           /\ FeedRows[f][v] \in Seq([key : Keys, row : FileRows])
           /\ \A i \in 1 .. Len(FeedRows[f][v]) :
                 /\ FeedRows[f][v][i].key \in Keys
                 /\ FeedRows[f][v][i].row \in FileRows
<1>1. FeedRows[f] \in Seq(Seq([key : Keys, row : FileRows]))
  BY MatchStoreAssumption
<1>2. v \in 1 .. Len(FeedRows[f]) /\ FeedRows[f][v] \in Seq([key : Keys, row : FileRows])
  BY <1>1
<1>3. f[1] \in Sources
  BY DEF Files
<1>4. \A i \in 1 .. Len(FeedRows[f][v]) : FeedRows[f][v][i] \in [key : Keys, row : FileRows]
  BY <1>2, ElementOfSeq
<1> QED BY <1>2, <1>3, <1>4

\* The elements of s \o t.
LEMMA Concatenated ==
    ASSUME NEW S, NEW s \in Seq(S), NEW t \in Seq(S)
    PROVE  /\ s \o t \in Seq(S) /\ Len(s) \in Nat /\ Len(s \o t) = Len(s) + Len(t)
           /\ \A i \in 1 .. Len(s) : (s \o t)[i] = s[i]
           /\ \A i \in 1 .. Len(t) : (s \o t)[Len(s) + i] = t[i]
OBVIOUS

\* StepsOf: every plan ends with the refresh, but prune's (cmd/ingest, run).
LEMMA PlansEndWithTheRefresh ==
    ASSUME NEW stage \in Stages
    PROVE  /\ StepsOf(stage) \in Seq(StepNames) /\ StepsOf(stage) # <<>>
           /\ stage # "prune" => InPlan(StepsOf(stage)) /\ Len(StepsOf(stage)) >= 5
           /\ stage = "prune" => StepsOf(stage) = <<"prune">>
<1> USE DEF RunStages, StepNames, RefreshSteps
<1>1. Refresh \in Seq(StepNames) /\ Len(Refresh) = 5
      /\ Refresh[1] = "prominence" /\ Refresh[2] = "derive" /\ Refresh[3] = "clutch"
      /\ Refresh[4] = "serve" /\ Refresh[5] = "totals"
  BY DEF Refresh
<1>2. ASSUME NEW s \in Seq(StepNames), \A i \in 1 .. Len(s) : s[i] \notin RefreshSteps \cup {"prune"}
      PROVE  /\ s \o Refresh \in Seq(StepNames) /\ s \o Refresh # <<>> /\ InPlan(s \o Refresh)
             /\ Len(s \o Refresh) >= 5
  <2>1. /\ s \o Refresh \in Seq(StepNames) /\ Len(s \o Refresh) = Len(s) + 5 /\ Len(s) \in Nat
        /\ \A i \in 1 .. Len(s) : (s \o Refresh)[i] = s[i]
        /\ \A i \in 1 .. 5 : (s \o Refresh)[Len(s) + i] = Refresh[i]
    <3> HIDE DEF RunStages, StepNames, RefreshSteps
    <3>1. /\ s \o Refresh \in Seq(StepNames) /\ Len(s) \in Nat
          /\ Len(s \o Refresh) = Len(s) + Len(Refresh)
          /\ \A i \in 1 .. Len(s) : (s \o Refresh)[i] = s[i]
          /\ \A i \in 1 .. Len(Refresh) : (s \o Refresh)[Len(s) + i] = Refresh[i]
      <4>1. Refresh \in Seq(StepNames)
        BY <1>1
      <4> QED BY <4>1, Concatenated
    <3>2. Len(s \o Refresh) = Len(s) + 5
      BY <1>1, <3>1
    <3>3. \A i \in 1 .. 5 : (s \o Refresh)[Len(s) + i] = Refresh[i]
      BY <1>1, <3>1
    <3> QED BY <3>1, <3>2, <3>3
  <2> DEFINE t == s \o Refresh  n == Len(t)
  <2>2. /\ t[n] = "totals" /\ t[n - 1] = "serve" /\ t[n - 2] = "clutch" /\ t[n - 3] = "derive"
        /\ t[n - 4] = "prominence"
    BY <1>1, <2>1
  <2>3. \A i \in 1 .. n - 5 : t[i] \notin RefreshSteps \cup {"prune"}
    BY <1>2, <2>1
  <2>4. t # <<>> /\ n \in Nat /\ n >= 5
    BY <2>1
  <2>5. InPlan(t)
    <3> HIDE DEF t
    <3> QED BY <2>2, <2>3, <2>4 DEF InPlan
  <2> QED BY <2>1, <2>4, <2>5, Zenon
<1>3. CASE stage = "all"
  <2> DEFINE s == <<"matches", "reference", "reconcile", "events", "charting">>
  <2>1. s \in Seq(StepNames) /\ \A i \in 1 .. Len(s) : s[i] \notin RefreshSteps \cup {"prune"}
    OBVIOUS
  <2> QED BY <1>2, <1>3, <2>1 DEF StepsOf
<1>4. CASE stage = "refresh"
  <2>1. InPlan(Refresh) /\ Refresh # <<>>
    BY <1>1 DEF InPlan
  <2> QED BY <1>1, <1>4, <2>1 DEF StepsOf
<1>5. CASE stage = "prune"
  BY <1>5 DEF StepsOf
<1>6. CASE stage \notin {"all", "refresh", "prune"}
  <2>1. <<stage>> \in Seq(StepNames) /\ \A i \in 1 .. Len(<<stage>>) : <<stage>>[i] \notin RefreshSteps \cup {"prune"}
    BY <1>6 DEF Stages
  <2> QED BY <1>2, <1>6, <2>1 DEF StepsOf
<1> QED BY <1>3, <1>4, <1>5, <1>6

\* The rest of a plan is one.
LEMMA TailInPlan ==
    ASSUME NEW todo \in Seq(StepNames), todo # <<>>, InPlan(todo)
    PROVE  Tail(todo) \in Seq(StepNames) /\ InPlan(Tail(todo)) /\ Len(Tail(todo)) = Len(todo) - 1
<1>1. /\ Tail(todo) \in Seq(StepNames) /\ Len(Tail(todo)) = Len(todo) - 1 /\ Len(todo) \in Nat \ {0}
      /\ \A i \in 1 .. Len(Tail(todo)) : Tail(todo)[i] = todo[i + 1]
  BY HeadTailProperties
<1> QED BY <1>1 DEF InPlan

-----------------------------------------------------------------------------
(* The job and its runs.                                                   *)

\* A load that is over, or has just begun, is one.
LEMMA EndedJobs ==
    ASSUME NEW stage \in Stages \cup {Null}, NEW outcome \in {"none", "running", "success", "failed", "interrupted"},
           NEW started \in SUBSET RunStages, NEW last \in RunStages \cup {Null}
    PROVE  /\ Ended(stage, outcome, started, last) \in Jobs
           /\ \A force \in BOOLEAN, todo \in Seq(StepNames) :
                 [Ended(stage, outcome, started, last) EXCEPT !.force = force, !.todo = todo] \in Jobs
<1>1. NothingKnown \in [Files -> Nat \cup {Null}]
  BY DEF NothingKnown
<1>2. <<>> \in Seq(StepNames)
  OBVIOUS
<1> QED BY <1>1, <1>2 DEF Ended, Jobs

\* Nothing of the job moves.
LEMMA KeptJob ==
    ASSUME JobInv, UNCHANGED <<job, runs, registry>>,
           derivedTo' # 0 => derivedTo # 0 \/ Doing("derive")
    PROVE  JobInv'
<1>1. JobType'
  BY DEF JobInv, JobType
<1>2. Control'
  BY DEF JobInv, Control, Idle, Step, Configured, Doing, Feed
<1>3. RunsInv'
  BY DEF JobInv, RunsInv, RunRecordsFollowTheJob, Idle, Step
<1> QED BY <1>1, <1>2, <1>3 DEF JobInv

\* Launch: a new process, that has started nothing.
LEMMA LaunchedJob ==
    ASSUME JobInv, NEW stage \in Stages, NEW force \in BOOLEAN, Launch(stage, force)
    PROVE  JobInv'
<1> DEFINE j == [Ended(stage, "running", {}, Null) EXCEPT !.force = force, !.todo = StepsOf(stage)]
<1>1. job' = j /\ runs' = runs /\ derivedTo' = derivedTo /\ Idle
  BY DEF Launch, matchVars
<1>2. /\ StepsOf(stage) \in Seq(StepNames) /\ StepsOf(stage) # <<>>
      /\ stage # "prune" => InPlan(StepsOf(stage))
      /\ stage = "prune" => StepsOf(stage) = <<"prune">>
  BY PlansEndWithTheRefresh
<1>3. j \in Jobs /\ j.todo = StepsOf(stage) /\ j.stage = stage /\ j.outcome = "running"
      /\ j.open = FALSE /\ j.at = NoFile /\ j.started = {}
  BY <1>2, EndedJobs DEF Ended
<1>4. JobType'
  BY <1>1, <1>3 DEF JobInv, JobType
<1>5. derivedTo = 0
  BY <1>1 DEF JobInv, Control, Doing
<1>6. Control'
  BY <1>1, <1>2, <1>3, <1>5 DEF Control, Idle
<1>7. RunsInv'
  BY <1>1, <1>2, <1>3 DEF RunsInv, RunRecordsFollowTheJob, Idle
<1> QED BY <1>4, <1>6, <1>7 DEF JobInv

\* Advance: the next step of the plan, or the end of a load that succeeded. The
\* run of the step that ends is closed with it, or its record lost.
LEMMA AdvancedJob ==
    ASSUME JobInv, ~Idle, job.at = NoFile, Advance, derivedTo' = 0, registry' = registry,
           runs' \in {ClosedAs("ok"), ClosedAs("lost")}
    PROVE  JobInv'
<1> USE DEF JobInv, JobType
<1>1. /\ job \in Jobs /\ job.todo \in Seq(StepNames) /\ job.todo # <<>> /\ job.stage \in Stages \cup {Null}
      /\ job.started \in SUBSET RunStages /\ job.last \in RunStages \cup {Null}
      /\ job.outcome = "running" /\ Len(job.todo) \in Nat
  BY DEF Jobs, Idle, Control
<1>2. /\ job.open => Step \in RunStages
      /\ \A s \in job.started : runs'[s] \in {"ok", "lost"}
      /\ runs' \in [RunStages -> {"none", "open", "ok", "failed", "lost"}]
  <2>1. job.open => Step \in RunStages
    BY DEF Control
  <2>2. \A s \in job.started : IF job.open /\ s = Step THEN runs[s] = "open"
                              ELSE runs[s] \in {"ok", "lost"}
    BY DEF RunsInv
  <2>3. CASE ~job.open
    BY <1>1, <2>2, <2>3 DEF ClosedAs
  <2>4. CASE job.open
    <3>1. PICK how \in {"ok", "lost"} : runs' = [runs EXCEPT ![Step] = how]
      BY <2>4 DEF ClosedAs
    <3> QED BY <1>1, <2>1, <2>2, <2>4, <3>1
  <2> QED BY <2>3, <2>4
<1>3. CASE Len(job.todo) = 1
  <2>1. job' = Ended(job.stage, "success", job.started, job.last)
    BY <1>3 DEF Advance, Done
  <2>2. job' \in Jobs
    BY <1>1, <2>1, EndedJobs
  <2>3. /\ job'.todo = <<>> /\ job'.open = FALSE /\ job'.at = NoFile /\ job'.started = job.started
        /\ job'.outcome = "success"
    BY <2>1 DEF Ended
  <2>4. Control'
    <3>1. Len(<<>>) = 0
      OBVIOUS
    <3> QED BY <2>3, <3>1 DEF Control, Idle, InPlan
  <2>5. RunsInv'
    BY <1>1, <1>2, <2>3 DEF RunsInv, RunRecordsFollowTheJob, Idle
  <2> QED BY <1>2, <2>2, <2>4, <2>5
<1>4. CASE Len(job.todo) # 1
  <2>1. job' = [job EXCEPT !.todo = Tail(@), !.open = FALSE, !.known = NothingKnown]
    BY <1>4 DEF Advance
  <2>2. /\ Tail(job.todo) \in Seq(StepNames) /\ Len(Tail(job.todo)) = Len(job.todo) - 1
        /\ Tail(job.todo) # <<>>
    <3>1. job.todo \in Seq(StepNames) /\ job.todo # <<>>
      BY <1>1
    <3>2. Tail(job.todo) \in Seq(StepNames) /\ Len(Tail(job.todo)) = Len(job.todo) - 1
      BY <3>1, HeadTailProperties
    <3>3. Len(Tail(job.todo)) # 0
      BY <1>4, <3>2
    <3> QED BY <3>2, <3>3, EmptySeq
  <2>3. NothingKnown \in [Files -> Nat \cup {Null}]
    BY DEF NothingKnown
  <2>4. /\ job' \in Jobs /\ job'.todo = Tail(job.todo) /\ job'.open = FALSE /\ job'.at = NoFile
        /\ job'.started = job.started /\ job'.outcome = "running" /\ job'.stage = job.stage
    BY <1>1, <2>1, <2>2, <2>3 DEF Jobs
  <2>5. job.stage # "prune"
    <3>1. Len(<<"prune">>) = 1
      OBVIOUS
    <3> QED BY <1>1, <1>4, <3>1 DEF Control
  <2>6. InPlan(job'.todo)
    BY <1>1, <2>4, <2>5, TailInPlan DEF Control
  <2>7. Control'
    BY <2>4, <2>5, <2>6 DEF Control, Idle
  <2>8. RunsInv'
    BY <1>1, <1>2, <2>2, <2>4 DEF RunsInv, RunRecordsFollowTheJob, Idle
  <2> QED BY <1>2, <2>4, <2>7, <2>8
<1> QED BY <1>3, <1>4

\* Abandon: the run that was open is failed, or its record lost, or left open by a
\* process that was killed.
LEMMA AbandonedJob ==
    ASSUME JobInv, ~Idle, registry' = registry,
           \/ Abandon("failed") /\ runs' \in {ClosedAs("failed"), ClosedAs("lost")}
           \/ Abandon("interrupted") /\ runs' = runs
    PROVE  JobInv'
<1> USE DEF JobInv, JobType
<1> PICK outcome \in {"failed", "interrupted"} :
        /\ Abandon(outcome)
        /\ \/ outcome = "failed" /\ runs' \in {ClosedAs("failed"), ClosedAs("lost")}
           \/ outcome = "interrupted" /\ runs' = runs
  OBVIOUS
<1>1. /\ job \in Jobs /\ job.stage \in Stages \cup {Null}
      /\ job.started \in SUBSET RunStages /\ job.last \in RunStages \cup {Null}
  BY DEF Jobs
<1>2. job' = Ended(job.stage, outcome, job.started, job.last) /\ derivedTo' = 0
  BY DEF Abandon, Done
<1>3. job' \in Jobs
  BY <1>1, <1>2, EndedJobs
<1>4. /\ job'.todo = <<>> /\ job'.open = FALSE /\ job'.at = NoFile /\ job'.started = job.started
      /\ job'.outcome = outcome /\ job'.last = job.last
  BY <1>2 DEF Ended
<1>5. /\ job.open => job.last = Step /\ Step \in RunStages
      /\ \A s \in job.started : IF job.open /\ s = Step THEN runs[s] = "open"
                               ELSE runs[s] \in {"ok", "lost"}
  BY DEF Control, RunsInv
<1>6. runs' \in [RunStages -> {"none", "open", "ok", "failed", "lost"}]
  BY <1>5 DEF ClosedAs
<1>7. Control'
  <2>1. Len(<<>>) = 0
    OBVIOUS
  <2> QED BY <1>2, <1>4, <2>1 DEF Control, Idle, InPlan
<1>8. RunsInv'
  <2>1. RunRecordsFollowTheJob'
    BY <1>1, <1>4, <1>5 DEF RunRecordsFollowTheJob, ClosedAs
  <2> QED BY <1>4, <2>1 DEF RunsInv, Idle
<1> QED BY <1>3, <1>6, <1>7, <1>8

\* StartRun: the stage opens its run before it does anything.
LEMMA StartedJob ==
    ASSUME WorldType, TableType, JobInv, StartRun
    PROVE  JobInv'
<1> USE DEF JobInv, JobType
<1>1. /\ ~Idle /\ Step \in RunStages /\ Configured(Step) /\ ~job.open
      /\ runs' = [runs EXCEPT ![Step] = "open"]
      /\ job' = [job EXCEPT !.open = TRUE, !.started = @ \cup {Step}, !.last = Step,
                            !.known = IF Step = "matches" /\ ~job.force THEN ledger ELSE @,
                            !.left = IF Step = "matches" THEN registry.files ELSE {}]
      /\ registry' = registry /\ derivedTo' = derivedTo
  BY DEF StartRun, matchVars
<1>2. registry.files \in SUBSET Files
  BY LoadJobAssumption DEF WorldType
<1>3. ledger \in [Files -> Nat \cup {Null}]
  BY DEF TableType
<1>4. /\ job' \in Jobs /\ job'.todo = job.todo /\ job'.open = TRUE /\ job'.at = job.at
      /\ job'.started = job.started \cup {Step} /\ job'.last = Step
      /\ job'.outcome = job.outcome /\ job'.stage = job.stage
  BY <1>1, <1>2, <1>3 DEF Jobs
<1>5. job.at = NoFile
  BY <1>1 DEF Control
<1>6. Step' = Step /\ (Idle' <=> Idle) /\ Configured(Step)' = Configured(Step)
      /\ (Doing("derive")' <=> Doing("derive"))
  BY <1>1, <1>4 DEF Step, Idle, Configured, Doing
<1>7. Control'
  BY <1>1, <1>4, <1>5, <1>6 DEF Control
<1>8. RunsInv'
  BY <1>1, <1>4, <1>6 DEF RunsInv, RunRecordsFollowTheJob
<1> QED BY <1>1, <1>4, <1>7, <1>8

\* Only the place in the match files moves.
LEMMA MovedJob ==
    ASSUME JobInv, UNCHANGED <<runs, registry, derivedTo>>,
           NEW left \in SUBSET Files, NEW at \in OpenFiles \cup {NoFile},
           job' = [job EXCEPT !.left = left, !.at = at],
           at # NoFile => /\ Doing("matches") /\ job.open
                          /\ at.version \in DOMAIN FeedRows[at.file]
                          /\ at.row \in 1 .. Len(FeedRows[at.file][at.version]) + 1
    PROVE  JobInv'
<1> USE DEF JobInv, JobType
<1>1. /\ job' \in Jobs /\ job'.todo = job.todo /\ job'.open = job.open /\ job'.at = at
      /\ job'.started = job.started /\ job'.last = job.last
      /\ job'.outcome = job.outcome /\ job'.stage = job.stage
  BY DEF Jobs
<1>2. Step' = Step /\ (Idle' <=> Idle) /\ (Configured(Step))' = Configured(Step)
      /\ (Doing("derive")' <=> Doing("derive")) /\ (Doing("matches")' <=> Doing("matches"))
  BY <1>1 DEF Step, Idle, Configured, Doing
<1>3. Control'
  BY <1>1, <1>2 DEF Control, Feed
<1>4. RunsInv'
  BY <1>1, <1>2 DEF RunsInv, RunRecordsFollowTheJob
<1> QED BY <1>1, <1>3, <1>4

\* runMatches: a file is skipped, opened, read a row further or recorded.
LEMMA MatchStageJob ==
    ASSUME WorldType, JobInv, SkipMatchFile \/ OpenMatchFile \/ WriteMatchRow \/ EndMatchFile
    PROVE  JobInv'
<1> USE DEF JobInv, JobType
<1>1. /\ job \in Jobs /\ job.left \in SUBSET Files /\ job.at \in OpenFiles \cup {NoFile}
      /\ job = [job EXCEPT !.left = job.left, !.at = job.at]
  BY DEF Jobs
<1>2. CASE SkipMatchFile
  <2>1. PICK f \in job.left : job' = [job EXCEPT !.left = @ \ {f}]
    BY <1>2 DEF SkipMatchFile
  <2>2. job' = [job EXCEPT !.left = job.left \ {f}, !.at = job.at]
    BY <2>1 DEF Jobs
  <2>3. job.at = NoFile
    BY <1>2 DEF SkipMatchFile, InMatches
  <2>4. UNCHANGED <<runs, registry, derivedTo>>
    BY <1>2 DEF SkipMatchFile, matchVars, othersOfMatches
  <2> QED BY <1>1, <2>2, <2>3, <2>4, MovedJob
<1>3. CASE OpenMatchFile
  <2>1. PICK f \in job.left :
           /\ mirror[f] # Null
           /\ job' = [job EXCEPT !.left = @ \ {f}, !.at = [file |-> f, version |-> mirror[f], row |-> 1]]
    BY <1>3 DEF OpenMatchFile
  <2> DEFINE at == [file |-> f, version |-> mirror[f], row |-> 1]
  <2>2. f \in Files /\ mirror[f] \in DOMAIN FeedRows[f]
    BY <1>1, <2>1 DEF WorldType
  <2>3. mirror[f] \in Nat /\ FeedRows[f][mirror[f]] \in Seq([key : Keys, row : FileRows])
    BY <2>2, FeedFacts
  <2>4. 1 \in 1 .. Len(FeedRows[f][mirror[f]]) + 1
    BY <2>3
  <2>5. at \in OpenFiles /\ at.file = f /\ at.version = mirror[f] /\ at.row = 1
    BY <2>2, <2>3 DEF OpenFiles
  <2>6. UNCHANGED <<runs, registry, derivedTo>> /\ Doing("matches") /\ job.open
    BY <1>3 DEF OpenMatchFile, InMatches, matchVars, othersOfMatches
  <2>7. job' = [job EXCEPT !.left = job.left \ {f}, !.at = at] /\ job.left \ {f} \in SUBSET Files
    BY <1>1, <2>1
  <2> HIDE DEF at
  <2> QED BY <2>2, <2>4, <2>5, <2>6, <2>7, MovedJob
<1>4. CASE WriteMatchRow
  <2>1. /\ job.at # NoFile /\ job.at.row <= Len(Feed) /\ job' = [job EXCEPT !.at.row = @ + 1]
        /\ Doing("matches")
        /\ UNCHANGED <<runs, registry, derivedTo>>
    BY <1>4 DEF WriteMatchRow, WriteRow, othersOfMatches
  <2> DEFINE at == [job.at EXCEPT !.row = @ + 1]
  <2>2. /\ job.open /\ job.at.version \in DOMAIN FeedRows[job.at.file]
        /\ job.at.row \in 1 .. Len(Feed) + 1 /\ job.at.row \in Nat /\ job.at.file \in Files
        /\ job.at \in OpenFiles
    BY <1>1, <2>1 DEF Control, OpenFiles
  <2>3. FeedRows[job.at.file][job.at.version] \in Seq([key : Keys, row : FileRows])
    BY <2>2, FeedFacts
  <2>4. at \in OpenFiles /\ at.row = job.at.row + 1 /\ at.file = job.at.file /\ at.version = job.at.version
    BY <2>2 DEF OpenFiles
  <2>5. at.row \in 1 .. Len(Feed) + 1
    BY <2>1, <2>2, <2>3, <2>4 DEF Feed
  <2>6. job' = [job EXCEPT !.left = job.left, !.at = at]
    BY <1>1, <2>1 DEF Jobs
  <2> HIDE DEF at
  <2> QED BY <1>1, <2>1, <2>2, <2>4, <2>5, <2>6, MovedJob DEF Feed
<1>5. CASE EndMatchFile
  <2>1. job' = [job EXCEPT !.left = job.left, !.at = NoFile]
    BY <1>1, <1>5 DEF EndMatchFile, Jobs
  <2>2. UNCHANGED <<runs, registry, derivedTo>>
    BY <1>5 DEF EndMatchFile, RecordMatchFile, othersOfMatches
  <2> QED BY <1>1, <2>1, <2>2, MovedJob
<1> QED BY <1>2, <1>3, <1>4, <1>5

\* The steps of a load whose stage is done: the job moves on, or stays for another page.
LEMMA FinishedStages ==
    ASSUME JobInv,
           SkipStage \/ FinishRun \/ Reconciled \/ EventsStage \/ PruneStage \/ RefreshStage
    PROVE  JobInv'
<1> USE DEF JobInv, JobType
<1>1. ~job.open \/ FinishRun => ~Idle /\ job.at = NoFile
  <2>1. job.at # NoFile => Doing("matches") /\ job.open
    BY DEF Control
  <2>2. FinishRun => job.at = NoFile /\ ~Idle
    BY <2>1 DEF FinishRun, Loaded, Doing, Step
  <2>3. ~Idle
    BY DEF SkipStage, FinishRun, Reconciled, EventsStage, PruneStage, RefreshStage, Doing
  <2> QED BY <2>1, <2>2, <2>3
<1>2. Doing("derive") \/ derivedTo = 0
  BY DEF Control
<1>3. job.open => Step \in RunStages /\ Configured(Step)
  BY DEF Control
<1>4. CASE SkipStage
  <2>1. Advance /\ UNCHANGED <<runs, registry, derivedTo>> /\ ~job.open /\ derivedTo = 0
    BY <1>2, <1>3, <1>4 DEF SkipStage, matchVars, Doing, Step, RunStages
  <2> QED BY <1>1, <2>1, AdvancedJob DEF ClosedAs
<1>5. CASE FinishRun
  <2>1. /\ Advance /\ UNCHANGED <<registry, derivedTo>> /\ derivedTo = 0
        /\ runs' \in {ClosedAs("ok"), ClosedAs("lost")}
    BY <1>2, <1>5 DEF FinishRun, Closed, matchVars, Doing, Step, RunStages
  <2> QED BY <1>1, <1>5, <2>1, AdvancedJob
<1>6. CASE Reconciled
  <2>1. Advance /\ UNCHANGED <<runs, registry, derivedTo>> /\ ~job.open /\ derivedTo = 0
    BY <1>2, <1>3, <1>6 DEF Reconciled, matchVars, unmoved, Doing, Step, RunStages
  <2> QED BY <1>1, <2>1, AdvancedJob DEF ClosedAs
<1>7. CASE EventsStage
  <2>1. Advance /\ UNCHANGED <<runs, registry, derivedTo>> /\ ~job.open /\ derivedTo = 0
    BY <1>2, <1>3, <1>7 DEF EventsStage, DeriveEvents, matchVars, unmoved, Doing, Step, RunStages
  <2> QED BY <1>1, <2>1, AdvancedJob DEF ClosedAs
<1>8. CASE PruneStage
  <2>1. Advance /\ UNCHANGED <<runs, registry, derivedTo>> /\ ~job.open /\ derivedTo = 0
    BY <1>2, <1>3, <1>8 DEF PruneStage, Prune, unmoved, Doing, Step, RunStages
  <2> QED BY <1>1, <2>1, AdvancedJob DEF ClosedAs
<1>9. CASE RefreshStage
  <2>1. UNCHANGED <<runs, registry>> /\ ~job.open
    BY <1>3, <1>9 DEF RefreshStage, unmoved, Doing, Step, RunStages
  <2>2. CASE Advance /\ derivedTo' = 0
    BY <1>1, <2>1, <2>2, AdvancedJob DEF ClosedAs
  <2>3. CASE UNCHANGED job /\ Doing("derive")
    BY <2>1, <2>3, KeptJob
  <2>4. \/ Advance /\ derivedTo' = 0
        \/ UNCHANGED job /\ Doing("derive")
    BY <1>2, <1>9 DEF RefreshStage, RefreshProminence, DerivePage, RebuildClutchBaselines,
                      RefreshServeBaselines, RefreshPlayerTotals, Doing
  <2> QED BY <2>2, <2>3, <2>4
<1> QED BY <1>4, <1>5, <1>6, <1>7, <1>8, <1>9

\* A mirror serves a version there is.
LEMMA WorldStep ==
    ASSUME WorldType, [Next]_vars
    PROVE  WorldType' /\ registry' = registry
<1>1. CASE Publish
  <2>1. registry' = registry
    BY <1>1 DEF Publish
  <2>2. CASE UNCHANGED mirror
    BY <2>1, <2>2 DEF WorldType
  <2>3. CASE mirror' # mirror
    <3>1. PICK f \in registry.files :
             /\ NextVersion(mirror[f]) \in DOMAIN FeedRows[f]
             /\ mirror' = [mirror EXCEPT ![f] = NextVersion(@)]
      BY <1>1, <2>3 DEF Publish
    <3>2. f \in Files
      BY LoadJobAssumption DEF WorldType
    <3>3. NextVersion(mirror[f]) \in Nat
      BY <3>1, <3>2, FeedFacts
    <3> QED BY <2>1, <3>1, <3>2, <3>3 DEF WorldType
  <2> QED BY <2>2, <2>3
<1>2. CASE ~Publish
  <2>1. UNCHANGED <<registry, mirror>>
    BY <1>2 DEF Next, Weekly, ByHand, Launch, Work, StageFails, Interrupted, PlayersCutShort,
                SkipStage, StartRun, FinishRun, SkipMatchFile, OpenMatchFile, WriteMatchRow,
                EndMatchFile, ReferenceStage, Merge, Reconciled, EventsStage, ChartingStage,
                PruneStage, RefreshStage, Abandon, unmoved, othersOfMatches, vars, jobVars
  <2> QED BY <2>1 DEF WorldType
<1> QED BY <1>1, <1>2

\* Where a load is, and what its runs say, after any step.
LEMMA JobStep ==
    ASSUME WorldType, TableType, JobInv, [Next]_vars
    PROVE  JobInv'
<1>0. registry' = registry
  BY WorldStep
<1>1. CASE Publish \/ ReferenceStage \/ PlayersCutShort \/ Merge \/ ChartingStage \/ UNCHANGED vars
  <2>1. UNCHANGED <<job, runs, derivedTo>>
    BY <1>1 DEF Publish, ReferenceStage, RefStep, PlayersCutShort, Merge, ChartingStage, ChartStep,
                matchVars, unmoved, vars, jobVars
  <2> QED BY <1>0, <2>1, KeptJob
<1>2. CASE Weekly
  BY <1>2, LaunchedJob DEF Weekly, Stages
<1>3. CASE ByHand
  BY <1>3, LaunchedJob, LoadJobAssumption DEF ByHand, Stages
<1>4. CASE StageFails \/ Interrupted
  BY <1>0, <1>4, AbandonedJob DEF StageFails, Closed, Interrupted
<1>5. CASE StartRun
  BY <1>5, StartedJob
<1>6. CASE SkipMatchFile \/ OpenMatchFile \/ WriteMatchRow \/ EndMatchFile
  BY <1>6, MatchStageJob
<1>7. CASE SkipStage \/ FinishRun \/ Reconciled \/ EventsStage \/ PruneStage \/ RefreshStage
  BY <1>7, FinishedStages
<1> QED BY <1>1, <1>2, <1>3, <1>4, <1>5, <1>6, <1>7 DEF Next, Work

-----------------------------------------------------------------------------
(* The match tables.                                                       *)

\* A set of numbers has a smallest.
LEMMA MinOfNumbers ==
    ASSUME NEW S, S \subseteq Nat, S # {}
    PROVE  \E m \in S : \A y \in S : m <= y
<1>1. PICK m \in S : \A y \in S : ~(<<y, m>> \in OpToRel(<, Nat))
  BY NatLessThanWellFounded, WFMin
<1>2. \A y \in S : ~(y < m)
  BY <1>1 DEF OpToRel
<1> QED BY <1>2

\* A finite set of numbers has a largest.
LEMMA MaxOfNumbers ==
    ASSUME NEW S, IsFiniteSet(S), S \subseteq Nat, S # {}
    PROVE  Max(S) \in S /\ \A y \in S : y <= Max(S)
<1>1. \E m \in S : \A y \in S : y <= m
  <2> DEFINE Counter(T) == T \in SUBSET S /\ T # {} /\ ~ \E m \in T : \A y \in T : y <= m
             Bad == {T \in SUBSET S : Counter(T)}
  <2> SUFFICES Bad = {}
    OBVIOUS
  <2> SUFFICES ASSUME Bad # {} PROVE FALSE
    OBVIOUS
  <2>1. IsWellFoundedOn(StrictSubsetOrdering(S), FiniteSubsetsOf(S))
    BY FS_StrictSubsetOrderingWellFounded
  <2>2. Bad \subseteq FiniteSubsetsOf(S)
    BY FS_Subset DEF FiniteSubsetsOf
  <2>3. PICK T \in Bad : \A U \in Bad : ~(<<U, T>> \in StrictSubsetOrdering(S))
    <3> HIDE DEF Bad
    <3> QED BY <2>1, <2>2, WFMin
  <2>4. PICK t \in T : TRUE
    OBVIOUS
  <2> DEFINE U == T \ {t}
  <2>5. U \notin Bad
    BY <2>3, <2>4 DEF StrictSubsetOrdering
  <2>6. CASE U = {}
    BY <2>4, <2>6
  <2>7. CASE U # {}
    <3>1. PICK m \in U : \A y \in U : y <= m
      BY <2>5, <2>7
    <3>2. m \in Nat /\ t \in Nat /\ T \subseteq Nat
      BY <3>1
    <3>3. CASE t <= m
      <4>1. \A y \in T : y <= m
        BY <3>1, <3>3
      <4> QED BY <3>1, <4>1
    <3>4. CASE m <= t
      <4>1. \A y \in T : y <= t
        BY <3>1, <3>2, <3>4
      <4> QED BY <2>4, <4>1
    <3> QED BY <3>2, <3>3, <3>4
  <2> QED BY <2>6, <2>7
<1> QED BY <1>1 DEF Max

\* classifyScore: a score has the columns it derives, or it is unfinished.
LEMMA ClassifiedFacts ==
    ASSUME NEW l \in Lines, NEW n \in Formats
    PROVE  LET c == Classified(l, n) IN
           /\ c.incomplete \in BOOLEAN
           /\ c.derived \in {Derived(Parse(x), y) : x \in Lines, y \in Formats} \cup {Null}
           /\ c.incomplete <=> c.derived = Null
<1> DEFINE unfinished == Parse(l).err \/ Incomplete(Parse(l))
<1>1. /\ Classified(l, n).incomplete = unfinished
      /\ Classified(l, n).derived = IF unfinished THEN Null ELSE Derived(Parse(l), n)
  BY DEF Classified
<1>2. Derived(Parse(l), n) \in {Derived(Parse(x), y) : x \in Lines, y \in Formats}
  OBVIOUS
<1>3. Derived(Parse(l), n) # Null
  BY <1>2, NullAssumption
<1>4. unfinished \in BOOLEAN
  OBVIOUS
<1> HIDE DEF unfinished
<1> QED BY <1>1, <1>2, <1>3, <1>4

\* A row of a file makes a row of the table.
LEMMA UpsertedFacts ==
    ASSUME NEW old \in MatchRow \cup {Null}, NEW source \in Sources, NEW row \in FileRows,
           Resolve(row.winner) \in Players
    PROVE  LET new == UpsertedMatch(old, source, row) IN
           /\ new \in MatchRow /\ new # Null
           /\ new.bestOf = row.bestOf /\ new.winner = Resolve(row.winner)
           /\ new.incomplete = Classified(row.line, row.bestOf).incomplete
           /\ new.derived = Classified(row.line, row.bestOf).derived
           /\ new.line = row.line \/ row.line = Blank
           /\ new.detailed = ("none" \notin {ParsedStats(row.wstats), ParsedStats(row.lstats)})
<1> DEFINE c == Classified(row.line, row.bestOf)
<1>1. row.line \in Lines /\ row.bestOf \in Formats /\ row.surface \in {r.surface : r \in FileRows} \cup {Null}
  BY DEF Lines, Formats
<1>2. c.incomplete \in BOOLEAN /\ c.derived \in {Derived(Parse(x), y) : x \in Lines, y \in Formats} \cup {Null}
  BY <1>1, ClassifiedFacts
<1> HIDE DEF c
<1>3. (IF old = Null THEN row.line ELSE StoredScore(row.line, old.line)) \in Lines
  BY <1>1 DEF MatchRow, StoredScore
<1>4. (IF old = Null THEN row.surface ELSE Coalesce(row.surface, old.surface))
          \in {r.surface : r \in FileRows} \cup {Null}
  BY <1>1 DEF MatchRow, Coalesce
<1>5. IsTeamEvent(row.level) \in BOOLEAN
  BY DEF IsTeamEvent
<1>6. UpsertedMatch(old, source, row) =
        [source     |-> source,
         winner     |-> Resolve(row.winner),
         line       |-> IF old = Null THEN row.line ELSE StoredScore(row.line, old.line),
         surface    |-> IF old = Null THEN row.surface ELSE Coalesce(row.surface, old.surface),
         bestOf     |-> row.bestOf,
         incomplete |-> c.incomplete,
         derived    |-> c.derived,
         team       |-> IsTeamEvent(row.level),
         detailed   |-> "none" \notin {ParsedStats(row.wstats), ParsedStats(row.lstats)}]
  BY DEF UpsertedMatch, c
<1>7. UpsertedMatch(old, source, row) \in MatchRow
  BY <1>1, <1>2, <1>3, <1>4, <1>5, <1>6 DEF MatchRow
<1>8. UpsertedMatch(old, source, row) # Null
  BY <1>7, NullAssumption
<1> QED BY <1>6, <1>7, <1>8 DEF c, StoredScore

\* What WriteMatchRow writes: a row of the file that is open, of two players.
LEMMA WrittenRow ==
    ASSUME JobInv, WriteMatchRow
    PROVE  \E k \in Keys, row \in FileRows, source \in Sources :
              /\ k = Feed[job.at.row].key
              /\ Resolve(row.winner) \in Players /\ Resolve(row.loser) \in Players
              /\ Resolve(row.winner) # Resolve(row.loser)
              /\ PairOf[k] = {Resolve(row.winner), Resolve(row.loser)}
              /\ matches' = [matches EXCEPT ![k] = UpsertedMatch(@, source, row)]
              /\ appearances' = [appearances EXCEPT ![k] = UpsertedSides(@, row)]
              /\ players' = players \cup {Resolve(row.winner), Resolve(row.loser)}
              /\ tournaments' = [tournaments EXCEPT ![DrawOf[k]] = UpsertedDraw(source, row)]
              /\ UNCHANGED <<alias, ledger, derivedTo, prunedFrom>>
<1> DEFINE k == Feed[job.at.row].key
           row == Feed[job.at.row].row
           source == job.at.file[1]
<1>1. /\ job.at \in OpenFiles \cup {NoFile} /\ job.at # NoFile /\ job.at.version \in DOMAIN FeedRows[job.at.file]
      /\ job.at.row \in 1 .. Len(Feed) + 1 /\ job.at.row <= Len(Feed)
  BY DEF JobInv, JobType, Jobs, Control, WriteMatchRow
<1>2. job.at.file \in Files
  BY <1>1 DEF OpenFiles
<1>3. FeedRows[job.at.file][job.at.version] \in Seq([key : Keys, row : FileRows])
  BY <1>1, <1>2, FeedFacts
<1>4. job.at.row \in 1 .. Len(FeedRows[job.at.file][job.at.version])
  BY <1>1, <1>3 DEF Feed
<1>5. k \in Keys /\ row \in FileRows /\ source \in Sources
  BY <1>1, <1>2, <1>4, FeedFacts DEF Feed
<1>6. WriteRow(source, k, row) /\ prunedFrom' = prunedFrom
  BY DEF WriteMatchRow, othersOfMatches
<1> HIDE DEF k, row, source
<1>7. PairOf[k] = {Resolve(row.winner), Resolve(row.loser)}
  BY <1>6 DEF WriteRow
<1>8. PICK p \in Players, q \in Players : p # q /\ PairOf[k] = {p, q}
  BY <1>5, MatchStoreAssumption
<1>9. /\ Resolve(row.winner) \in Players /\ Resolve(row.loser) \in Players
      /\ Resolve(row.winner) # Resolve(row.loser)
  BY <1>7, <1>8
<1>10. /\ matches' = [matches EXCEPT ![k] = UpsertedMatch(@, source, row)]
       /\ appearances' = [appearances EXCEPT ![k] = UpsertedSides(@, row)]
       /\ UNCHANGED <<alias, ledger, derivedTo>>
       /\ tournaments' = [tournaments EXCEPT ![DrawOf[k]] = UpsertedDraw(source, row)]
       /\ players' = players \cup PairOf[k]
  BY <1>6 DEF WriteRow
<1> QED BY <1>5, <1>6, <1>7, <1>9, <1>10 DEF k

\* upsertMatchPlayers: both sides are written, nobody else's.
LEMMA UpsertedSidesFacts ==
    ASSUME NEW old \in [Players -> Side \cup {Null}], NEW row \in FileRows,
           Resolve(row.winner) \in Players, Resolve(row.loser) \in Players,
           Resolve(row.winner) # Resolve(row.loser)
    PROVE  LET new == UpsertedSides(old, row) IN
           /\ new \in [Players -> Side \cup {Null}]
           /\ new[Resolve(row.winner)] = [won |-> TRUE, stats |-> ParsedStats(row.wstats)]
           /\ new[Resolve(row.loser)] = [won |-> FALSE, stats |-> ParsedStats(row.lstats)]
<1>1. ParsedStats(row.wstats) \in Stats /\ ParsedStats(row.lstats) \in Stats
  BY DEF ParsedStats, Stats
<1> QED BY <1>1 DEF UpsertedSides, Side

\* A step that writes no match table.
QuietTables == UNCHANGED <<matches, appearances, tournaments, ledger, derivedTables, prunedFrom>>
\* Only a write, a recorded file, the prune and the refresh touch the match tables.
LEMMA TablesMove ==
    ASSUME [Next]_vars
    PROVE  \/ QuietTables /\ derivedTo' \in {derivedTo, 0}
           \/ WriteMatchRow \/ EndMatchFile \/ PruneStage \/ RefreshStage
<1> USE DEF QuietTables, matchVars, tables
<1>1. CASE Publish \/ Weekly \/ ByHand \/ UNCHANGED vars
  BY <1>1 DEF Publish, Weekly, ByHand, Launch, vars, jobVars
<1>2. CASE StageFails \/ Interrupted
  BY <1>2 DEF StageFails, Interrupted, Abandon
<1>3. CASE PlayersCutShort
  BY <1>3 DEF PlayersCutShort
<1>4. CASE SkipStage \/ StartRun \/ FinishRun
  BY <1>4 DEF SkipStage, StartRun, FinishRun
<1>5. CASE SkipMatchFile \/ OpenMatchFile
  BY <1>5 DEF SkipMatchFile, OpenMatchFile, othersOfMatches
<1>6. CASE ReferenceStage \/ ChartingStage
  BY <1>6 DEF ReferenceStage, RefStep, ChartingStage, ChartStep
<1>7. CASE Merge \/ Reconciled \/ EventsStage
  BY <1>7 DEF Merge, Reconciled, EventsStage, DeriveEvents
<1> QED BY <1>1, <1>2, <1>3, <1>4, <1>5, <1>6, <1>7 DEF Next, Work

\* A page of deriveClutchColumns writes one column, of rows that have a score.
LEMMA DerivedPageFacts ==
    ASSUME TableType, NEW force, DerivePage(force)
    PROVE  /\ UNCHANGED <<appearances, tournaments, ledger, derivedTables>>
           /\ matches' \in [Keys -> MatchRow \cup {Null}]
           /\ derivedTo' \in Nat
           /\ \A k \in Keys :
                 \/ matches'[k] = matches[k]
                 \/ /\ k \in Page(force) /\ matches[k] # Null /\ matches'[k] # Null
                    /\ Classified(matches[k].line, matches[k].bestOf).derived # Null
                    /\ matches'[k] = [matches[k] EXCEPT !.derived =
                                         Classified(matches[k].line, matches[k].bestOf).derived]
<1>1. /\ UNCHANGED <<appearances, tournaments, ledger, derivedTables>>
      /\ matches' = [k \in Keys |->
           IF k \in Page(force) /\ Classified(matches[k].line, matches[k].bestOf).derived # Null
           THEN [matches[k] EXCEPT !.derived = Classified(matches[k].line, matches[k].bestOf).derived]
           ELSE matches[k]]
      /\ derivedTo' = IF LastPage(force) THEN 0 ELSE Max({IdOf[k] : k \in Page(force)})
  BY DEF DerivePage
<1>2. Page(force) \subseteq {k \in Keys : matches[k] # Null}
  BY DEF Page, Pending, Held
<1>3. ASSUME NEW k \in Keys
      PROVE  /\ \/ matches'[k] = matches[k]
                \/ /\ k \in Page(force) /\ matches[k] # Null /\ matches'[k] # Null
                   /\ Classified(matches[k].line, matches[k].bestOf).derived # Null
                   /\ matches'[k] = [matches[k] EXCEPT !.derived =
                                        Classified(matches[k].line, matches[k].bestOf).derived]
             /\ matches'[k] \in MatchRow \cup {Null}
  <2>1. matches[k] \in MatchRow \cup {Null}
    BY DEF TableType
  <2> DEFINE d == Classified(matches[k].line, matches[k].bestOf).derived
  <2>2. CASE k \in Page(force) /\ d # Null
    <3>1. matches[k] \in MatchRow /\ matches[k] # Null
      BY <1>2, <2>1, <2>2
    <3>2. matches[k].line \in Lines /\ matches[k].bestOf \in Formats
      BY <3>1 DEF MatchRow
    <3>3. d \in {Derived(Parse(x), y) : x \in Lines, y \in Formats} \cup {Null}
      BY <3>2, ClassifiedFacts
    <3>4. matches'[k] = [matches[k] EXCEPT !.derived = d]
      BY <1>1, <2>2
    <3> HIDE DEF d
    <3>5. [matches[k] EXCEPT !.derived = d] \in MatchRow
      BY <3>1, <3>3 DEF MatchRow
    <3>6. matches'[k] # Null
      BY <3>4, <3>5, NullAssumption
    <3> QED BY <2>2, <3>1, <3>4, <3>5, <3>6 DEF d
  <2>3. CASE ~(k \in Page(force) /\ d # Null)
    BY <1>1, <2>1, <2>3
  <2> QED BY <2>2, <2>3
<1>4. derivedTo' \in Nat
  <2>1. CASE LastPage(force)
    BY <1>1, <2>1
  <2>2. CASE ~LastPage(force)
    <3>1. IsFiniteSet(Page(force))
      BY <1>2, MatchStoreAssumption, FS_Subset
    <3>2. Page(force) # {}
      <4>1. Cardinality({}) = 0 /\ ClutchBatch > 0
        BY FS_EmptySet, MatchStoreAssumption
      <4>2. Page(force) = {} => Cardinality(Page(force)) = Cardinality({})
        OBVIOUS
      <4> QED BY <2>2, <4>1, <4>2 DEF LastPage
    <3> DEFINE ids == {IdOf[k] : k \in Page(force)}
    <3>3. IsFiniteSet(ids)
      <4> DEFINE f == [k \in Page(force) |-> IdOf[k]]
      <4>1. f \in Surjection(Page(force), ids)
        BY DEF Surjection
      <4> QED BY <3>1, <4>1, FS_Surjection, Zenon
    <3>4. ids \subseteq Nat /\ ids # {}
      BY <1>2, <3>2, MatchStoreAssumption
    <3>5. Max(ids) \in ids
      BY <3>3, <3>4, MaxOfNumbers
    <3> QED BY <1>1, <2>2, <3>4, <3>5
  <2> QED BY <2>1, <2>2
<1>5. matches' \in [Keys -> MatchRow \cup {Null}]
  BY <1>1, <1>3
<1> QED BY <1>1, <1>3, <1>4, <1>5

\* The refresh derives a page, or leaves the match tables alone.
LEMMA RefreshFacts ==
    ASSUME RefreshStage
    PROVE  /\ prunedFrom' = prunedFrom
           /\ \/ Doing("derive") /\ DerivePage(job.force)
              \/ UNCHANGED <<matches, appearances, tournaments, ledger, derivedTo>>
BY DEF RefreshStage, RefreshProminence, RebuildClutchBaselines, RefreshServeBaselines,
       RefreshPlayerTotals, tables

\* A row that loses its statistics is one.
LEMMA ClearedRow ==
    ASSUME NEW m \in MatchRow
    PROVE  [m EXCEPT !.detailed = FALSE] \in MatchRow /\ [m EXCEPT !.detailed = FALSE] # Null
<1>1. ASSUME NEW b \in BOOLEAN
      PROVE  [m EXCEPT !.detailed = b] \in MatchRow /\ [m EXCEPT !.detailed = b] # Null
  <2>1. [m EXCEPT !.detailed = b] \in MatchRow
    BY DEF MatchRow
  <2> QED BY <2>1, NullAssumption
<1> QED BY <1>1

\* The tables keep their shape: no side without its match.
LEMMA TableStep ==
    ASSUME WorldType, TableType, JobInv, [Next]_vars
    PROVE  TableType'
<1> USE DEF TableType
<1>1. CASE QuietTables /\ derivedTo' \in {derivedTo, 0}
  BY <1>1 DEF QuietTables
<1>2. CASE WriteMatchRow
  <2>1. PICK k \in Keys, row \in FileRows, source \in Sources :
              /\ Resolve(row.winner) \in Players /\ Resolve(row.loser) \in Players
              /\ Resolve(row.winner) # Resolve(row.loser)
              /\ matches' = [matches EXCEPT ![k] = UpsertedMatch(@, source, row)]
              /\ appearances' = [appearances EXCEPT ![k] = UpsertedSides(@, row)]
              /\ UNCHANGED <<ledger, derivedTo, prunedFrom>>
    BY <1>2, WrittenRow
  <2>2. /\ UpsertedMatch(matches[k], source, row) \in MatchRow
        /\ UpsertedMatch(matches[k], source, row) # Null
    BY <2>1, UpsertedFacts
  <2>3. UpsertedSides(appearances[k], row) \in [Players -> Side \cup {Null}]
    BY <2>1, UpsertedSidesFacts
  <2> QED BY <2>1, <2>2, <2>3
<1>3. CASE EndMatchFile
  <2>1. /\ ledger' = [ledger EXCEPT ![job.at.file] = job.at.version]
        /\ UNCHANGED <<matches, appearances, derivedTo, prunedFrom>>
    BY <1>3 DEF EndMatchFile, RecordMatchFile, othersOfMatches
  <2>2. job.at.file \in Files /\ job.at.version \in DOMAIN FeedRows[job.at.file]
    BY <1>3 DEF JobInv, JobType, Jobs, Control, EndMatchFile, OpenFiles
  <2>3. job.at.version \in Nat
    BY <2>2, FeedFacts
  <2> QED BY <2>1, <2>2, <2>3
<1>4. CASE PruneStage
  <2>1. /\ Prune
        /\ prunedFrom' = [k \in Keys |-> IF k \in Collapsed THEN <<matches[k].source, Season(k)>>
                                         ELSE prunedFrom[k]]
    BY <1>4 DEF PruneStage
  <2>2. \A k \in Keys : matches[k] # Null => matches[k] \in MatchRow
    OBVIOUS
  <2>3. matches' \in [Keys -> MatchRow \cup {Null}]
    <3>1. ASSUME NEW k \in Keys, matches[k] # Null
          PROVE  [matches[k] EXCEPT !.detailed = FALSE] \in MatchRow
      BY <2>2, <3>1, ClearedRow
    <3>2. ASSUME NEW k \in Keys, matches[k] = Null
          PROVE  ClearedSides(k) = appearances[k]
      BY <3>2 DEF ClearedSides, NoSides, WithoutStats
    <3> QED BY <2>1, <3>1, <3>2 DEF Prune
  <2>4. appearances' \in [Keys -> [Players -> Side \cup {Null}]]
    BY <2>1 DEF Prune, NoSides, ClearedSides, WithoutStats, Side, Stats
  <2>8. \A k \in Keys : matches'[k] = Null => appearances'[k] = NoSides
    <3>1. ASSUME NEW k \in Keys, k \notin Collapsed, matches'[k] = Null
          PROVE  appearances'[k] = NoSides
      <4>1. ASSUME matches[k] # Null
            PROVE  matches'[k] # Null
        <5>1. [matches[k] EXCEPT !.detailed = FALSE] # Null
          BY <2>2, <4>1, ClearedRow
        <5>2. \/ matches'[k] = [matches[k] EXCEPT !.detailed = FALSE]
              \/ matches'[k] = matches[k]
          BY <2>1, <3>1 DEF Prune
        <5> QED BY <4>1, <5>1, <5>2
      <4>2. matches[k] = Null
        BY <3>1, <4>1
      <4>3. ClearedSides(k) = NoSides
        BY <4>2 DEF ClearedSides, NoSides, WithoutStats
      <4> QED BY <2>1, <3>1, <4>3 DEF Prune
    <3>2. \A k \in Collapsed : appearances'[k] = NoSides
      BY <2>1 DEF Prune, Collapsed, Held
    <3> QED BY <3>1, <3>2
  <2>5. ledger' \in [Files -> Nat \cup {Null}]
        /\ \A f \in Files : ledger'[f] # Null => ledger'[f] \in DOMAIN FeedRows[f]
    BY <2>1 DEF Prune
  <2>6. \A k \in Collapsed : matches[k].source \in Sources /\ Season(k) \in {SeasonOf[d] : d \in Draws}
    BY <2>2, MatchStoreAssumption DEF Collapsed, Held, Season, MatchRow
  <2>7. prunedFrom' \in [Keys -> (Sources \X {SeasonOf[d] : d \in Draws}) \cup {Null}]
    BY <2>1, <2>6
  <2> QED BY <2>1, <2>3, <2>4, <2>5, <2>7, <2>8 DEF Prune
<1>5. CASE RefreshStage
  <2>1. CASE UNCHANGED <<matches, appearances, tournaments, ledger, derivedTo>>
    BY <1>5, <2>1, RefreshFacts
  <2>2. CASE DerivePage(job.force)
    BY <1>5, <2>2, RefreshFacts, DerivedPageFacts
  <2> QED BY <1>5, <2>1, <2>2, RefreshFacts
<1> QED BY <1>1, <1>2, <1>3, <1>4, <1>5, TablesMove

-----------------------------------------------------------------------------
(* The columns of a score.                                                 *)

\* normalise: of no fields, none is before the prose.
LEMMA NoProse == BeforeProse(<<>>) = <<>>
BY DEF BeforeProse

\* normalise: and none is left.
LEMMA NothingKept == Kept(<<>>) = <<>>
<1> DEFINE Filtered(F) ==
        [i \in 0 .. 0 |-> IF i = 0 THEN <<>>
                          ELSE IF <<>>[i].kind \notin {"marker", "unsure"}
                               THEN Append(F[i - 1], <<>>[i]) ELSE F[i - 1]]
<1>1. \E F : F = Filtered(F)
  <2>1. [i \in 0 .. 0 |-> <<>>] = Filtered([i \in 0 .. 0 |-> <<>>])
    OBVIOUS
  <2> QED BY <2>1
<1> QED BY <1>1, NoProse DEF Kept

\* A blank score is that of no finished match.
LEMMA BlankIsUnfinished ==
    ASSUME NEW n \in Formats
    PROVE  Classified(Blank, n).incomplete
<1>3. Incomplete(Parse(<<>>))
  BY NothingKept DEF Parse, Incomplete
<1> QED BY <1>3 DEF Classified, Blank

\* Whatever is written, derived or pruned, the columns derived are those of the score.
LEMMA ScoreStep ==
    ASSUME TableType, JobInv, \A k \in Keys : ScoreInv(k), [Next]_vars
    PROVE  \A k \in Keys : ScoreInv(k)'
<1> USE DEF ScoreInv
<1>0. TableType
  OBVIOUS
<1>1. CASE UNCHANGED matches
  BY <1>1
<1>2. CASE WriteMatchRow
  <2>1. PICK k \in Keys, row \in FileRows, source \in Sources :
              /\ Resolve(row.winner) \in Players
              /\ matches' = [matches EXCEPT ![k] = UpsertedMatch(@, source, row)]
    BY <1>2, WrittenRow
  <2> DEFINE new == UpsertedMatch(matches[k], source, row)
             c == Classified(row.line, row.bestOf)
  <2>2. matches \in [Keys -> MatchRow \cup {Null}]
    BY DEF TableType
  <2>3. /\ new.bestOf = row.bestOf /\ new.incomplete = c.incomplete /\ new.derived = c.derived
        /\ new.line = row.line \/ row.line = Blank
    BY <2>1, <2>2, UpsertedFacts
  <2>4. row.line \in Lines /\ row.bestOf \in Formats
    BY DEF Lines, Formats
  <2>5. c.incomplete <=> c.derived = Null
    BY <2>4, ClassifiedFacts
  <2>6. ~c.incomplete => row.line # Blank
    BY <2>4, BlankIsUnfinished
  <2>7. matches'[k] = new /\ \A j \in Keys \ {k} : matches'[j] = matches[j]
    BY <2>1, <2>2
  <2> HIDE DEF new
  <2> QED BY <2>3, <2>5, <2>6, <2>7
<1>3. CASE PruneStage
  <2>1. Prune
    BY <1>3 DEF PruneStage
  <2>2. ASSUME NEW k \in Keys, matches'[k] # Null, matches[k] # Null
        PROVE  /\ matches'[k].line = matches[k].line /\ matches'[k].bestOf = matches[k].bestOf
               /\ matches'[k].incomplete = matches[k].incomplete
               /\ matches'[k].derived = matches[k].derived
    <3>1. matches[k] \in MatchRow
      BY <2>2 DEF TableType
    <3>2. \/ matches'[k] = [matches[k] EXCEPT !.detailed = FALSE]
          \/ matches'[k] = matches[k]
      BY <2>1, <2>2 DEF Prune
    <3> QED BY <3>1, <3>2 DEF MatchRow
  <2>3. ASSUME NEW k \in Keys, matches[k] = Null
        PROVE  matches'[k] = Null
    <3>1. ClearedSides(k) = appearances[k]
      BY <2>3 DEF TableType, ClearedSides, NoSides, WithoutStats
    <3> QED BY <2>1, <2>3, <3>1 DEF Prune
  <2> QED BY <2>2, <2>3
<1>4. CASE DerivePage(job.force)
  <2>1. ASSUME NEW k \in Keys
        PROVE  ScoreInv(k)'
    <3> DEFINE c == Classified(matches[k].line, matches[k].bestOf)
    <3>1. CASE matches'[k] = matches[k]
      BY <3>1
    <3>2. CASE /\ k \in Page(job.force) /\ matches[k] # Null
               /\ matches'[k] = [matches[k] EXCEPT !.derived = c.derived]
      <4>1. matches[k] \in MatchRow
        BY <3>2 DEF TableType
      <4>2. ~matches[k].incomplete
        BY <3>2 DEF Page, Pending
      <4>3. /\ matches'[k].line = matches[k].line /\ matches'[k].bestOf = matches[k].bestOf
            /\ matches'[k].incomplete = matches[k].incomplete /\ matches'[k].derived = c.derived
        BY <3>2, <4>1 DEF MatchRow
      <4> QED BY <3>2, <4>2, <4>3
    <3> QED BY <1>4, <3>1, <3>2, DerivedPageFacts
  <2> QED BY <2>1
<1> QED BY <1>1, <1>2, <1>3, <1>4, TablesMove, RefreshFacts
        DEF QuietTables, EndMatchFile, RecordMatchFile

-----------------------------------------------------------------------------
(* The sides of a match.                                                   *)

\* The part of SidesAgreeWithTheMatch a match has in it.
SidesInv(k) ==
    matches[k] # Null /\ Cardinality(SidesOf(k)) = 2 =>
        /\ matches[k].winner \in SidesOf(k)
        /\ \A p \in SidesOf(k) : Won(k, p) <=> p = matches[k].winner
        /\ matches[k].detailed => \A p \in SidesOf(k) : Served(k, p)

\* upsertMatchPlayers: a winner and a loser are two sides.
LEMMA PairHasTwo ==
    ASSUME NEW a, NEW b, a # b
    PROVE  Cardinality({a, b}) = 2
<1>1. IsFiniteSet({a}) /\ Cardinality({a}) = 1
  BY FS_Singleton
<1>2. {a, b} = {a} \cup {b} /\ b \notin {a}
  OBVIOUS
<1>3. Cardinality({a} \cup {b}) = 2
  BY <1>1, <1>2, FS_AddElement
<1> QED BY <1>2, <1>3

\* A merge may leave a match a side of a third player.
LEMMA ThirdOfThree ==
    ASSUME NEW pair, IsFiniteSet(pair), Cardinality(pair) = 2, NEW c, c \notin pair
    PROVE  Cardinality(pair \cup {c}) = 3
<1>1. Cardinality(pair \cup {c}) = Cardinality(pair) + 1
  BY FS_AddElement
<1> QED BY <1>1

\* Whatever is written, merged, derived or pruned, a match of two sides agrees with them.
LEMMA SidesStep ==
    ASSUME TableType, JobInv, \A k \in Keys : SidesInv(k), [Next]_vars
    PROVE  \A k \in Keys : SidesInv(k)'
<1> USE DEF SidesInv, SidesOf, Won, Served
<1>1. CASE UNCHANGED <<matches, appearances>>
  BY <1>1
<1>2. CASE WriteMatchRow
  <2>1. PICK k \in Keys, row \in FileRows, source \in Sources :
              /\ Resolve(row.winner) \in Players /\ Resolve(row.loser) \in Players
              /\ Resolve(row.winner) # Resolve(row.loser)
              /\ matches' = [matches EXCEPT ![k] = UpsertedMatch(@, source, row)]
              /\ appearances' = [appearances EXCEPT ![k] = UpsertedSides(@, row)]
    BY <1>2, WrittenRow
  <2> DEFINE w == Resolve(row.winner)
             l == Resolve(row.loser)
             won == [won |-> TRUE, stats |-> ParsedStats(row.wstats)]
             lost == [won |-> FALSE, stats |-> ParsedStats(row.lstats)]
             sides == {p \in Players : appearances'[k][p] # Null}
  <2>2. matches[k] \in MatchRow \cup {Null} /\ appearances[k] \in [Players -> Side \cup {Null}]
    BY DEF TableType
  <2>0. /\ matches'[k] = UpsertedMatch(matches[k], source, row)
        /\ appearances'[k] = UpsertedSides(appearances[k], row)
    BY <2>1 DEF TableType
  <2>3. /\ matches'[k].winner = w
        /\ matches'[k].detailed = ("none" \notin {ParsedStats(row.wstats), ParsedStats(row.lstats)})
    BY <2>0, <2>1, <2>2, UpsertedFacts
  <2>4. appearances'[k][w] = won /\ appearances'[k][l] = lost
    BY <2>0, <2>1, <2>2, UpsertedSidesFacts
  <2>5. won # Null /\ lost # Null
    <3>1. ParsedStats(row.wstats) \in Stats /\ ParsedStats(row.lstats) \in Stats
      BY DEF ParsedStats, Stats
    <3>2. ASSUME NEW b \in BOOLEAN, NEW st \in Stats
          PROVE  [won |-> b, stats |-> st] \in Side /\ [won |-> b, stats |-> st] # Null
      BY NullAssumption DEF Side
    <3> QED BY <3>1, <3>2
  <2>6. Cardinality(sides) = 2 => sides = {w, l}
    <3>1. {w, l} \subseteq sides
      BY <2>1, <2>4, <2>5
    <3>2. IsFiniteSet(sides)
      BY FS_Subset, MatchStoreAssumption
    <3>3. Cardinality({w, l}) = 2
      BY <2>1, PairHasTwo
    <3> QED BY <3>1, <3>2, <3>3, FS_Subset
  <2>7. SidesInv(k)'
    <3>1. ASSUME Cardinality(sides) = 2
          PROVE  /\ matches'[k].winner \in sides
                 /\ \A p \in sides : appearances'[k][p].won <=> p = matches'[k].winner
                 /\ matches'[k].detailed => \A p \in sides : appearances'[k][p].stats # "none"
      <4>1. sides = {w, l} /\ w # l
        BY <2>1, <2>6, <3>1
      <4>2. /\ appearances'[k][w].won = TRUE /\ appearances'[k][l].won = FALSE
            /\ appearances'[k][w].stats = ParsedStats(row.wstats)
            /\ appearances'[k][l].stats = ParsedStats(row.lstats)
        BY <2>4
      <4>3. \A p \in sides : p = w \/ p = l
        BY <4>1
      <4>4. \A p \in sides : appearances'[k][p].won <=> p = matches'[k].winner
        BY <2>3, <4>1, <4>2, <4>3
      <4>5. ASSUME matches'[k].detailed
            PROVE  \A p \in sides : appearances'[k][p].stats # "none"
        BY <2>3, <4>2, <4>3, <4>5
      <4> QED BY <2>3, <4>1, <4>4, <4>5
    <3> QED BY <3>1
  <2>8. ASSUME NEW j \in Keys, j # k
        PROVE  SidesInv(j)'
    <3>1. matches'[j] = matches[j] /\ appearances'[j] = appearances[j]
      BY <2>1, <2>8 DEF TableType
    <3> QED BY <3>1
  <2> HIDE DEF SidesInv, SidesOf, Won, Served
  <2> QED BY <2>7, <2>8
<1>3. CASE PruneStage
  <2>1. Prune
    BY <1>3 DEF PruneStage
  <2>2. ASSUME NEW k \in Keys, matches[k] # Null, k \notin Collapsed
        PROVE  SidesInv(k)'
    <3>1. matches[k] \in MatchRow /\ appearances[k] \in [Players -> Side \cup {Null}]
      BY <2>2 DEF TableType
    <3>2. appearances'[k] = ClearedSides(k)
      BY <2>1, <2>2 DEF Prune
    <3>3. \A p \in Players :
             /\ appearances'[k][p] = Null <=> appearances[k][p] = Null
             /\ appearances[k][p] # Null => appearances'[k][p].won = appearances[k][p].won
      <4>1. ASSUME NEW p \in Players, appearances[k][p] # Null
            PROVE  /\ appearances'[k][p] # Null
                   /\ appearances'[k][p].won = appearances[k][p].won
        <5>1. appearances[k][p] \in Side
          BY <3>1, <4>1
        <5>2. WithoutStats(appearances[k][p]) \in Side
          BY <5>1 DEF WithoutStats, Side, Stats
        <5>3. WithoutStats(appearances[k][p]).won = appearances[k][p].won
          BY <5>1 DEF WithoutStats, Side
        <5> QED BY <3>2, <5>2, <5>3, NullAssumption DEF ClearedSides
      <4>2. \A p \in Players : appearances[k][p] = Null => appearances'[k][p] = Null
        BY <3>2 DEF ClearedSides, WithoutStats
      <4> QED BY <4>1, <4>2
    <3>4. SidesOf(k)' = SidesOf(k)
      BY <3>3
    <3>5. Cardinality(SidesOf(k)) = 2
      BY <2>2 DEF Collapsed, Held
    <3>6. matches'[k].winner = matches[k].winner
      BY <2>1, <2>2, <3>1 DEF Prune, MatchRow
    <3>7. matches'[k].detailed => matches[k].detailed /\ appearances'[k] = appearances[k]
      BY <2>1, <2>2, <3>1, <3>2 DEF Prune, MatchRow
    <3> QED BY <2>2, <3>3, <3>4, <3>5, <3>6, <3>7
  <2>3. ASSUME NEW k \in Keys, matches[k] = Null \/ k \in Collapsed
        PROVE  matches'[k] = Null
    <3>1. matches[k] = Null => ClearedSides(k) = appearances[k]
      BY DEF TableType, ClearedSides, NoSides, WithoutStats
    <3> QED BY <2>1, <2>3, <3>1 DEF Prune
  <2> QED BY <2>2, <2>3
<1>4. CASE DerivePage(job.force)
  <2>1. appearances' = appearances
    BY <1>4, DerivedPageFacts
  <2>2. ASSUME NEW k \in Keys
        PROVE  /\ matches'[k] # Null => matches[k] # Null
               /\ matches'[k] # Null => /\ matches'[k].winner = matches[k].winner
                                        /\ matches'[k].detailed = matches[k].detailed
    <3>1. matches[k] # Null => matches[k] \in MatchRow
      BY DEF TableType
    <3>2. \/ matches'[k] = matches[k]
          \/ /\ matches[k] # Null
             /\ matches'[k] = [matches[k] EXCEPT !.derived =
                                  Classified(matches[k].line, matches[k].bestOf).derived]
      BY <1>4, DerivedPageFacts
    <3> QED BY <3>1, <3>2 DEF MatchRow
  <2> QED BY <2>1, <2>2
<1> QED BY <1>1, <1>2, <1>3, <1>4, TablesMove, RefreshFacts
        DEF QuietTables, EndMatchFile, RecordMatchFile

-----------------------------------------------------------------------------
(* The files recorded and the matches they carry.                          *)

\* A file is opened at its first row; otherwise the place in it is kept or lost.
LEMMA PlaceMoves ==
    ASSUME JobInv, [Next]_vars
    PROVE  job'.at \in {job.at, NoFile} \/ job'.at.row = 1 \/ WriteMatchRow
<1>0. job \in Jobs
  BY DEF JobInv, JobType
<1>1. \A stage, outcome, started, last : Ended(stage, outcome, started, last).at = NoFile
  BY DEF Ended
<1>2. Advance => job'.at \in {job.at, NoFile}
  BY <1>0, <1>1 DEF Advance, Done, Jobs
<1>3. CASE UNCHANGED job
  BY <1>3
<1>4. CASE Weekly \/ ByHand
  BY <1>4 DEF Weekly, ByHand, Launch, Ended
<1>5. CASE StageFails \/ Interrupted
  BY <1>1, <1>5 DEF StageFails, Interrupted, Abandon, Done
<1>6. CASE StartRun \/ SkipMatchFile
  BY <1>0, <1>6 DEF StartRun, SkipMatchFile, Jobs
<1>7. CASE OpenMatchFile
  BY <1>0, <1>7 DEF OpenMatchFile, Jobs
<1>8. CASE EndMatchFile
  BY <1>0, <1>8 DEF EndMatchFile, Jobs
<1>9. CASE SkipStage \/ FinishRun \/ Reconciled \/ EventsStage \/ PruneStage \/ RefreshStage
  BY <1>2, <1>9 DEF SkipStage, FinishRun, Reconciled, EventsStage, PruneStage, RefreshStage
<1> QED BY <1>3, <1>4, <1>5, <1>6, <1>7, <1>8, <1>9
        DEF Next, Work, Publish, PlayersCutShort, ReferenceStage, Merge, ChartingStage, vars, jobVars

\* What is held stays held, but for the prune.
LEMMA HeldGrows ==
    ASSUME TableType, JobInv, [Next]_vars, ~PruneStage
    PROVE  /\ \A k \in Keys : matches[k] # Null => matches'[k] # Null
           /\ UNCHANGED prunedFrom
<1>1. CASE QuietTables
  BY <1>1 DEF QuietTables
<1>2. CASE WriteMatchRow
  <2>1. PICK k \in Keys, row \in FileRows, source \in Sources :
              /\ Resolve(row.winner) \in Players
              /\ matches' = [matches EXCEPT ![k] = UpsertedMatch(@, source, row)]
              /\ UNCHANGED prunedFrom
    BY <1>2, WrittenRow
  <2>2. UpsertedMatch(matches[k], source, row) # Null
    BY <2>1, UpsertedFacts DEF TableType
  <2> QED BY <2>1, <2>2 DEF TableType
<1>3. CASE EndMatchFile
  BY <1>3 DEF EndMatchFile, RecordMatchFile, othersOfMatches
<1>4. CASE RefreshStage
  BY <1>4, RefreshFacts, DerivedPageFacts
<1> QED BY <1>1, <1>2, <1>3, <1>4, TablesMove

\* The rows of the open file that were passed are held, after every step.
LEMMA FileStep ==
    ASSUME TableType, JobInv, FileInv, [Next]_vars
    PROVE  FileInv'
<1> USE DEF FileInv
<1>1. CASE PruneStage
  <2>1. job.at = NoFile
    BY <1>1 DEF JobInv, Control, PruneStage, Doing
  <2>2. job'.at = NoFile
    BY <1>1, <2>1 DEF PruneStage, Advance, Done, Ended, JobInv, JobType, Jobs
  <2> QED BY <2>2
<1>2. CASE ~PruneStage
  <2>1. \A k \in Keys : matches[k] # Null => matches'[k] # Null
    BY <1>2, HeldGrows
  <2>2. ASSUME job.at # NoFile
        PROVE  /\ Feed \in Seq([key : Keys, row : FileRows])
               /\ job.at.row \in 1 .. Len(Feed) + 1 /\ Len(Feed) \in Nat
               /\ \A i \in 1 .. Len(Feed) : Feed[i].key \in Keys
    <3>1. job.at.file \in Files /\ job.at.version \in DOMAIN FeedRows[job.at.file]
      BY <2>2 DEF JobInv, JobType, Jobs, Control, OpenFiles
    <3>2. /\ FeedRows[job.at.file][job.at.version] \in Seq([key : Keys, row : FileRows])
          /\ \A i \in 1 .. Len(FeedRows[job.at.file][job.at.version]) :
                FeedRows[job.at.file][job.at.version][i].key \in Keys
      BY <3>1, FeedFacts
    <3>3. Len(FeedRows[job.at.file][job.at.version]) \in Nat
      BY <3>2
    <3> QED BY <2>2, <3>2, <3>3 DEF Feed, JobInv, Control
  <2>3. CASE WriteMatchRow
    <3>1. job.at # NoFile /\ job.at.row <= Len(Feed) /\ job' = [job EXCEPT !.at.row = @ + 1]
      BY <2>3 DEF WriteMatchRow
    <3>2. job.at \in OpenFiles /\ job.at.row \in Nat
      BY <3>1 DEF JobInv, JobType, Jobs, OpenFiles
    <3>3. job'.at.row = job.at.row + 1 /\ Feed' = Feed
      BY <3>1, <3>2 DEF JobInv, JobType, Jobs, OpenFiles, Feed
    <3>4. matches'[Feed[job.at.row].key] # Null
      <4>1. PICK k \in Keys, row \in FileRows, source \in Sources :
              /\ k = Feed[job.at.row].key /\ Resolve(row.winner) \in Players
              /\ matches' = [matches EXCEPT ![k] = UpsertedMatch(@, source, row)]
        BY <2>3, WrittenRow
      <4>2. UpsertedMatch(matches[k], source, row) # Null
        BY <4>1, UpsertedFacts DEF TableType
      <4> QED BY <4>1, <4>2 DEF TableType
    <3>5. ASSUME NEW i \in 1 .. job.at.row - 1
          PROVE  matches'[Feed[i].key] # Null
      BY <2>1, <2>2, <3>1
    <3> QED BY <3>2, <3>3, <3>4, <3>5
  <2>4. CASE job'.at = job.at
    <3>1. Feed' = Feed
      BY <2>4 DEF Feed
    <3>2. ASSUME job.at # NoFile, NEW i \in 1 .. job.at.row - 1
          PROVE  matches'[Feed[i].key] # Null
      BY <2>1, <2>2, <3>2
    <3> QED BY <2>4, <3>1, <3>2
  <2>5. CASE job'.at = NoFile
    BY <2>5
  <2>6. CASE job'.at.row = 1
    BY <2>6
  <2> QED BY <2>3, <2>4, <2>5, <2>6, PlaceMoves
<1> QED BY <1>1, <1>2

\* What PrunedMatchesComeBack says of a file.
LedgerInv(f) ==
    ledger[f] # Null =>
        \A i \in 1 .. Len(FeedRows[f][ledger[f]]) :
            LET k == FeedRows[f][ledger[f]][i].key IN
            matches[k] = Null => prunedFrom[k] \notin {Null, f}

\* A recorded file keeps its matches through every step, or is forgotten with them.
LEMMA LedgerStep ==
    ASSUME TableType, JobInv, FileInv, \A f \in Files : LedgerInv(f), [Next]_vars
    PROVE  \A f \in Files : LedgerInv(f)'
<1> SUFFICES ASSUME NEW f \in Files, ledger'[f] # Null, NEW i \in 1 .. Len(FeedRows[f][ledger'[f]]),
                    matches'[FeedRows[f][ledger'[f]][i].key] = Null
             PROVE  prunedFrom'[FeedRows[f][ledger'[f]][i].key] \notin {Null, f}
  BY DEF LedgerInv
<1> DEFINE k == FeedRows[f][ledger'[f]][i].key
<1>1. CASE PruneStage
  <2>1. /\ Prune
        /\ prunedFrom' = [j \in Keys |-> IF j \in Collapsed THEN <<matches[j].source, Season(j)>>
                                         ELSE prunedFrom[j]]
    BY <1>1 DEF PruneStage
  <2>2. ledger'[f] = ledger[f] /\ f \notin CollapsedSeasons
    BY <2>1 DEF Prune
  <2>3. ledger[f] \in DOMAIN FeedRows[f]
    BY <2>2 DEF TableType
  <2>4. k \in Keys
    BY <2>2, <2>3, FeedFacts
  <2>5. CASE k \in Collapsed
    <3>1. prunedFrom'[k] = <<matches[k].source, Season(k)>> /\ prunedFrom'[k] \in CollapsedSeasons
      BY <2>1, <2>4, <2>5 DEF CollapsedSeasons
    <3>2. prunedFrom'[k] \in Sources \X {SeasonOf[d] : d \in Draws}
      <4>1. matches[k] \in MatchRow
        BY <2>4, <2>5 DEF Collapsed, Held, TableType
      <4>2. matches[k].source \in Sources
        BY <4>1 DEF MatchRow
      <4>3. Season(k) \in {SeasonOf[d] : d \in Draws}
        BY <2>4, MatchStoreAssumption DEF Season
      <4> DEFINE seasons == {SeasonOf[d] : d \in Draws}
      <4> HIDE DEF k, seasons
      <4>4. <<matches[k].source, Season(k)>> \in Sources \X seasons
        BY <4>2, <4>3 DEF seasons
      <4> QED BY <3>1, <4>4 DEF k, seasons
    <3>3. prunedFrom'[k] # Null
      BY <3>2, NullAssumption
    <3>4. prunedFrom'[k] # f
      BY <2>2, <3>1
    <3> QED BY <3>3, <3>4
  <2>6. CASE k \notin Collapsed
    <3>1. matches[k] = Null
      <4>1. ASSUME matches[k] # Null
            PROVE  FALSE
        <5>1. [matches[k] EXCEPT !.detailed = FALSE] # Null
          BY <2>4, <4>1, ClearedRow DEF TableType
        <5>2. \/ matches'[k] = [matches[k] EXCEPT !.detailed = FALSE]
              \/ matches'[k] = matches[k]
          BY <2>1, <2>4, <2>6 DEF Prune
        <5> QED BY <4>1, <5>1, <5>2
      <4> QED BY <4>1
    <3>2. prunedFrom'[k] = prunedFrom[k]
      BY <2>1, <2>4, <2>6
    <3> QED BY <2>2, <3>1, <3>2 DEF LedgerInv
  <2> QED BY <2>5, <2>6
<1>2. CASE EndMatchFile
  <2>1. /\ job.at # NoFile /\ job.at.row > Len(Feed)
        /\ ledger' = [ledger EXCEPT ![job.at.file] = job.at.version]
        /\ UNCHANGED <<matches, prunedFrom>>
    BY <1>2 DEF EndMatchFile, RecordMatchFile, othersOfMatches
  <2>2. CASE f = job.at.file
    <3>1. ledger'[f] = job.at.version /\ Feed = FeedRows[f][ledger'[f]]
      BY <2>1, <2>2 DEF Feed, TableType
    <3>2. job.at.version \in DOMAIN FeedRows[f] /\ job.at.row \in 1 .. Len(Feed) + 1
      BY <2>1, <2>2 DEF JobInv, Control
    <3>3. FeedRows[f][job.at.version] \in Seq([key : Keys, row : FileRows])
      BY <3>2, FeedFacts
    <3>4. i \in 1 .. job.at.row - 1
      BY <2>1, <3>1, <3>2, <3>3
    <3>5. matches[Feed[i].key] # Null
      BY <2>1, <3>4 DEF FileInv
    <3> QED BY <2>1, <3>1, <3>5
  <2>3. CASE f # job.at.file
    <3>1. ledger'[f] = ledger[f]
      BY <2>1, <2>3 DEF TableType
    <3> QED BY <2>1, <3>1 DEF LedgerInv
  <2> QED BY <2>2, <2>3
<1>3. CASE ~PruneStage /\ ~EndMatchFile
  <2>1. ledger' = ledger
    BY <1>3, TablesMove, RefreshFacts, WrittenRow, DerivedPageFacts DEF QuietTables
  <2>2. (\A j \in Keys : matches[j] # Null => matches'[j] # Null) /\ prunedFrom' = prunedFrom
    BY <1>3, HeldGrows
  <2>3. k \in Keys
    BY <2>1, FeedFacts DEF TableType
  <2>4. matches[k] = Null
    BY <2>2, <2>3
  <2> QED BY <2>1, <2>2, <2>4 DEF LedgerInv
<1> QED BY <1>1, <1>2, <1>3

-----------------------------------------------------------------------------
(* The theorems.                                                           *)

\* The database of before migration 00011, or an empty one.
LEMMA TablesStart ==
    ASSUME JobInit
    PROVE  WorldType /\ TableType /\ \A k \in Keys : ScoreInv(k) /\ SidesInv(k)
<1>1. registry \in Deployments /\ MatchInit(registry.legacy)
  BY DEF JobInit
<1> DEFINE legacy == registry.legacy
<1>2. legacy \subseteq Keys /\ registry.files \subseteq Files
  BY <1>1, LoadJobAssumption
<1>3. \A f \in Files : Min(Versions) \in DOMAIN FeedRows[f] /\ Min(Versions) \in Nat
  BY MatchStoreAssumption, FeedFacts
<1>4. WorldType
  <2>1. mirror = [f \in Files |-> IF f \in registry.files THEN Min(Versions) ELSE Null]
    BY DEF JobInit
  <2> QED BY <1>1, <1>3, <2>1 DEF WorldType
<1>5. PICK s \in IF legacy = {} THEN {Null} ELSE Sources :
        /\ matches = [k \in Keys |-> IF k \in legacy THEN FusedRow(s, k) ELSE Null]
        /\ ledger = [f \in Files |-> IF \E k \in legacy : f[2] = UnitOf[k]
                                     THEN Min(Versions) ELSE Null]
  BY <1>1 DEF MatchInit
<1>6. /\ appearances = [k \in Keys |-> IF k \in legacy THEN FusedSides(k) ELSE NoSides]
      /\ derivedTo = 0 /\ prunedFrom = [k \in Keys |-> Null]
  BY <1>1 DEF MatchInit, JobInit
<1>7. ASSUME NEW k \in legacy
      PROVE  /\ FusedRow(s, k) \in MatchRow /\ FusedRow(s, k) # Null
             /\ FusedRow(s, k).derived = Null /\ FusedRow(s, k).line = Inherited
             /\ FusedRow(s, k).bestOf = 3
             /\ FusedRow(s, k).incomplete = Classified(Inherited, 3).incomplete
  <2>1. s \in Sources
    BY <1>5, <1>7
  <2>2. Inherited \in Lines /\ 3 \in Formats
    BY DEF Lines, Formats
  <2>3. Classified(Inherited, 3).incomplete \in BOOLEAN
    BY <2>2, ClassifiedFacts
  <2>4. (CHOOSE p \in PairOf[k] : TRUE) \in Players
    BY <1>2, <1>7, MatchStoreAssumption
  <2> DEFINE w == CHOOSE p \in PairOf[k] : TRUE
             unfinished == Classified(Inherited, 3).incomplete
  <2>5. FusedRow(s, k) =
          [source |-> s, winner |-> w, line |-> Inherited,
           surface |-> Null, bestOf |-> 3, incomplete |-> unfinished,
           derived |-> Null, team |-> FALSE, detailed |-> TRUE]
    BY DEF FusedRow
  <2> HIDE DEF w, unfinished
  <2>6. ASSUME NEW f \in BOOLEAN, NEW t \in BOOLEAN
        PROVE  [source |-> s, winner |-> w, line |-> Inherited,
                surface |-> Null, bestOf |-> 3, incomplete |-> unfinished,
                derived |-> Null, team |-> f, detailed |-> t] \in MatchRow
    BY <2>1, <2>2, <2>3, <2>4 DEF MatchRow, w, unfinished
  <2>7. FusedRow(s, k) \in MatchRow
    BY <2>5, <2>6
  <2>8. FusedRow(s, k) # Null
    BY <2>7, NullAssumption
  <2>9. /\ FusedRow(s, k).derived = Null /\ FusedRow(s, k).line = Inherited
        /\ FusedRow(s, k).bestOf = 3 /\ FusedRow(s, k).incomplete = unfinished
    BY <2>5
  <2> QED BY <2>7, <2>8, <2>9 DEF unfinished
<1>8. ASSUME NEW k \in legacy
      PROVE  FusedSides(k) \in [Players -> Side \cup {Null}] /\
             {p \in Players : FusedSides(k)[p] # Null} = PairOf[k] \cup {ThirdMan}
  <2>1. \A p \in Players : [won |-> p \in {ThirdMan, FusedRow(Null, k).winner}, stats |-> "impossible"] \in Side
    BY DEF Side, Stats
  <2>2. PairOf[k] \cup {ThirdMan} \subseteq Players
    BY <1>2, <1>8, MatchStoreAssumption
  <2> QED BY <2>1, <2>2, NullAssumption DEF FusedSides
<1>9. TableType
  <2>1. matches \in [Keys -> MatchRow \cup {Null}]
    BY <1>5, <1>7
  <2>2. appearances \in [Keys -> [Players -> Side \cup {Null}]]
    BY <1>6, <1>8 DEF NoSides
  <2>3. \A k \in Keys : matches[k] = Null => appearances[k] = NoSides
    BY <1>5, <1>6, <1>7
  <2>4. ledger \in [Files -> Nat \cup {Null}]
        /\ \A f \in Files : ledger[f] # Null => ledger[f] \in DOMAIN FeedRows[f]
    BY <1>3, <1>5
  <2> QED BY <1>6, <2>1, <2>2, <2>3, <2>4 DEF TableType
<1>10. ASSUME NEW k \in Keys
       PROVE  ScoreInv(k)
  <2>1. CASE k \in legacy
    <3>1. matches[k] = FusedRow(s, k)
      BY <1>5, <2>1
    <3> QED BY <1>7, <2>1, <3>1 DEF ScoreInv
  <2>2. CASE k \notin legacy
    BY <1>5, <2>2 DEF ScoreInv
  <2> QED BY <2>1, <2>2
<1>11. ASSUME NEW k \in Keys
       PROVE  SidesInv(k)
  <2>1. CASE k \in legacy
    <3>1. SidesOf(k) = PairOf[k] \cup {ThirdMan}
      BY <1>6, <1>8, <2>1 DEF SidesOf
    <3>2. PICK p \in Players, q \in Players : p # q /\ PairOf[k] = {p, q}
      BY MatchStoreAssumption
    <3>3. ThirdMan \notin PairOf[k]
      BY <1>1, <2>1, LoadJobAssumption
    <3>4. Cardinality(PairOf[k]) = 2 /\ IsFiniteSet(PairOf[k])
      <4>1. PairOf[k] \subseteq Players
        BY <3>2
      <4>2. IsFiniteSet(PairOf[k])
        BY <4>1, MatchStoreAssumption, FS_Subset
      <4>3. Cardinality({p, q}) = 2
        BY <3>2, PairHasTwo
      <4> QED BY <3>2, <4>2, <4>3
    <3>5. Cardinality(PairOf[k] \cup {ThirdMan}) = 3
      BY <3>3, <3>4, ThirdOfThree
    <3> QED BY <3>1, <3>5 DEF SidesInv
  <2>2. CASE k \notin legacy
    BY <1>5, <2>2 DEF SidesInv
  <2> QED BY <2>1, <2>2
<1> QED BY <1>4, <1>9, <1>10, <1>11

\* No load has run.
LEMMA JobStarts ==
    ASSUME JobInit
    PROVE  JobInv /\ FileInv
<1>1. job = Ended(Null, "none", {}, Null) /\ runs = [s \in RunStages |-> "none"] /\ derivedTo = 0
  BY DEF JobInit, MatchInit
<1>2. job \in Jobs
  BY <1>1, EndedJobs
<1>3. /\ job.todo = <<>> /\ job.open = FALSE /\ job.at = NoFile /\ job.started = {} /\ job.outcome = "none"
  BY <1>1 DEF Ended
<1>4. Control
  <2>1. Len(<<>>) = 0
    OBVIOUS
  <2> QED BY <1>1, <1>3, <2>1 DEF Control, Idle, InPlan
<1>5. RunsInv
  BY <1>3 DEF RunsInv, RunRecordsFollowTheJob, Idle
<1> QED BY <1>1, <1>2, <1>3, <1>4, <1>5 DEF JobInv, JobType, FileInv

\* A database written under the old key holds the rows of the files it recorded.
LEMMA LedgerStarts ==
    ASSUME JobInit
    PROVE  \A f \in Files : LedgerInv(f)
<1> SUFFICES ASSUME NEW f \in Files, ledger[f] # Null, NEW i \in 1 .. Len(FeedRows[f][ledger[f]])
             PROVE  matches[FeedRows[f][ledger[f]][i].key] # Null
  BY DEF LedgerInv
<1> DEFINE legacy == registry.legacy
<1>1. TableType /\ registry \in Deployments
  BY TablesStart DEF JobInit
<1>2. PICK s \in IF legacy = {} THEN {Null} ELSE Sources :
        /\ matches = [k \in Keys |-> IF k \in legacy THEN FusedRow(s, k) ELSE Null]
        /\ ledger = [g \in Files |-> IF \E k \in legacy : g[2] = UnitOf[k]
                                     THEN Min(Versions) ELSE Null]
  BY DEF JobInit, MatchInit
<1>3. PICK k \in legacy : f[2] = UnitOf[k]
  BY <1>2
<1>4. ledger[f] = Min(Versions)
  BY <1>2, <1>3
<1>5. f = <<f[1], UnitOf[k]>> /\ f[1] \in Sources
  BY <1>3 DEF Files
<1>6. \A e \in Range(FeedRows[f][Min(Versions)]) : e.key \in legacy
  BY <1>1, <1>5, LoadJobAssumption
<1>7. ledger[f] \in DOMAIN FeedRows[f]
  BY <1>1 DEF TableType
<1>8. FeedRows[f][ledger[f]] \in Seq([key : Keys, row : FileRows])
  BY <1>7, FeedFacts
<1>9. FeedRows[f][ledger[f]][i] \in Range(FeedRows[f][Min(Versions)])
  BY <1>4, <1>8 DEF Range
<1>10. FeedRows[f][ledger[f]][i].key \in legacy /\ FeedRows[f][ledger[f]][i].key \in Keys
  BY <1>6, <1>7, <1>9, FeedFacts
<1> DEFINE key == FeedRows[f][ledger[f]][i].key
<1>11. appearances[key] = FusedSides(key) /\ matches[key] = FusedRow(s, key)
  BY <1>2, <1>10 DEF JobInit, MatchInit
<1>12. FusedSides(key) # NoSides
  <2>1. PICK p \in Players : p \in PairOf[key]
    BY <1>10, MatchStoreAssumption
  <2>2. [won |-> p \in {ThirdMan, FusedRow(Null, key).winner}, stats |-> "impossible"] \in Side
    BY DEF Side, Stats
  <2>3. FusedSides(key)[p] # Null
    BY <2>1, <2>2, NullAssumption DEF FusedSides
  <2>4. NoSides[p] = Null
    BY DEF NoSides
  <2> QED BY <2>3, <2>4
<1> HIDE DEF key
<1>13. key \in Keys
  BY <1>10 DEF key
<1> QED BY <1>1, <1>11, <1>12, <1>13 DEF TableType, key

\* Whatever is published, started, cut short or forced, a load is where its plan says
\* and its tables have their shape (cmd/ingest, run).
THEOREM LoadInvariant == Spec => []LoadInv
<1>1. JobInit => LoadInv
  BY TablesStart, JobStarts DEF LoadInv
<1>2. LoadInv /\ [Next]_vars => LoadInv'
  BY WorldStep, TableStep, JobStep DEF LoadInv
<1> QED BY <1>1, <1>2, PTL DEF Spec

\* StartRun and FinishRun: a run that is not closed is of a process that was killed or
\* cancelled in its stage, or of a FinishRun that could not write and was only logged;
\* an error stands only with the stage at which a load failed, and a stage that ended
\* otherwise is closed without one.
THEOREM RunsFollowTheJob == Spec => []RunRecordsFollowTheJob
<1>1. LoadInv => RunRecordsFollowTheJob
  BY DEF LoadInv, JobInv, RunsInv
<1> QED BY <1>1, LoadInvariant, PTL

\* classifyScore and deriveClutchColumns: no figure of another score stays.
THEOREM FiguresAreOfTheScore == Spec => []DerivedDescribeScore
<1> DEFINE Inv == \A k \in Keys : ScoreInv(k)
<1>1. JobInit => Inv
  BY TablesStart
<1>2. LoadInv /\ Inv /\ [Next]_vars => Inv'
  BY ScoreStep DEF LoadInv
<1>3. LoadInv /\ Inv => DerivedDescribeScore
  <2> SUFFICES ASSUME LoadInv, Inv, NEW k \in Held, matches[k].derived # Null
               PROVE  /\ ~matches[k].incomplete
                      /\ matches[k].derived = Classified(matches[k].line, matches[k].bestOf).derived
    BY DEF DerivedDescribeScore
  <2> QED BY DEF Held, ScoreInv
<1> HIDE DEF Inv
<1> QED BY <1>1, <1>2, <1>3, LoadInvariant, PTL DEF Spec

\* upsertMatchPlayers overwrites both sides, and prune what a side lost.
THEOREM SidesAgree == Spec => []SidesAgreeWithTheMatch
<1> DEFINE Inv == \A k \in Keys : SidesInv(k)
<1>1. JobInit => Inv
  BY TablesStart
<1>2. LoadInv /\ Inv /\ [Next]_vars => Inv'
  BY SidesStep DEF LoadInv
<1>3. Inv => SidesAgreeWithTheMatch
  BY DEF SidesInv, SidesAgreeWithTheMatch, Held, Collapsed
<1> HIDE DEF Inv
<1> QED BY <1>1, <1>2, <1>3, LoadInvariant, PTL DEF Spec

\* What prune deletes, the ledger forgets: a match that is gone is read again, unless
\* its row named another file than the one that carries it.
THEOREM PrunedComeBack == Spec => []PrunedMatchesComeBack
<1> DEFINE Inv == FileInv /\ \A f \in Files : LedgerInv(f)
<1>1. JobInit => Inv
  BY JobStarts, LedgerStarts
<1>2. LoadInv /\ Inv /\ [Next]_vars => Inv'
  BY FileStep, LedgerStep DEF LoadInv
<1>3. LoadInv /\ Inv => PrunedMatchesComeBack
  <2> SUFFICES ASSUME LoadInv, Inv, NEW f \in Files, ledger[f] # Null,
                      NEW i \in DOMAIN FeedRows[f][ledger[f]]
               PROVE  LET k == FeedRows[f][ledger[f]][i].key IN
                      matches[k] = Null => prunedFrom[k] \notin {Null, f}
    BY DEF PrunedMatchesComeBack
  <2>1. ledger[f] \in DOMAIN FeedRows[f]
    BY DEF LoadInv, TableType
  <2>2. FeedRows[f][ledger[f]] \in Seq([key : Keys, row : FileRows])
    BY <2>1, FeedFacts
  <2>3. i \in 1 .. Len(FeedRows[f][ledger[f]])
    BY <2>2
  <2> QED BY <2>3 DEF LedgerInv
<1> HIDE DEF Inv
<1> QED BY <1>1, <1>2, <1>3, LoadInvariant, PTL DEF Spec

-----------------------------------------------------------------------------
(* What the refresh derives from the rows.                                  *)
\* Loads whose refresh counts: those that run, and those that succeeded.
Live == job.stage # "prune" /\ (~Idle \/ job.outcome = "success")
\* Rows deriveClutchColumns is for.
Underived(k) == matches[k].derived = Null /\ ~matches[k].incomplete /\ matches[k].line # Blank

\* What the refresh has settled, by the number of steps left: a page of the
\* derivation leaves nothing behind it, and no later step disturbs an earlier one.
FreshInv ==
    Live =>
        LET n == Len(job.todo) IN
        /\ n <= 4 => \A p \in WithMatches : prominence[p] = ProminenceOf(p)
        /\ n = 4 => \A k \in Held : Underived(k) => IdOf[k] > derivedTo
        /\ n <= 3 => \A k \in Held : ~Underived(k)
        /\ n <= 2 => clutch = ClutchTable
        /\ n <= 1 => serve = ServeTable
        /\ n = 0 => totals = TotalsTable

-----------------------------------------------------------------------------
(* The derived tables are functions of the match tables.                   *)

\* rebuildClutchBaselines, RefreshServeBaselines, RefreshPlayerTotals: the same rows
\* give the same tables.
LEMMA SameTables ==
    ASSUME UNCHANGED <<matches, appearances, tournaments>>
    PROVE  /\ ClutchTable' = ClutchTable /\ ServeTable' = ServeTable /\ TotalsTable' = TotalsTable
           /\ Held' = Held /\ \A k : Underived(k)' <=> Underived(k)
<1> USE DEF Appearances, Held, SidesOf, Tier, Served, Decade, Season, Won, ToDecider, Mine, SideOf,
            Both, Of
<1>1. ClutchTable' = ClutchTable
  BY DEF ClutchTable, ClutchLine
<1>2. ServeTable' = ServeTable
  BY DEF ServeTable, ServeRows, ServeCell
<1>3. TotalsTable' = TotalsTable
  BY DEF TotalsTable, TotalLine, TotalCell, TotalRows
<1>4. Held' = Held /\ \A k : Underived(k)' <=> Underived(k)
  BY DEF Underived
<1> QED BY <1>1, <1>2, <1>3, <1>4

\* RefreshProminence reads who played what, and nothing of the score.
LEMMA SameProminence ==
    ASSUME Held' = Held, UNCHANGED <<appearances, tournaments>>
    PROVE  WithMatches' = WithMatches /\ \A p : ProminenceOf(p)' = ProminenceOf(p)
BY DEF WithMatches, ProminenceOf, BestTier, SidesOf, Tier

-----------------------------------------------------------------------------
(* A page of the derivation.                                               *)

\* Rows are taken in the order of their ids: nothing pending lies before the end of
\* a page, and a page that is not full is the last.
LEMMA PagesLeaveNothing ==
    ASSUME NEW force
    PROVE  /\ Page(force) \subseteq Pending(force) /\ IsFiniteSet(Page(force))
           /\ \A k \in Pending(force) \ Page(force), j \in Page(force) : IdOf[j] < IdOf[k]
           /\ LastPage(force) => Pending(force) = Page(force)
<1> DEFINE Before(k) == {j \in Pending(force) : IdOf[j] < IdOf[k]}
<1>1. /\ Page(force) = {k \in Pending(force) : Cardinality(Before(k)) < ClutchBatch}
      /\ Page(force) \subseteq Pending(force) /\ Pending(force) \subseteq Keys
  BY DEF Page, Pending, Held
<1>2. \A k \in Keys : IdOf[k] \in Nat
  BY MatchStoreAssumption
<1>3. /\ IsFiniteSet(Page(force)) /\ IsFiniteSet(Pending(force))
      /\ \A k : Before(k) \subseteq Pending(force) /\ IsFiniteSet(Before(k))
  BY <1>1, MatchStoreAssumption, FS_Subset
<1>4. \A k : Cardinality(Before(k)) \in Nat
  BY <1>3, FS_CardinalityType
<1>5. ClutchBatch \in Nat \ {0}
  BY MatchStoreAssumption
<1>6. ASSUME NEW k \in Pending(force) \ Page(force), NEW j \in Page(force), ~(IdOf[j] < IdOf[k])
      PROVE  FALSE
  <2>1. Before(k) \subseteq Before(j)
    BY <1>1, <1>2, <1>6
  <2>2. Cardinality(Before(k)) <= Cardinality(Before(j))
    BY <1>3, <2>1, FS_Subset
  <2>3. Cardinality(Before(j)) < ClutchBatch /\ ~(Cardinality(Before(k)) < ClutchBatch)
    BY <1>1
  <2>4. Cardinality(Before(j)) \in Nat /\ Cardinality(Before(k)) \in Nat
    BY <1>4
  <2> HIDE DEF Before
  <2> QED BY <1>5, <2>2, <2>3, <2>4
<1>7. ASSUME LastPage(force), Pending(force) # Page(force)
      PROVE  FALSE
  <2> DEFINE rest == Pending(force) \ Page(force)
             ids == {IdOf[k] : k \in rest}
  <2>1. rest # {} /\ ids # {} /\ ids \subseteq Nat
    BY <1>1, <1>2, <1>7
  <2>2. PICK k \in rest : \A j \in rest : IdOf[k] <= IdOf[j]
    <3>1. PICK m \in ids : \A y \in ids : m <= y
      <4> HIDE DEF ids
      <4> QED BY <2>1, MinOfNumbers
    <3> QED BY <3>1
  <2>3. Before(k) \subseteq Page(force)
    <3> SUFFICES ASSUME NEW j \in Pending(force), IdOf[j] < IdOf[k], j \notin Page(force)
                 PROVE  FALSE
      BY <1>1
    <3>1. IdOf[k] <= IdOf[j] /\ IdOf[k] \in Nat /\ IdOf[j] \in Nat
      BY <1>1, <1>2, <2>2
    <3> QED BY <3>1
  <2>4. Cardinality(Before(k)) <= Cardinality(Page(force)) /\ Cardinality(Page(force)) \in Nat
    BY <1>3, <2>3, FS_Subset, FS_CardinalityType
  <2>5. Cardinality(Page(force)) < ClutchBatch /\ ~(Cardinality(Before(k)) < ClutchBatch)
    BY <1>1, <1>7, <2>2 DEF LastPage
  <2> QED BY <1>4, <1>5, <2>4, <2>5
<1> QED BY <1>1, <1>3, <1>6, <1>7

-----------------------------------------------------------------------------
(* Where the refresh is.                                                   *)

\* The refresh is the last five steps of a plan, in its order.
LEMMA PlaceInPlan ==
    ASSUME JobInv, ~Idle, job.stage # "prune"
    PROVE  LET n == Len(job.todo) IN
           /\ n \in Nat \ {0} /\ Step # "prune"
           /\ n >= 6 \/ Step \in RefreshSteps
           /\ Step = "prominence" => n = 5
           /\ Step = "derive" => n = 4
           /\ Step = "clutch" => n = 3
           /\ Step = "serve" => n = 2
           /\ Step = "totals" => n = 1
<1>1. job.todo \in Seq(StepNames) /\ job.todo # <<>> /\ InPlan(job.todo)
  BY DEF JobInv, JobType, Jobs, Control, Idle
<1> DEFINE todo == job.todo  n == Len(todo)
<1>2. n \in Nat \ {0} /\ Step = todo[1]
  BY <1>1, EmptySeq DEF Step
<1> HIDE DEF todo
<1>3. InPlan(todo)
  BY <1>1 DEF todo
<1>4. CASE n >= 6
  <2>1. 1 \in 1 .. n - 5
    BY <1>2, <1>4
  <2>2. todo[1] \notin RefreshSteps \cup {"prune"}
    BY <1>3, <2>1 DEF InPlan
  <2> QED BY <1>2, <1>4, <2>2 DEF RefreshSteps, todo
<1>5. CASE n < 6
  <2>1. n = 1 \/ n = 2 \/ n = 3 \/ n = 4 \/ n = 5
    <3> HIDE DEF n
    <3> QED BY <1>2, <1>5
  <2>2. /\ n >= 1 => todo[n] = "totals"
        /\ n >= 2 => todo[n - 1] = "serve"
        /\ n >= 3 => todo[n - 2] = "clutch"
        /\ n >= 4 => todo[n - 3] = "derive"
        /\ n >= 5 => todo[n - 4] = "prominence"
    BY <1>3 DEF InPlan
  <2>3. /\ n = 5 => Step = "prominence"
        /\ n = 4 => Step = "derive"
        /\ n = 3 => Step = "clutch"
        /\ n = 2 => Step = "serve"
        /\ n = 1 => Step = "totals"
    <3>1. Step = todo[1]
      BY <1>2
    <3> HIDE DEF n
    <3> QED BY <2>1, <2>2, <3>1
  <2>4. /\ Step = "prominence" => n = 5
        /\ Step = "derive" => n = 4
        /\ Step = "clutch" => n = 3
        /\ Step = "serve" => n = 2
        /\ Step = "totals" => n = 1
        /\ Step # "prune"
    <3> HIDE DEF n
    <3> QED BY <2>1, <2>3
  <2>5. n \in Nat \ {0} /\ Step \in RefreshSteps
    <3> HIDE DEF n
    <3> QED BY <2>1, <2>3 DEF RefreshSteps
  <2> QED BY <2>4, <2>5 DEF todo
<1> QED BY <1>4, <1>5, <1>2

\* Advance: one step fewer is left, and the load succeeds after its last.
LEMMA StepsLeft ==
    ASSUME JobInv, ~Idle, Advance
    PROVE  LET n == Len(job.todo) IN
           /\ n \in Nat \ {0} /\ Len(job'.todo) = n - 1 /\ job'.stage = job.stage
<1>1. job \in Jobs /\ job.todo \in Seq(StepNames) /\ job.todo # <<>>
  BY DEF JobInv, JobType, Jobs, Idle
<1>2. Len(job.todo) \in Nat \ {0} /\ Len(Tail(job.todo)) = Len(job.todo) - 1
  BY <1>1, EmptySeq, HeadTailProperties
<1>3. CASE Len(job.todo) = 1
  BY <1>2, <1>3, EmptySeq DEF Advance, Done, Ended
<1>4. CASE Len(job.todo) # 1
  <2>1. job' = [job EXCEPT !.todo = Tail(@), !.open = FALSE, !.known = NothingKnown]
    BY <1>4 DEF Advance
  <2>2. job'.todo = Tail(job.todo) /\ job'.stage = job.stage
    BY <1>1, <2>1 DEF Jobs
  <2> QED BY <1>2, <2>2
<1> QED BY <1>3, <1>4

-----------------------------------------------------------------------------
(* The steps.                                                              *)

\* A step that is not of the refresh leaves at least the whole refresh to do, or
\* leaves the tables and the plan as they are.
LEMMA OtherStep ==
    ASSUME JobInv, FreshInv, [Next]_vars, ~RefreshStage, Live'
    PROVE  \/ Len(job'.todo) >= 5
           \/ UNCHANGED <<matches, appearances, tournaments, derivedTables, derivedTo, job>>
<1> USE DEF matchVars, tables
<1>1. CASE Publish \/ ReferenceStage \/ PlayersCutShort \/ Merge \/ ChartingStage \/ UNCHANGED vars
  BY <1>1 DEF Publish, ReferenceStage, RefStep, PlayersCutShort, Merge, ChartingStage, ChartStep,
              vars, jobVars
<1>2. ASSUME NEW stage \in Stages, NEW force \in BOOLEAN, Launch(stage, force)
      PROVE  Len(job'.todo) >= 5
  <2>1. job'.todo = StepsOf(stage) /\ job'.stage = stage
    BY <1>2 DEF Launch, Ended
  <2>2. stage # "prune"
    BY <2>1 DEF Live
  <2> QED BY <2>1, <2>2, PlansEndWithTheRefresh
<1>3. CASE Weekly \/ ByHand
  BY <1>2, <1>3, LoadJobAssumption DEF Weekly, ByHand, Stages
<1>4. CASE StageFails \/ Interrupted
  <2>1. job'.todo = <<>> /\ job'.outcome # "success"
    BY <1>4 DEF StageFails, Interrupted, Abandon, Done, Ended
  <2> QED BY <2>1 DEF Live, Idle
<1>5. CASE PruneStage
  <2>1. ~Idle /\ Step = "prune" /\ Advance
    BY <1>5 DEF PruneStage, Doing, Step
  <2>2. job.stage = "prune"
    BY <2>1, PlaceInPlan
  <2> QED BY <2>1, <2>2, StepsLeft DEF Live
<1>6. CASE SkipStage \/ FinishRun \/ Reconciled \/ EventsStage
  <2>1. ~Idle /\ Advance /\ Step \in {"matches", "reference", "charting", "reconcile", "events"}
    BY <1>6 DEF SkipStage, FinishRun, Reconciled, EventsStage, Doing, Step, RunStages
  <2>2. job.stage # "prune" /\ Len(job'.todo) = Len(job.todo) - 1 /\ Len(job.todo) \in Nat
    BY <2>1, StepsLeft DEF Live
  <2>3. Len(job.todo) >= 6
    BY <2>1, <2>2, PlaceInPlan DEF RefreshSteps
  <2> QED BY <2>2, <2>3
<1>7. CASE StartRun \/ SkipMatchFile \/ OpenMatchFile \/ WriteMatchRow \/ EndMatchFile
  <2>1. ~Idle /\ Step \in RunStages /\ job'.todo = job.todo /\ job'.stage = job.stage
    BY <1>7 DEF StartRun, SkipMatchFile, OpenMatchFile, WriteMatchRow, EndMatchFile, InMatches,
                Doing, Step, RunStages, JobInv, JobType, Jobs
  <2>2. job.stage # "prune"
    BY <2>1 DEF Live
  <2>3. Len(job.todo) >= 6
    BY <2>1, <2>2, PlaceInPlan DEF RefreshSteps, RunStages
  <2>4. Len(job.todo) \in Nat
    BY <2>1, <2>2, PlaceInPlan
  <2> QED BY <2>1, <2>3, <2>4
<1> QED BY <1>1, <1>3, <1>4, <1>5, <1>6, <1>7 DEF Next, Work

\* deriveClutchColumns: every row of a page that lacks its columns gets them, and the
\* next page starts behind the last row of a full one.
LEMMA PageDerives ==
    ASSUME TableType, \A k \in Keys : ScoreInv(k), NEW force, DerivePage(force)
    PROVE  /\ Held' = Held /\ UNCHANGED <<appearances, tournaments, derivedTables>>
           /\ \A k \in Held : Underived(k)' => Underived(k) /\ k \notin Page(force)
           /\ ~LastPage(force) => \E j \in Page(force) : derivedTo' = IdOf[j]
<1>1. /\ UNCHANGED <<appearances, tournaments, derivedTables>>
      /\ \A k \in Keys :
            \/ matches'[k] = matches[k]
            \/ /\ k \in Page(force) /\ matches[k] # Null /\ matches'[k] # Null
               /\ Classified(matches[k].line, matches[k].bestOf).derived # Null
               /\ matches'[k] = [matches[k] EXCEPT !.derived =
                                    Classified(matches[k].line, matches[k].bestOf).derived]
  BY DerivedPageFacts
<1>2. Held' = Held
  BY <1>1 DEF Held
<1>3. Page(force) \subseteq Held /\ \A k \in Page(force) : ~matches[k].incomplete
  BY DEF Page, Pending
<1>4. ASSUME NEW k \in Held, Underived(k)'
      PROVE  Underived(k) /\ k \notin Page(force)
  <2>1. k \in Keys /\ matches[k] # Null /\ matches[k] \in MatchRow
    BY DEF Held, TableType
  <2> DEFINE d == Classified(matches[k].line, matches[k].bestOf).derived
  <2>2. ASSUME k \in Page(force)
        PROVE  d # Null
    <3>1. matches[k].line \in Lines /\ matches[k].bestOf \in Formats
      BY <2>1 DEF MatchRow
    <3>2. ~Classified(matches[k].line, matches[k].bestOf).incomplete
      BY <1>3, <2>1, <2>2 DEF ScoreInv
    <3> QED BY <3>1, <3>2, ClassifiedFacts
  <2>3. ASSUME matches'[k] # matches[k]
        PROVE  matches'[k].derived # Null
    <3>1. matches'[k] = [matches[k] EXCEPT !.derived = d] /\ d # Null
      BY <1>1, <2>1, <2>3
    <3> HIDE DEF d
    <3>2. matches'[k].derived = d
      BY <2>1, <3>1 DEF MatchRow
    <3> QED BY <3>1, <3>2
  <2>4. matches'[k] = matches[k]
    BY <1>4, <2>3 DEF Underived
  <2>5. Underived(k)
    BY <1>4, <2>4 DEF Underived
  <2>6. k \notin Page(force)
    <3> SUFFICES ASSUME k \in Page(force)
                 PROVE  matches'[k].derived # Null
      BY <1>4 DEF Underived
    <3>1. matches'[k] = [matches[k] EXCEPT !.derived = d] /\ d # Null
      BY <2>1, <2>2 DEF DerivePage
    <3> HIDE DEF d
    <3>2. matches'[k].derived = d
      BY <2>1, <3>1 DEF MatchRow
    <3> QED BY <3>1, <3>2
  <2> QED BY <2>5, <2>6
<1>5. ASSUME ~LastPage(force)
      PROVE  \E j \in Page(force) : derivedTo' = IdOf[j]
  <2> DEFINE ids == {IdOf[k] : k \in Page(force)}
  <2>1. derivedTo' = Max(ids)
    BY <1>5 DEF DerivePage
  <2>2. IsFiniteSet(Page(force)) /\ Page(force) # {}
    <3>1. IsFiniteSet(Page(force))
      BY PagesLeaveNothing
    <3>2. Cardinality({}) = 0 /\ ClutchBatch > 0
      BY FS_EmptySet, MatchStoreAssumption
    <3>3. Page(force) = {} => Cardinality(Page(force)) = Cardinality({})
      OBVIOUS
    <3> QED BY <1>5, <3>1, <3>2, <3>3 DEF LastPage
  <2>3. IsFiniteSet(ids)
    <3> DEFINE f == [k \in Page(force) |-> IdOf[k]]
    <3>1. f \in Surjection(Page(force), ids)
      BY DEF Surjection
    <3> QED BY <2>2, <3>1, FS_Surjection, Zenon
  <2>4. ids \subseteq Nat /\ ids # {}
    BY <1>3, <2>2, MatchStoreAssumption DEF Held
  <2>5. Max(ids) \in ids
    BY <2>3, <2>4, MaxOfNumbers
  <2> QED BY <2>1, <2>5
<1> QED BY <1>1, <1>2, <1>4, <1>5

\* A step of the refresh settles its table, and leaves the ones before it settled.
LEMMA RefreshStep ==
    ASSUME TableType, JobInv, \A k \in Keys : ScoreInv(k), FreshInv, RefreshStage
    PROVE  FreshInv'
<1> DEFINE n == Len(job.todo)
<1>1. CASE Doing("prominence") /\ RefreshProminence /\ Advance
  <2>1. ~Idle /\ Step = "prominence" /\ job.stage # "prune"
    BY <1>1 DEF Doing, Step, RefreshSteps, Control, JobInv, Idle
  <2>2. Len(job'.todo) = 4
    <3>1. n = 5
      BY <2>1, PlaceInPlan
    <3> QED BY <1>1, <2>1, <3>1, StepsLeft
  <2>3. UNCHANGED <<matches, appearances, tournaments, derivedTo>>
        /\ prominence' = [p \in Players |-> IF p \in WithMatches THEN ProminenceOf(p) ELSE prominence[p]]
    BY <1>1 DEF RefreshProminence, tables
  <2>4. Held' = Held /\ (\A k : Underived(k)' <=> Underived(k))
        /\ WithMatches' = WithMatches /\ \A p : ProminenceOf(p)' = ProminenceOf(p)
    BY <2>3, SameTables, SameProminence
  <2>5. \A p \in WithMatches : prominence'[p] = ProminenceOf(p)
    BY <2>3 DEF WithMatches
  <2>6. derivedTo = 0 /\ \A k \in Keys : IdOf[k] > 0
    BY <2>1, MatchStoreAssumption DEF JobInv, Control, Doing, Step
  <2>7. \A k \in Held : IdOf[k] > derivedTo'
    BY <2>3, <2>6 DEF Held
  <2> QED BY <2>2, <2>4, <2>5, <2>7 DEF FreshInv
<1>2. CASE Doing("derive") /\ DerivePage(job.force)
           /\ IF LastPage(job.force) THEN Advance ELSE UNCHANGED job
  <2> DEFINE force == job.force
  <2>1. ~Idle /\ Step = "derive" /\ job.stage # "prune"
    BY <1>2 DEF Doing, Step, Control, JobInv, Idle
  <2>2. n = 4
    BY <2>1, PlaceInPlan
  <2>3. Live
    BY <2>1 DEF Live
  <2>4. /\ \A p \in WithMatches : prominence[p] = ProminenceOf(p)
        /\ \A k \in Held : Underived(k) => IdOf[k] > derivedTo
    BY <2>2, <2>3 DEF FreshInv
  <2>5. /\ Held' = Held /\ UNCHANGED <<appearances, tournaments, prominence>>
        /\ \A k \in Held : Underived(k)' => Underived(k) /\ k \notin Page(force)
        /\ ~LastPage(force) => \E j \in Page(force) : derivedTo' = IdOf[j]
    BY <1>2, PageDerives DEF derivedTables
  <2>6. \A p \in WithMatches' : prominence'[p] = ProminenceOf(p)'
    BY <2>4, <2>5, SameProminence
  <2>7. \A k \in Held : Underived(k)' => k \in Pending(force) \ Page(force)
    BY <2>4, <2>5 DEF Pending, Underived
  <2>8. CASE LastPage(force)
    <3>1. Len(job'.todo) = 3
      BY <1>2, <2>1, <2>2, <2>8, StepsLeft
    <3>2. \A k \in Held' : ~Underived(k)'
      BY <2>5, <2>7, <2>8, PagesLeaveNothing
    <3> QED BY <2>6, <3>1, <3>2 DEF FreshInv
  <2>9. CASE ~LastPage(force)
    <3>1. Len(job'.todo) = 4
      BY <1>2, <2>2, <2>9
    <3>2. PICK j \in Page(force) : derivedTo' = IdOf[j]
      BY <2>5, <2>9
    <3>3. ASSUME NEW k \in Held, Underived(k)'
          PROVE  IdOf[k] > derivedTo'
      <4>1. k \in Keys /\ j \in Keys /\ IdOf[k] \in Nat /\ IdOf[j] \in Nat
        BY MatchStoreAssumption DEF Page, Pending, Held
      <4>2. IdOf[j] < IdOf[k]
        BY <2>7, <3>3, PagesLeaveNothing
      <4> QED BY <3>2, <4>1, <4>2
    <3>4. \A k \in Held' : Underived(k)' => IdOf[k] > derivedTo'
      BY <2>5, <3>3
    <3> QED BY <2>6, <3>1, <3>4 DEF FreshInv
  <2> QED BY <2>8, <2>9
<1>3. CASE \/ Doing("clutch") /\ RebuildClutchBaselines /\ Advance
           \/ Doing("serve") /\ RefreshServeBaselines /\ Advance
           \/ Doing("totals") /\ RefreshPlayerTotals /\ Advance
  <2>1. ~Idle /\ Step \in {"clutch", "serve", "totals"} /\ job.stage # "prune" /\ Advance
    BY <1>3 DEF Doing, Step, Control, JobInv, Idle
  <2>2. Live
    BY <2>1 DEF Live
  <2>3. UNCHANGED <<matches, appearances, tournaments, prominence, derivedTo>>
    BY <1>3 DEF RebuildClutchBaselines, RefreshServeBaselines, RefreshPlayerTotals, tables
  <2>4. /\ ClutchTable' = ClutchTable /\ ServeTable' = ServeTable /\ TotalsTable' = TotalsTable
        /\ Held' = Held /\ \A k : Underived(k)' <=> Underived(k)
    BY <2>3, SameTables
  <2>5. WithMatches' = WithMatches /\ \A p : ProminenceOf(p)' = ProminenceOf(p)
    BY <2>3, <2>4, SameProminence
  <2>6. n \in Nat /\ n <= 3 /\ Len(job'.todo) = n - 1
    <3>1. Step = "clutch" => n = 3
      BY <2>1, PlaceInPlan
    <3>2. Step = "serve" => n = 2
      BY <2>1, PlaceInPlan
    <3>3. Step = "totals" => n = 1
      BY <2>1, PlaceInPlan
    <3>4. Len(job'.todo) = n - 1
      BY <2>1, StepsLeft
    <3> HIDE DEF n
    <3> QED BY <2>1, <3>1, <3>2, <3>3, <3>4
  <2>7. /\ \A p \in WithMatches' : prominence'[p] = ProminenceOf(p)'
        /\ \A k \in Held' : ~Underived(k)'
    <3>1. /\ \A p \in WithMatches : prominence[p] = ProminenceOf(p)
          /\ \A k \in Held : ~Underived(k)
      BY <2>2, <2>6 DEF FreshInv
    <3> QED BY <2>3, <2>4, <2>5, <3>1
  <2>8. CASE Doing("clutch") /\ RebuildClutchBaselines
    <3>1. n = 3
      BY <2>1, <2>8, PlaceInPlan DEF Doing, Step
    <3>2. clutch' = ClutchTable'
      BY <2>4, <2>8 DEF RebuildClutchBaselines
    <3> HIDE DEF n
    <3> QED BY <2>6, <2>7, <3>1, <3>2 DEF FreshInv
  <2>9. CASE Doing("serve") /\ RefreshServeBaselines
    <3>1. n = 2
      BY <2>1, <2>9, PlaceInPlan DEF Doing, Step
    <3>2. clutch' = ClutchTable' /\ serve' = ServeTable'
      BY <2>2, <2>4, <2>9, <3>1 DEF FreshInv, RefreshServeBaselines
    <3> HIDE DEF n
    <3> QED BY <2>6, <2>7, <3>1, <3>2 DEF FreshInv
  <2>10. CASE Doing("totals") /\ RefreshPlayerTotals
    <3>1. n = 1
      BY <2>1, <2>10, PlaceInPlan DEF Doing, Step
    <3>2. clutch' = ClutchTable' /\ serve' = ServeTable' /\ totals' = TotalsTable'
      BY <2>2, <2>4, <2>10, <3>1 DEF FreshInv, RefreshPlayerTotals
    <3> HIDE DEF n
    <3> QED BY <2>6, <2>7, <3>1, <3>2 DEF FreshInv
  <2> QED BY <1>3, <2>8, <2>9, <2>10
<1> QED BY <1>1, <1>2, <1>3 DEF RefreshStage

\* Every other step keeps what the refresh has settled.
LEMMA FreshStep ==
    ASSUME LoadInv, \A k \in Keys : ScoreInv(k), FreshInv, [Next]_vars
    PROVE  FreshInv'
<1>1. CASE RefreshStage
  BY <1>1, RefreshStep DEF LoadInv
<1>2. CASE ~RefreshStage
  <2> SUFFICES ASSUME Live'
               PROVE  FreshInv'
    BY DEF FreshInv
  <2>1. CASE Len(job'.todo) >= 5
    <3>1. Len(job'.todo) \in Nat
      <4>1. job'.todo \in Seq(StepNames)
        BY JobStep DEF LoadInv, JobInv, JobType, Jobs
      <4> QED BY <4>1
    <3>2. \A n \in Nat : n >= 5 =>
              ~(n <= 4) /\ n # 4 /\ ~(n <= 3) /\ ~(n <= 2) /\ ~(n <= 1) /\ n # 0
      OBVIOUS
    <3> DEFINE n == Len(job'.todo)
    <3>3. ~(n <= 4) /\ n # 4 /\ ~(n <= 3) /\ ~(n <= 2) /\ ~(n <= 1) /\ n # 0
      BY <2>1, <3>1, <3>2
    <3> QED BY <3>3, Zenon DEF FreshInv
  <2>2. CASE UNCHANGED <<matches, appearances, tournaments, derivedTables, derivedTo, job>>
    <3>1. /\ ClutchTable' = ClutchTable /\ ServeTable' = ServeTable /\ TotalsTable' = TotalsTable
          /\ Held' = Held /\ \A k : Underived(k)' <=> Underived(k)
      BY <2>2, SameTables
    <3>2. WithMatches' = WithMatches /\ \A p : ProminenceOf(p)' = ProminenceOf(p)
      BY <2>2, <3>1, SameProminence
    <3>3. Live' <=> Live
      BY <2>2 DEF Live, Idle
    <3>4. UNCHANGED <<prominence, clutch, serve, totals, derivedTo, job>>
      BY <2>2 DEF derivedTables
    <3>5. (\A p \in WithMatches : prominence[p] = ProminenceOf(p))
          <=> \A p \in WithMatches' : prominence'[p] = ProminenceOf(p)'
      BY <3>2, <3>4
    <3>6. /\ (\A k \in Held : Underived(k) => IdOf[k] > derivedTo)
             <=> \A k \in Held' : Underived(k)' => IdOf[k] > derivedTo'
          /\ (\A k \in Held : ~Underived(k)) <=> \A k \in Held' : ~Underived(k)'
      BY <3>1, <3>4
    <3> QED BY <3>1, <3>3, <3>4, <3>5, <3>6 DEF FreshInv
  <2> QED BY <1>2, <2>1, <2>2, OtherStep DEF LoadInv
<1> QED BY <1>1, <1>2

\* run ends with the refresh: once it has succeeded, the clutch, serve and totals tables,
\* the columns derived of a score and the prominence of every player with a match are of
\* the rows as they are, whatever loads failed or were cut short before it. The prominence
\* of a player without one may be older (store_reference.go, RefreshProminence).
THEOREM FreshAfterALoad == Spec => []FreshAfterSuccess
<1> DEFINE Inv == \A k \in Keys : ScoreInv(k)
<1>1. JobInit => Inv /\ FreshInv
  <2>1. JobInit => ~Live
    BY DEF JobInit, Live, Idle, Ended
  <2> QED BY <2>1, TablesStart DEF FreshInv
<1>2. LoadInv /\ Inv /\ FreshInv /\ [Next]_vars => Inv' /\ FreshInv'
  BY ScoreStep, FreshStep DEF LoadInv
<1>3. LoadInv /\ FreshInv => FreshAfterSuccess
  <2> SUFFICES ASSUME FreshInv, Settled
               PROVE  FreshAfterSuccess
    BY DEF FreshAfterSuccess
  <2>1. Live /\ Len(job.todo) = 0
    BY EmptySeq DEF Settled, Live, Idle
  <2>2. /\ clutch = ClutchTable /\ serve = ServeTable /\ totals = TotalsTable
        /\ \A p \in WithMatches : prominence[p] = ProminenceOf(p)
        /\ \A k \in Held : ~Underived(k)
    BY <2>1 DEF FreshInv
  <2> QED BY <2>2 DEF FreshAfterSuccess, Underived
<1> HIDE DEF Inv
<1> QED BY <1>1, <1>2, <1>3, LoadInvariant, PTL DEF Spec

-----------------------------------------------------------------------------
(* The totals of both sides.                                               *)

\* The rows of a cell.
RowsIn(T, k) == {r \in T : TotalCell(r) = k}

\* A column of player_totals, a line a cell, adds up to what its rows add up to.
LEMMA ColumnOfTotals ==
    ASSUME IsFiniteSet(TotalRows), NEW column, NEW f, \A r \in TotalRows : f[r] \in Int,
           \A k : TotalLine(k)[column] = SumFunctionOnSet(f, RowsIn(TotalRows, k))
    PROVE  Sum(TotalsTable, column) = SumFunctionOnSet(f, TotalRows)
<1> DEFINE c == [r \in TotalRows |-> TotalCell(r)]
           C == Values(c, TotalRows)
           b == [k \in C |-> TotalLine(k)]
           F == [k \in C |-> TotalLine(k)[column]]
           g == [t \in TotalsTable |-> t[column]]
<1>1. ASSUME NEW k \in C
      PROVE  F[k] = SumFunctionOnSet(f, Having(TotalRows, c, k)) /\ F[k] \in Int
  <2>1. Having(TotalRows, c, k) = RowsIn(TotalRows, k)
    BY DEF Having, RowsIn
  <2>2. IsFiniteSet(RowsIn(TotalRows, k)) /\ \A s \in RowsIn(TotalRows, k) : f[s] \in Int
    BY FS_Subset DEF RowsIn
  <2>3. SumFunctionOnSet(f, RowsIn(TotalRows, k)) \in Int
    BY <2>2, SumIsNumber
  <2>4. F[k] = SumFunctionOnSet(f, RowsIn(TotalRows, k))
    OBVIOUS
  <2> QED BY <2>1, <2>3, <2>4
<1>2. SumFunctionOnSet(F, C) = SumFunctionOnSet(f, TotalRows)
  <2> HIDE DEF F, c
  <2> QED BY <1>1, SumOfCells
<1>3. IsFiniteSet(C)
  <2> HIDE DEF c
  <2> QED BY FiniteImage
<1>4. \A j, k \in C : b[j] = b[k] => j = k
  <2>1. \A k : TotalLine(k).cell = k
    BY DEF TotalLine
  <2>2. \A k \in C : b[k] = TotalLine(k)
    OBVIOUS
  <2> HIDE DEF C, b
  <2> QED BY <2>1, <2>2
<1>5. Values(b, C) = TotalsTable
  <2>1. ASSUME NEW t \in TotalsTable PROVE t \in {b[k] : k \in C}
    <3>1. PICK r \in TotalRows : t = TotalLine(TotalCell(r))
      BY DEF TotalsTable
    <3>2. TotalCell(r) \in C
      BY DEF Values
    <3>3. b[TotalCell(r)] = t
      BY <3>1, <3>2
    <3> QED BY <3>2, <3>3
  <2>2. ASSUME NEW k \in C PROVE b[k] \in TotalsTable
    BY DEF TotalsTable, Values
  <2> QED BY <2>1, <2>2 DEF Values
<1>6. \A k \in C : F[k] \in Int /\ g[b[k]] = F[k]
  <2>1. ASSUME NEW k \in C PROVE g[b[k]] = F[k]
    <3>1. b[k] \in TotalsTable
      BY <1>5 DEF Values
    <3> QED BY <3>1
  <2> QED BY <1>1, <2>1
<1>7. SumFunctionOnSet(g, TotalsTable) = SumFunctionOnSet(F, C)
  <2> HIDE DEF F, C, b, g
  <2> QED BY <1>3, <1>4, <1>5, <1>6, SumMoved
<1>8. Sum(TotalsTable, column) = SumFunctionOnSet(g, TotalsTable)
  <2>1. DOMAIN g = TotalsTable
    OBVIOUS
  <2>2. Sum(TotalsTable, column) = SumFunction(g)
    BY DEF Sum
  <2> HIDE DEF g
  <2> QED BY <2>1, <2>2 DEF SumFunction
<1> QED BY <1>2, <1>7, <1>8

\* The row of the other side of the same match.
Turned(r) == <<r[1], r[3], r[2]>>

LEMMA TurnedFacts ==
    ASSUME NEW r \in TotalRows
    PROVE  Turned(r) \in TotalRows /\ Turned(Turned(r)) = r
BY DEF Turned, TotalRows

\* What a side has won, and what the other has, is what both have played.
LEMMA SidesMakeTheWhole ==
    ASSUME IsFiniteSet(TotalRows), NEW f, NEW g,
           \A r \in TotalRows : f[r] \in Int /\ g[r] = f[r] + f[Turned(r)]
    PROVE  2 * SumFunctionOnSet(f, TotalRows) = SumFunctionOnSet(g, TotalRows)
<1> DEFINE b == [r \in TotalRows |-> Turned(r)]
           h == [r \in TotalRows |-> f[Turned(r)]]
<1>1. \A r \in TotalRows : b[r] \in TotalRows /\ b[b[r]] = r
  BY TurnedFacts
<1>2. Values(b, TotalRows) = TotalRows /\ \A r, s \in TotalRows : b[r] = b[s] => r = s
  BY <1>1 DEF Values
<1>3. \A r \in TotalRows : h[r] \in Int /\ f[b[r]] = h[r]
  BY <1>1
<1>4. SumFunctionOnSet(f, TotalRows) = SumFunctionOnSet(h, TotalRows)
  <2> HIDE DEF b, h
  <2> QED BY <1>2, <1>3, SumMoved
<1>5. SumFunctionOnSet(g, TotalRows) = SumFunctionOnSet(f, TotalRows) + SumFunctionOnSet(h, TotalRows)
  <2>1. \A r \in TotalRows : f[r] \in Int /\ h[r] \in Int /\ g[r] = f[r] + h[r]
    BY <1>3
  <2> HIDE DEF h
  <2> QED BY <2>1, SumOfTwo
<1>6. SumFunctionOnSet(f, TotalRows) \in Int
  BY SumIsNumber
<1> QED BY <1>4, <1>5, <1>6

LEMMA TotalRowsFinite == IsFiniteSet(TotalRows)
<1>1. IsFiniteSet(Keys) /\ IsFiniteSet(Players) /\ Held \subseteq Keys
  BY MatchStoreAssumption DEF Held
<1>2. IsFiniteSet(Players \X Players)
  BY <1>1, FS_Product
<1>3. IsFiniteSet(Keys \X (Players \X Players))
  BY <1>1, <1>2, FS_Product
<1> DEFINE P == Keys \X (Players \X Players)
           b == [x \in P |-> <<x[1], x[2][1], x[2][2]>>]
           T == Values(b, P)
<1>4. IsFiniteSet(T)
  <2> HIDE DEF b
  <2> QED BY <1>3, FiniteImage
<1>5. ASSUME NEW r \in TotalRows PROVE r \in T
  <2>1. r \in Held \X Players \X Players
    BY DEF TotalRows
  <2>2. <<r[1], <<r[2], r[3]>>>> \in P /\ r = <<r[1], r[2], r[3]>>
    BY <1>1, <2>1
  <2>3. b[<<r[1], <<r[2], r[3]>>>>] = r
    BY <2>2
  <2> QED BY <2>2, <2>3 DEF Values
<1> QED BY <1>4, <1>5, FS_Subset

\* Of the two sides of a row, one has won.
LEMMA OneSideWon ==
    ASSUME SidesAgreeWithTheMatch, Collapsed = {}, NEW r \in TotalRows
    PROVE  Won(r[1], r[2]) <=> ~Won(r[1], r[3])
<1>1. /\ r[1] \in Held /\ r[2] # r[3]
      /\ {r[2], r[3]} \subseteq SidesOf(r[1])
  BY DEF TotalRows
<1>2. IsFiniteSet(SidesOf(r[1])) /\ Cardinality(SidesOf(r[1])) = 2
  BY <1>1, MatchStoreAssumption, FS_Subset DEF Collapsed, SidesOf
<1>3. Cardinality({r[2], r[3]}) = 2
  BY <1>1, PairHasTwo
<1>4. SidesOf(r[1]) = {r[2], r[3]}
  BY <1>1, <1>2, <1>3, FS_Subset
<1>5. matches[r[1]].winner \in {r[2], r[3]}
  BY <1>1, <1>4 DEF SidesAgreeWithTheMatch
<1>6. \A p \in SidesOf(r[1]) : Won(r[1], p) <=> p = matches[r[1]].winner
  BY <1>1 DEF SidesAgreeWithTheMatch
<1> QED BY <1>1, <1>4, <1>5, <1>6

\* A count of rows.
LEMMA CountOfTotals ==
    ASSUME IsFiniteSet(TotalRows), NEW column, NEW T \in SUBSET TotalRows,
           \A k : TotalLine(k)[column] = Cardinality(RowsIn(T, k))
    PROVE  Sum(TotalsTable, column)
             = SumFunctionOnSet([r \in TotalRows |-> IF r \in T THEN 1 ELSE 0], TotalRows)
<1> DEFINE f == [r \in TotalRows |-> IF r \in T THEN 1 ELSE 0]
<1>1. ASSUME NEW k
      PROVE  TotalLine(k)[column] = SumFunctionOnSet(f, RowsIn(TotalRows, k))
  <2> DEFINE rows == RowsIn(TotalRows, k)
             U == RowsIn(T, k)
  <2>1. IsFiniteSet(rows) /\ U \subseteq rows /\ \A x \in rows : f[x] = IF x \in U THEN 1 ELSE 0
    BY FS_Subset DEF RowsIn
  <2> HIDE DEF f
  <2>2. SumFunctionOnSet(f, rows) = Cardinality(U)
    <3> HIDE DEF rows, U
    <3> QED BY <2>1, SumOfOnes
  <2> QED BY <2>2
<1>2. \A r \in TotalRows : f[r] \in Int
  OBVIOUS
<1> HIDE DEF f
<1>3. Sum(TotalsTable, column) = SumFunctionOnSet(f, TotalRows)
  BY <1>1, <1>2, ColumnOfTotals
<1> QED BY <1>3 DEF f

\* A figure of a side, and of both sides.
ScoreColumns == {"sets", "games", "tiebreaks"}
LEMMA FigureTypes ==
    ASSUME TableType, NEW k \in Held, NEW column \in ScoreColumns
    PROVE  Of(k, column) \in Nat \X Nat
<1>1. matches[k] \in MatchRow
  BY DEF TableType, Held
<1>2. matches[k].derived \in {Derived(Parse(l), n) : l \in Lines, n \in Formats} \cup {Null}
  BY <1>1 DEF MatchRow
<1>3. CASE matches[k].derived = Null
  BY <1>3 DEF Of
<1>4. CASE matches[k].derived # Null
  <2>1. PICK l \in Lines, n \in Formats : matches[k].derived = Derived(Parse(l), n)
    BY <1>2, <1>4
  <2>2. Derived(Parse(l), n)[column] \in Nat \X Nat
    BY ScoreAssumption DEF ScoreColumns
  <2> QED BY <1>4, <2>1, <2>2 DEF Of
<1> QED BY <1>3, <1>4

\* What TotalLine sums of the rows of a cell.
OfSide(k, column) == SumFunction([r \in RowsIn(TotalRows, k) |-> Mine(r[1], r[2], column)])
OfBoth(k, column) == SumFunction([r \in RowsIn(TotalRows, k) |-> Both(r[1], column)])
Winning(T) == {r \in T : Won(r[1], r[2])}

\* Figures of the two sides of a match make the figure of the match.
LEMMA FiguresBalance ==
    ASSUME TableType, SidesAgreeWithTheMatch, Collapsed = {}, NEW column \in ScoreColumns,
           NEW mine, NEW both,
           \A k : TotalLine(k)[mine] = OfSide(k, column) /\ TotalLine(k)[both] = OfBoth(k, column)
    PROVE  2 * Sum(TotalsTable, mine) = Sum(TotalsTable, both)
<1> DEFINE f == [r \in TotalRows |-> Mine(r[1], r[2], column)]
           g == [r \in TotalRows |-> Both(r[1], column)]
<1>1. ASSUME NEW r \in TotalRows
      PROVE  f[r] \in Int /\ g[r] \in Int /\ g[r] = f[r] + f[Turned(r)]
  <2>1. Of(r[1], column) \in Nat \X Nat
    BY FigureTypes DEF TotalRows
  <2>2. Won(r[1], r[2]) <=> ~Won(r[1], r[3])
    BY OneSideWon
  <2>3. f[r] = SideOf(r[1], r[2], Of(r[1], column))
    BY DEF Mine
  <2>4. f[Turned(r)] = SideOf(r[1], r[3], Of(r[1], column))
    <3>1. Turned(r) \in TotalRows
      BY TurnedFacts
    <3>2. f[Turned(r)] = Mine(Turned(r)[1], Turned(r)[2], column)
      BY <3>1
    <3> QED BY <3>2 DEF Mine, Turned
  <2>5. g[r] = Of(r[1], column)[1] + Of(r[1], column)[2]
    BY DEF Both
  <2> HIDE DEF f, g
  <2> QED BY <2>1, <2>2, <2>3, <2>4, <2>5 DEF SideOf
<1>2. ASSUME NEW k
      PROVE  /\ TotalLine(k)[mine] = SumFunctionOnSet(f, RowsIn(TotalRows, k))
             /\ TotalLine(k)[both] = SumFunctionOnSet(g, RowsIn(TotalRows, k))
  <2> DEFINE rows == RowsIn(TotalRows, k)
             f1 == [r \in rows |-> Mine(r[1], r[2], column)]
             g1 == [r \in rows |-> Both(r[1], column)]
  <2>1. TotalLine(k)[mine] = SumFunctionOnSet(f1, rows) /\ TotalLine(k)[both] = SumFunctionOnSet(g1, rows)
    <3>1. TotalLine(k)[mine] = SumFunction(f1) /\ TotalLine(k)[both] = SumFunction(g1)
      BY DEF OfSide, OfBoth
    <3>2. DOMAIN f1 = rows /\ DOMAIN g1 = rows
      OBVIOUS
    <3> HIDE DEF f1, g1, rows
    <3> QED BY <3>1, <3>2 DEF SumFunction
  <2>2. IsFiniteSet(rows) /\ \A r \in rows : f1[r] = f[r] /\ g1[r] = g[r]
    BY TotalRowsFinite, FS_Subset DEF RowsIn
  <2>3. SumFunctionOnSet(f1, rows) = SumFunctionOnSet(f, rows)
    <3> HIDE DEF f1, f, rows
    <3> QED BY <2>2, SumOfSame
  <2>4. SumFunctionOnSet(g1, rows) = SumFunctionOnSet(g, rows)
    <3> HIDE DEF g1, g, rows
    <3> QED BY <2>2, SumOfSame
  <2> QED BY <2>1, <2>3, <2>4
<1> HIDE DEF f, g
<1>3. Sum(TotalsTable, mine) = SumFunctionOnSet(f, TotalRows)
  BY <1>1, <1>2, TotalRowsFinite, ColumnOfTotals
<1>4. Sum(TotalsTable, both) = SumFunctionOnSet(g, TotalRows)
  BY <1>1, <1>2, TotalRowsFinite, ColumnOfTotals
<1> QED BY <1>1, <1>3, <1>4, TotalRowsFinite, SidesMakeTheWhole

\* Counts of the sides that won something, and of those that played it.
LEMMA CountsBalance ==
    ASSUME SidesAgreeWithTheMatch, Collapsed = {}, NEW mine, NEW both,
           NEW T \in SUBSET TotalRows, \A r \in T : Turned(r) \in T,
           \A k : /\ TotalLine(k)[mine] = Cardinality(RowsIn(Winning(T), k))
                  /\ TotalLine(k)[both] = Cardinality(RowsIn(T, k))
    PROVE  2 * Sum(TotalsTable, mine) = Sum(TotalsTable, both)
<1> DEFINE U == Winning(T)
           f == [r \in TotalRows |-> IF r \in U THEN 1 ELSE 0]
           g == [r \in TotalRows |-> IF r \in T THEN 1 ELSE 0]
<1>1. ASSUME NEW r \in TotalRows
      PROVE  f[r] \in Int /\ g[r] = f[r] + f[Turned(r)]
  <2>1. Turned(r) \in TotalRows /\ Turned(Turned(r)) = r
    BY TurnedFacts
  <2>2. r \in T <=> Turned(r) \in T
    BY <2>1
  <2>3. Won(r[1], r[2]) <=> ~Won(r[1], r[3])
    BY OneSideWon
  <2>4. Turned(r)[1] = r[1] /\ Turned(r)[2] = r[3]
    BY DEF Turned
  <2>5. Turned(r) \in U <=> r \in T /\ Won(r[1], r[3])
    BY <2>2, <2>4 DEF Winning
  <2>6. r \in U <=> r \in T /\ Won(r[1], r[2])
    BY DEF Winning
  <2>7. /\ f[r] = IF r \in U THEN 1 ELSE 0
        /\ f[Turned(r)] = IF Turned(r) \in U THEN 1 ELSE 0
        /\ g[r] = IF r \in T THEN 1 ELSE 0
    BY <2>1
  <2> HIDE DEF f, g, U
  <2> QED BY <2>3, <2>5, <2>6, <2>7
<1>2. Sum(TotalsTable, mine) = SumFunctionOnSet(f, TotalRows)
  <2>1. U \in SUBSET TotalRows /\ \A k : TotalLine(k)[mine] = Cardinality(RowsIn(U, k))
    BY DEF Winning
  <2> HIDE DEF U
  <2> QED BY <2>1, TotalRowsFinite, CountOfTotals
<1>3. Sum(TotalsTable, both) = SumFunctionOnSet(g, TotalRows)
  BY TotalRowsFinite, CountOfTotals
<1> HIDE DEF f, g
<1> QED BY <1>1, <1>2, <1>3, TotalRowsFinite, SidesMakeTheWhole

\* RefreshPlayerTotals counts an appearance from both sides of its match.
LEMMA TableBalances ==
    ASSUME TableType, SidesAgreeWithTheMatch, Collapsed = {}
    PROVE  /\ 2 * Sum(TotalsTable, "wins") = Sum(TotalsTable, "matches")
           /\ 2 * Sum(TotalsTable, "setsWon") = Sum(TotalsTable, "setsPlayed")
           /\ 2 * Sum(TotalsTable, "gamesWon") = Sum(TotalsTable, "gamesPlayed")
           /\ 2 * Sum(TotalsTable, "tiebreaksWon") = Sum(TotalsTable, "tiebreaksPlayed")
           /\ 2 * Sum(TotalsTable, "decidersWon") = Sum(TotalsTable, "deciders")
<1>1. 2 * Sum(TotalsTable, "wins") = Sum(TotalsTable, "matches")
  <2>1. ASSUME NEW k
        PROVE  /\ TotalLine(k)["wins"] = Cardinality(RowsIn(Winning(TotalRows), k))
               /\ TotalLine(k)["matches"] = Cardinality(RowsIn(TotalRows, k))
    <3> DEFINE rows == {r \in TotalRows : TotalCell(r) = k}
    <3>1. {r \in rows : Won(r[1], r[2])} = RowsIn(Winning(TotalRows), k)
      BY DEF RowsIn, Winning
    <3>2. /\ TotalLine(k)["wins"] = Cardinality({r \in rows : Won(r[1], r[2])})
          /\ TotalLine(k)["matches"] = Cardinality(rows)
      BY DEF TotalLine
    <3> QED BY <3>1, <3>2 DEF RowsIn
  <2>2. \A r \in TotalRows : Turned(r) \in TotalRows
    BY TurnedFacts
  <2> QED BY <2>1, <2>2, CountsBalance
<1>2. 2 * Sum(TotalsTable, "decidersWon") = Sum(TotalsTable, "deciders")
  <2> DEFINE T == {r \in TotalRows : ToDecider(r[1])}
  <2>1. ASSUME NEW k
        PROVE  /\ TotalLine(k)["decidersWon"] = Cardinality(RowsIn(Winning(T), k))
               /\ TotalLine(k)["deciders"] = Cardinality(RowsIn(T, k))
    <3> DEFINE rows == {r \in TotalRows : TotalCell(r) = k}
    <3>1. /\ {r \in rows : ToDecider(r[1]) /\ Won(r[1], r[2])} = RowsIn(Winning(T), k)
          /\ {r \in rows : ToDecider(r[1])} = RowsIn(T, k)
      BY DEF RowsIn, Winning
    <3>2. /\ TotalLine(k)["decidersWon"] = Cardinality({r \in rows : ToDecider(r[1]) /\ Won(r[1], r[2])})
          /\ TotalLine(k)["deciders"] = Cardinality({r \in rows : ToDecider(r[1])})
      BY DEF TotalLine
    <3> QED BY <3>1, <3>2
  <2>2. ASSUME NEW r \in T PROVE Turned(r) \in T
    <3>1. Turned(r) \in TotalRows /\ Turned(r)[1] = r[1]
      BY TurnedFacts DEF Turned
    <3> QED BY <3>1
  <2>3. T \in SUBSET TotalRows
    OBVIOUS
  <2> HIDE DEF T
  <2> QED BY <2>1, <2>2, <2>3, CountsBalance
<1>3. ASSUME NEW k
      PROVE  /\ TotalLine(k)["setsWon"] = OfSide(k, "sets") /\ TotalLine(k)["setsPlayed"] = OfBoth(k, "sets")
             /\ TotalLine(k)["gamesWon"] = OfSide(k, "games") /\ TotalLine(k)["gamesPlayed"] = OfBoth(k, "games")
             /\ TotalLine(k)["tiebreaksWon"] = OfSide(k, "tiebreaks")
             /\ TotalLine(k)["tiebreaksPlayed"] = OfBoth(k, "tiebreaks")
  BY DEF TotalLine, OfSide, OfBoth, RowsIn
<1>4. 2 * Sum(TotalsTable, "setsWon") = Sum(TotalsTable, "setsPlayed")
  BY <1>3, FiguresBalance DEF ScoreColumns
<1>5. 2 * Sum(TotalsTable, "gamesWon") = Sum(TotalsTable, "gamesPlayed")
  BY <1>3, FiguresBalance DEF ScoreColumns
<1>6. 2 * Sum(TotalsTable, "tiebreaksWon") = Sum(TotalsTable, "tiebreaksPlayed")
  BY <1>3, FiguresBalance DEF ScoreColumns
<1> QED BY <1>1, <1>2, <1>4, <1>5, <1>6

\* RefreshPlayerTotals: once a load has succeeded and no fused row is left, every match won
\* is one lost, and every set, game, tiebreak and decider won by one side was played by both.
THEOREM TotalsAreBalanced == Spec => []TotalsBalance
<1>1. LoadInv /\ SidesAgreeWithTheMatch /\ FreshAfterSuccess => TotalsBalance
  <2> SUFFICES ASSUME LoadInv, SidesAgreeWithTheMatch, FreshAfterSuccess, Settled, Collapsed = {}
               PROVE  TotalsBalance
    BY DEF TotalsBalance
  <2>1. TableType /\ totals = TotalsTable
    BY DEF LoadInv, FreshAfterSuccess
  <2> QED BY <2>1, TableBalances DEF TotalsBalance
<1> QED BY <1>1, LoadInvariant, SidesAgree, FreshAfterALoad, PTL
==============================================================================
