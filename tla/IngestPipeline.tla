--------------------------- MODULE IngestPipeline ---------------------------
(***************************************************************************)
(* The match ingest of internal/ingest/pipeline.go: a feeder hands the     *)
(* planned files to a pool of readers, the readers stream rows into a      *)
(* bounded channel of chunks, and one writer commits each chunk and enters *)
(* a finished file in the ledger.  The process may be cancelled or killed  *)
(* at any moment and is started again later (the weekly CronJob).          *)
(*                                                                         *)
(* Readers are interchangeable, so none has a name: a busy reader is the   *)
(* file it is reading, a reader that has exited with an error is the file  *)
(* it failed on, and the rest are idle.                                    *)
(***************************************************************************)
EXTENDS SourceFiles, Integers, FiniteSets, Functions

CONSTANTS
    Plan,         \* the files of this deployment's plan(), in order
    Tagged,       \* the files whose mirror names its content (sends an ETag)
    Workers,      \* Options.Workers: readers, and capacity of the chunk channel
    BatchSize,    \* Options.BatchSize: rows per chunk
    OpensAtomically, \* whether validator and body come in one response (HTTPFetcher)
    BodiesBreak,  \* whether an open body may start failing
    MaxFaults     \* bound: faults of every kind in a behaviour

ASSUME PipelineAssumption ==
    /\ Plan \in Seq(Files)
    /\ \A i, j \in 1..Len(Plan) : Plan[i] = Plan[j] => i = j
    /\ Tagged \subseteq Files
    /\ Workers \in Nat \ {0}
    /\ BatchSize \in Nat \ {0}
    /\ OpensAtomically \in BOOLEAN
    /\ BodiesBreak \in BOOLEAN
    /\ MaxFaults \in Nat

VARIABLES
    upstream, db, ledger,  \* what outlives a process, as in ResumableIngest
    phase,      \* "idle" between processes, "running" inside Pipeline.Run
    outcome,    \* how the last run ended
    cancelled,  \* whether ctx is done
    known,      \* the ledger as it was read when the run started
    nextJob,    \* index in Plan of the file the feeder hands out next
    feeding,    \* whether the feeder is still running (jobCh is open)
    stage,      \* stage[f]: how far a reader has come with f
    tag,        \* tag[f]: the validator the fetcher gave for f, 0 for none
    content,    \* content[f]: the version whose body was opened, 0 for none
    pos,        \* pos[f]: rows of f read from the body
    sent,       \* sent[f]: rows of f already put into a chunk
    chunks,     \* chunkCh
    writeErr,   \* whether the writer has met an error
    stats,      \* RunStats
    faults      \* faults so far, bounded by MaxFaults

durable == <<upstream, db, ledger>>
feeder == <<nextJob, feeding>>
reader == <<stage, tag, content, pos, sent>>
writer == <<writeErr, stats>>
run == <<phase, outcome, known>>
vars == <<durable, run, cancelled, feeder, reader, chunks, writer, faults>>

Stages == {"planned", "handed", "found", "missing", "unchanged",
           "reading", "broken", "done", "failed"}
\* The stages in which a reader is occupied with the file.
Busy == {"handed", "found", "missing", "unchanged", "reading", "broken"}
Kinds == {"rows", "end", "missing", "unchanged"}
Outcomes == {"none", "ok", "error", "killed"}
PlannedFiles == {Plan[i] : i \in 1..Len(Plan)}

Chunk == [kind : Kinds, file : Files, from : Nat, to : Nat]
RunStats == [seen : Int, written : Int, rejected : Int, collapsed : Int,
             read : Int, skipped : Int, missing : Int]
NoStats == [seen |-> 0, written |-> 0, rejected |-> 0, collapsed |-> 0,
            read |-> 0, skipped |-> 0, missing |-> 0]

BusyFiles == {f \in Files : stage[f] \in Busy}
FailedFiles == {f \in Files : stage[f] = "failed"}
OpenedFiles == {f \in Files : content[f] # 0}
IdleReaders == Workers - Cardinality(BusyFiles) - Cardinality(FailedFiles)

\* What a process starts with, and what is left of it when it is gone.
Fresh ==
    /\ cancelled' = FALSE
    /\ nextJob' = 1
    /\ feeding' = TRUE
    /\ stage' = [f \in Files |-> "planned"]
    /\ tag' = [f \in Files |-> 0]
    /\ content' = [f \in Files |-> 0]
    /\ pos' = [f \in Files |-> 0]
    /\ sent' = [f \in Files |-> 0]
    /\ chunks' = <<>>
    /\ writeErr' = FALSE
    /\ stats' = NoStats

Init ==
    /\ upstream \in [Files -> VersionOrNone]
    /\ db = [f \in Files |-> [k \in Keys |-> 0]]
    /\ ledger = [f \in Files |-> 0]
    /\ phase = "idle" /\ outcome = "none"
    /\ known = [f \in Files |-> 0]
    /\ cancelled = FALSE
    /\ nextJob = 1 /\ feeding = TRUE
    /\ stage = [f \in Files |-> "planned"]
    /\ tag = [f \in Files |-> 0]
    /\ content = [f \in Files |-> 0]
    /\ pos = [f \in Files |-> 0]
    /\ sent = [f \in Files |-> 0]
    /\ chunks = <<>>
    /\ writeErr = FALSE /\ stats = NoStats
    /\ faults = 0

Fault == faults < MaxFaults /\ faults' = faults + 1
\* Once ctx is done every call that takes it may fail; before that it takes a fault.
CallFails == (cancelled /\ UNCHANGED faults) \/ Fault

-----------------------------------------------------------------------------
(* The world around the process.                                           *)

Publish(f) ==
    /\ OpensAtomically => stage[f] # "found"
    /\ \E v \in Versions :
        /\ v > upstream[f] \/ (MayRevert /\ v # upstream[f])
        /\ upstream' = [upstream EXCEPT ![f] = v]
    /\ UNCHANGED <<db, ledger, run, cancelled, feeder, reader, chunks, writer, faults>>

\* SIGTERM or an interrupt: signal.NotifyContext cancels ctx.
Cancel ==
    /\ phase = "running" /\ ~cancelled
    /\ Fault
    /\ cancelled' = TRUE
    /\ UNCHANGED <<durable, run, feeder, reader, chunks, writer>>

\* The process is killed: everything but the database is gone.
Kill ==
    /\ phase = "running"
    /\ Fault
    /\ phase' = "idle" /\ outcome' = "killed"
    /\ known' = [f \in Files |-> 0]
    /\ Fresh
    /\ UNCHANGED durable

-----------------------------------------------------------------------------
(* The run: start, feeder and end.                                         *)

\* Run reads the ledger once; --force runs as if it were empty.
StartRun ==
    /\ phase = "idle"
    /\ phase' = "running" /\ outcome' = "none"
    /\ known' \in {ledger, [f \in Files |-> 0]}
    /\ Fresh
    /\ UNCHANGED <<durable, faults>>

\* jobCh is unbuffered: a file is handed out when a reader is there to take it.
Feed ==
    /\ phase = "running" /\ feeding
    /\ nextJob <= Len(Plan)
    /\ IdleReaders > 0
    /\ stage' = [stage EXCEPT ![Plan[nextJob]] = "handed"]
    /\ nextJob' = nextJob + 1
    /\ UNCHANGED <<durable, run, cancelled, feeding, tag, content, pos, sent,
                   chunks, writer, faults>>

FeederStops ==
    /\ phase = "running" /\ feeding
    /\ nextJob > Len(Plan) \/ cancelled
    /\ feeding' = FALSE
    /\ UNCHANGED <<durable, run, cancelled, nextJob, reader, chunks, writer, faults>>

\* readers.Wait returns: no reader is busy, and the idle ones have seen jobCh close.
ReadersGone == BusyFiles = {} /\ (~feeding \/ IdleReaders = 0)

\* Mutant: the readers' errors are never collected.
FinishIgnoringReaders ==
    /\ phase = "running"
    /\ ReadersGone /\ chunks = <<>>
    /\ phase' = "idle"
    /\ outcome' = IF writeErr \/ (stats.read = 0 /\ stats.skipped = 0) THEN "error" ELSE "ok"
    /\ known' = [f \in Files |-> 0]
    /\ Fresh
    /\ UNCHANGED <<durable, faults>>

\* The writer's loop over chunkCh ends and Run returns; the process exits.
Finish ==
    /\ phase = "running"
    /\ ReadersGone /\ chunks = <<>>
    /\ phase' = "idle"
    /\ outcome' = IF \/ writeErr
                     \/ FailedFiles # {}
                     \/ stats.read = 0 /\ stats.skipped = 0
                  THEN "error" ELSE "ok"
    /\ known' = [f \in Files |-> 0]
    /\ Fresh
    /\ UNCHANGED <<durable, faults>>

-----------------------------------------------------------------------------
(* A reader: readFile on one file.                                         *)

Handed(f) == phase = "running" /\ stage[f] = "handed"
Reading(f) == phase = "running" /\ stage[f] = "reading"
Rows(f) == Len(Content[f][content[f]])
BatchFull(f) == Cardinality(GoodRows(f, content[f], sent[f], pos[f])) >= BatchSize
\* The reader has a batch to flush: a full one, or what is left at EOF.
BatchReady(f) == BatchFull(f) \/ (pos[f] = Rows(f) /\ pos[f] > sent[f])
\* Mutant: the closing chunk does not wait for the last batch.
FileReadAtEOF(f) == pos[f] = Rows(f)
FileRead(f) == pos[f] = Rows(f) /\ sent[f] = pos[f]
\* Mutant: the channel takes one chunk more than its capacity.
RoomForOneMore == Len(chunks) <= Workers
Room == Len(chunks) < Workers

Send(kind, f, from, to) ==
    /\ Room
    /\ chunks' = Append(chunks, [kind |-> kind, file |-> f, from |-> from, to |-> to])

MoveTo(f, s) == stage' = [stage EXCEPT ![f] = s]

\* Mutant: a file the ledger knows is skipped whatever its validator.
LookSkipsAnyRecorded(f) ==
    /\ Handed(f)
    /\ \/ upstream[f] = 0 /\ MoveTo(f, "missing") /\ UNCHANGED tag
       \/ upstream[f] # 0 /\ known[f] # 0 /\ MoveTo(f, "unchanged") /\ UNCHANGED tag
       \/ /\ upstream[f] # 0 /\ known[f] = 0
          /\ tag' = [tag EXCEPT ![f] = IF f \in Tagged THEN upstream[f] ELSE 0]
          /\ MoveTo(f, "found")
    /\ UNCHANGED <<durable, run, cancelled, feeder, content, pos, sent, chunks, writer, faults>>

\* OpenPathIfChanged looks at the file: absent, as the ledger knows it, or changed.
Look(f) ==
    /\ Handed(f)
    /\ \/ upstream[f] = 0 /\ MoveTo(f, "missing") /\ UNCHANGED tag
       \/ /\ upstream[f] # 0 /\ known[f] = upstream[f]
          /\ MoveTo(f, "unchanged") /\ UNCHANGED tag
       \/ /\ upstream[f] # 0 /\ known[f] # upstream[f]
          /\ tag' = [tag EXCEPT ![f] = IF f \in Tagged THEN upstream[f] ELSE 0]
          /\ MoveTo(f, "found")
    /\ UNCHANGED <<durable, run, cancelled, feeder, content, pos, sent, chunks, writer, faults>>

\* The validator is in hand before the body is opened: LocalFetcher stats, then
\* opens, and the file may change in between.  HTTPFetcher gets both in one
\* response, which is this step with nothing published since Look.
Open(f) ==
    /\ phase = "running" /\ stage[f] = "found"
    /\ content' = [content EXCEPT ![f] = upstream[f]]
    /\ pos' = [pos EXCEPT ![f] = 0]
    /\ sent' = [sent EXCEPT ![f] = 0]
    /\ MoveTo(f, "reading")
    /\ UNCHANGED <<durable, run, cancelled, feeder, tag, chunks, writer, faults>>

\* The request, the open or the header fails: readFile returns the error and
\* the reader that had the file exits.
OpenFails(f) ==
    /\ phase = "running" /\ stage[f] \in {"handed", "found"}
    /\ CallFails
    /\ MoveTo(f, "failed")
    /\ UNCHANGED <<durable, run, cancelled, feeder, tag, content, pos, sent, chunks, writer>>

\* One row, parsed into the batch or counted as rejected.
ReadRow(f) ==
    /\ Reading(f)
    /\ ~BatchFull(f) /\ pos[f] < Rows(f)
    /\ pos' = [pos EXCEPT ![f] = @ + 1]
    /\ UNCHANGED <<durable, run, cancelled, feeder, stage, tag, content, sent,
                   chunks, writer, faults>>

\* The body fails while rows remain to be read, and fails the same way on every
\* later read.
BodyBreaks(f) ==
    /\ BodiesBreak
    /\ Reading(f)
    /\ ~BatchFull(f) /\ pos[f] < Rows(f)
    /\ CallFails
    /\ MoveTo(f, "broken")
    /\ UNCHANGED <<durable, run, cancelled, feeder, tag, content, pos, sent, chunks, writer>>

\* Next returns the error again; readFile counts a rejected row and continues.
\* The batch does not grow, so nothing is flushed and ctx is never looked at.
RetryBrokenBody(f) ==
    /\ phase = "running" /\ stage[f] = "broken"
    /\ UNCHANGED vars

SendBatch(f) ==
    /\ Reading(f) /\ BatchReady(f)
    /\ Send("rows", f, sent[f], pos[f])
    /\ sent' = [sent EXCEPT ![f] = pos[f]]
    /\ UNCHANGED <<durable, run, cancelled, feeder, stage, tag, content, pos, writer, faults>>

\* The chunk with nil rows that closes the file.
SendEnd(f) ==
    /\ Reading(f) /\ FileRead(f)
    /\ Send("end", f, 0, 0)
    /\ MoveTo(f, "done")
    /\ UNCHANGED <<durable, run, cancelled, feeder, tag, content, pos, sent, writer, faults>>

SendMarker(f) ==
    /\ phase = "running" /\ stage[f] \in {"missing", "unchanged"}
    /\ Send(stage[f], f, 0, 0)
    /\ MoveTo(f, "done")
    /\ UNCHANGED <<durable, run, cancelled, feeder, tag, content, pos, sent, writer, faults>>

\* ctx.Done wins the select of a send: a marker is dropped and the reader goes
\* on, a batch or an end is dropped and the reader exits with ctx.Err().
AbandonSend(f) ==
    /\ phase = "running" /\ cancelled
    /\ \/ stage[f] \in {"missing", "unchanged"} /\ MoveTo(f, "done")
       \/ Reading(f) /\ (BatchReady(f) \/ FileRead(f)) /\ MoveTo(f, "failed")
    /\ UNCHANGED <<durable, run, cancelled, feeder, tag, content, pos, sent,
                   chunks, writer, faults>>

Reader(f) ==
    \/ Look(f) \/ Open(f) \/ OpenFails(f)
    \/ ReadRow(f) \/ BodyBreaks(f) \/ RetryBrokenBody(f)
    \/ SendBatch(f) \/ SendEnd(f) \/ SendMarker(f) \/ AbandonSend(f)

-----------------------------------------------------------------------------
(* The single writer, over chunkCh.                                        *)

Receives(kind) == phase = "running" /\ chunks # <<>> /\ Head(chunks).kind = kind

ReceiveMarker ==
    /\ \/ Receives("missing") /\ stats' = [stats EXCEPT !.missing = @ + 1]
       \/ Receives("unchanged") /\ stats' = [stats EXCEPT !.skipped = @ + 1]
    /\ chunks' = Tail(chunks)
    /\ UNCHANGED <<durable, run, cancelled, feeder, reader, writeErr, faults>>

\* Mutant: readFile does not reset `seen` when it flushes.
CountedFromTheTop(c, written, collapsed) ==
    [seen |-> stats.seen + c.to,
     written |-> stats.written + written,
     rejected |-> stats.rejected + (c.to - c.from)
                    - Cardinality(GoodRows(c.file, content[c.file], c.from, c.to)),
     collapsed |-> stats.collapsed + collapsed,
     read |-> stats.read, skipped |-> stats.skipped, missing |-> stats.missing]

\* What the counters become for a rows chunk of which `written` rows are committed
\* as matches and `collapsed` shared a key with another of the batch.
Counted(c, written, collapsed) ==
    [seen |-> stats.seen + (c.to - c.from),
     written |-> stats.written + written,
     rejected |-> stats.rejected + (c.to - c.from)
                    - Cardinality(GoodRows(c.file, content[c.file], c.from, c.to)),
     collapsed |-> stats.collapsed + collapsed,
     read |-> stats.read, skipped |-> stats.skipped, missing |-> stats.missing]

Upserted(c) ==
    [db EXCEPT ![c.file] =
        [k \in Keys |-> IF k \in KeysIn(c.file, content[c.file], c.from, c.to)
                        THEN content[c.file] ELSE @[k]]]

WriteBatch ==
    /\ Receives("rows") /\ ~writeErr
    /\ LET c == Head(chunks)
           good == Cardinality(GoodRows(c.file, content[c.file], c.from, c.to))
           matches == Cardinality(KeysIn(c.file, content[c.file], c.from, c.to))
       IN  /\ db' = Upserted(c)
           /\ stats' = Counted(c, matches, good - matches)
    /\ chunks' = Tail(chunks)
    /\ UNCHANGED <<upstream, ledger, run, cancelled, feeder, reader, writeErr, faults>>

\* The transaction fails, or its commit is not confirmed: the server may have
\* committed it all the same.  An empty batch touches nothing and cannot fail.
WriteFails ==
    /\ Receives("rows") /\ ~writeErr
    /\ LET c == Head(chunks)
       IN  /\ KeysIn(c.file, content[c.file], c.from, c.to) # {}
           /\ db' \in {db, Upserted(c)}
           /\ stats' = Counted(c, 0, 0)
    /\ CallFails
    /\ writeErr' = TRUE
    /\ chunks' = Tail(chunks)
    /\ UNCHANGED <<upstream, ledger, run, cancelled, feeder, reader>>

\* Mutant: the writer stops receiving once a write has failed.
DrainNothing == FALSE

\* After an error the channel is only drained, so that no reader is blocked.
DrainBatch ==
    /\ Receives("rows") /\ writeErr
    /\ stats' = Counted(Head(chunks), 0, 0)
    /\ chunks' = Tail(chunks)
    /\ UNCHANGED <<durable, run, cancelled, feeder, reader, writeErr, faults>>

\* Mutant: a file is recorded although one of its batches was not written.
EndFileDespiteWriteErr ==
    /\ Receives("end")
    /\ LET f == Head(chunks).file
       IN  ledger' = IF tag[f] # 0 THEN [ledger EXCEPT ![f] = tag[f]] ELSE ledger
    /\ stats' = [stats EXCEPT !.read = @ + 1]
    /\ chunks' = Tail(chunks)
    /\ UNCHANGED <<upstream, db, faults, run, cancelled, feeder, reader, writeErr>>

\* Mutant: the validator is asked for when the file closes, not when it is opened.
EndFileAsksAgain ==
    /\ Receives("end")
    /\ LET f == Head(chunks).file
       IN  ledger' = IF ~writeErr /\ tag[f] # 0
                     THEN [ledger EXCEPT ![f] = upstream[f]] ELSE ledger
    /\ stats' = [stats EXCEPT !.read = @ + 1]
    /\ chunks' = Tail(chunks)
    /\ UNCHANGED <<upstream, db, faults, run, cancelled, feeder, reader, writeErr>>

\* The closing chunk: the file is recorded if no write has failed and its
\* validator is known.  A failure to record is logged and forgotten.
EndFile ==
    /\ Receives("end")
    /\ LET f == Head(chunks).file
       IN  \/ /\ ~writeErr /\ tag[f] # 0
              /\ ledger' = [ledger EXCEPT ![f] = tag[f]]
              /\ UNCHANGED faults
           \/ /\ ~writeErr /\ tag[f] # 0
              /\ CallFails
              /\ UNCHANGED ledger
           \/ /\ writeErr \/ tag[f] = 0
              /\ UNCHANGED <<ledger, faults>>
    /\ stats' = [stats EXCEPT !.read = @ + 1]
    /\ chunks' = Tail(chunks)
    /\ UNCHANGED <<upstream, db, run, cancelled, feeder, reader, writeErr>>

Writer == ReceiveMarker \/ WriteBatch \/ WriteFails \/ DrainBatch \/ EndFile

-----------------------------------------------------------------------------
Next ==
    \/ \E f \in Files : Publish(f) \/ Reader(f)
    \/ Cancel \/ Kill
    \/ StartRun \/ Feed \/ FeederStops \/ Finish
    \/ Writer

Spec == Init /\ [][Next]_vars

\* Every goroutine of a running process is scheduled, and a process that has
\* ended is started again (the CronJob, or the operator re-applying the load Job).
Fairness ==
    /\ \A f \in Files : WF_vars(Reader(f))
    /\ WF_vars(Feed \/ FeederStops)
    /\ WF_vars(Writer)
    /\ WF_vars(Finish)
    /\ WF_vars(StartRun)

FairSpec == Spec /\ Fairness
-----------------------------------------------------------------------------
(* Properties.                                                             *)

DurableTypes ==
    /\ upstream \in [Files -> VersionOrNone]
    /\ db \in [Files -> [Keys -> VersionOrNone]]
    /\ ledger \in [Files -> VersionOrNone]

RunTypes ==
    /\ phase \in {"idle", "running"} /\ outcome \in Outcomes
    /\ known \in [Files -> VersionOrNone]
    /\ cancelled \in BOOLEAN
    /\ nextJob \in 1 .. Len(Plan) + 1 /\ feeding \in BOOLEAN
    /\ faults \in 0 .. MaxFaults

ReaderTypes ==
    /\ stage \in [Files -> Stages]
    /\ tag \in [Files -> VersionOrNone]
    /\ content \in [Files -> VersionOrNone]
    /\ pos \in [Files -> Nat] /\ sent \in [Files -> Nat]
    /\ \A f \in Files :
        /\ sent[f] <= pos[f]
        /\ stage[f] = "found" => upstream[f] # 0
        /\ stage[f] = "reading" => content[f] # 0 /\ pos[f] <= Rows(f)

WriterTypes ==
    /\ chunks \in Seq(Chunk) /\ Len(chunks) <= Workers
    /\ writeErr \in BOOLEAN
    /\ stats \in RunStats

\* Every variable has its type, no reader has sent more rows than it read or read
\* more than the file has, and chunkCh holds no more than its capacity
\* (make(chan chunk, workers) in Run).
TypeOK == DurableTypes /\ RunTypes /\ ReaderTypes /\ WriterTypes

\* "Recorded only after every batch of this file committed, so a recorded file is
\* one the database genuinely holds" (Run, RecordFile): every row of some version
\* that the mirror had published when the file was recorded, the one the recorded
\* validator names or a later one, is in the database in that version or a newer.
RecordedFileIsHeld ==
    \A f \in Files : ledger[f] # 0 =>
        \E c \in ledger[f] .. upstream[f] : \A k \in KeysOf(f, c) : db[f][k] >= c

\* What makes skipping a file sound (ErrUnchanged in readFile): while the ledger
\* agrees with the mirror, the database holds exactly the rows the mirror serves.
LedgerIsCurrent ==
    \A f \in Files : ledger[f] # 0 /\ ledger[f] = upstream[f] =>
        \A k \in KeysOf(f, upstream[f]) : db[f][k] = upstream[f]

\* A run that reports success without having been cancelled leaves no planned file
\* behind: each was skipped, was missing, or has every row of the body that was
\* opened in the database (Run returns a nil error).
CleanRunIsComplete ==
    [][phase = "running" /\ outcome' = "ok" /\ ~cancelled =>
        \A f \in PlannedFiles :
            /\ stage[f] = "done"
            /\ content[f] # 0 => \A k \in KeysOf(f, content[f]) : db[f][k] = content[f]]_vars

\* "The counts have to balance, or a reader cannot tell a dropped row from a
\* deduplicated one" (TestRunStatsBalance, RunStats): when a run ends well, even one a
\* signal cut short, every row of every file it opened is counted once, as written,
\* rejected or collapsed.
SummaryBalances ==
    [][phase = "running" /\ outcome' = "ok" =>
        /\ stats.seen = stats.written + stats.rejected + stats.collapsed
        /\ stats.seen = SumFunction([f \in OpenedFiles |-> Rows(f)])]_vars

\* A run that starts ends: Run returns, whatever the mirrors, the database or a
\* signal do ("Must return rather than hang", TestPipelineCancellation).
RunEnds == phase = "running" ~> phase = "idle"

\* It ends whatever fails in it or cancels it, but for a body that breaks: the reader
\* of that one stays in readFile's loop.  The writer drains chunkCh after its error,
\* the feeder and the readers stop at ctx.
BodyBroke == \E f \in Files : stage[f] = "broken"
RunEndsUnlessBodyBreaks == phase = "running" ~> phase = "idle" \/ BodyBroke

\* Runs that are started again and again catch up with the mirror, unless one hangs on
\* a broken body: a file that stops changing is in the end recorded as the mirror serves
\* it, and by LedgerIsCurrent held ("a killed run picks up where it stopped",
\* deployment.md).
CatchesUp ==
    \/ <>[]BodyBroke
    \/ \A f \in PlannedFiles \cap Tagged :
        <>[](upstream[f] # 0 => ledger[f] = upstream[f])

\* Why the pipeline implements a resumable ingest, as an inductive invariant.
\* A file is opened once a run, by the one reader it was handed to.
ReaderInv ==
    /\ \A i \in nextJob .. Len(Plan) : stage[Plan[i]] = "planned"
    /\ \A f \in Files :
        /\ stage[f] \in {"planned", "handed", "found", "missing", "unchanged"} => content[f] = 0
        /\ content[f] # 0 => pos[f] <= Rows(f)

\* A rows chunk is of an opened file; after the chunk that closes a file, which
\* follows all its rows, comes none of that file.
ChannelInv ==
    \A n \in 1..Len(chunks) :
        LET c == chunks[n]
        IN  /\ c.kind = "rows" => content[c.file] # 0 /\ c.to <= sent[c.file]
            /\ c.kind = "end" =>
                /\ content[c.file] # 0
                /\ stage[c.file] = "done" /\ sent[c.file] = Rows(c.file)
                /\ \A m \in n + 1 .. Len(chunks) : chunks[m].file # c.file

Carries(n, f, i) ==
    /\ chunks[n].kind = "rows" /\ chunks[n].file = f
    /\ chunks[n].from < i /\ i <= chunks[n].to

\* Until a write fails, a row a reader has sent is in the channel or the database.
FlowInv ==
    ~writeErr =>
        \A f \in Files : content[f] # 0 =>
            \A i \in GoodRows(f, content[f], 0, sent[f]) :
                \/ db[f][Content[f][content[f]][i]] = content[f]
                \/ \E n \in 1..Len(chunks) : Carries(n, f, i)

\* Mirrors that only move forward: recorded, asked for, opened, served.
OrderInv ==
    MayRevert \/ \A f \in Files :
        /\ ledger[f] <= upstream[f] /\ tag[f] <= upstream[f]
        /\ content[f] # 0 => /\ ledger[f] <= content[f] /\ tag[f] <= content[f]
                             /\ content[f] <= upstream[f]

\* The newest version a run in progress can have written of f.
Newest(f) == IF content[f] = 0 THEN upstream[f] ELSE content[f]

\* RecordedFileIsHeld with a bound that survives the batches of the next run.
HeldInv ==
    MayRevert \/ \A f \in Files :
        /\ \A k \in Keys : db[f][k] <= upstream[f]
        /\ ledger[f] # 0 =>
            \E c \in ledger[f] .. Newest(f) : \A k \in KeysOf(f, c) : db[f][k] >= c

IInv == TypeOK /\ ReaderInv /\ ChannelInv /\ FlowInv /\ OrderInv /\ HeldInv

\* The pipeline with its readers, channel and process deaths does to the database
\* and the ledger only what a resumable ingest may do.
Abstract == INSTANCE ResumableIngest
ImplementsResumableIngest == Abstract!Spec
=============================================================================
