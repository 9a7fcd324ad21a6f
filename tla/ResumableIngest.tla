-------------------------- MODULE ResumableIngest --------------------------
(***************************************************************************)
(* What a resumable ingest promises, with no readers, channel or writer in *)
(* it: rows are upserted a batch at a time, and a file is entered in the   *)
(* ledger only when the database holds every row of the content that was   *)
(* read.  IngestPipeline is shown to implement this module.                *)
(***************************************************************************)
EXTENDS SourceFiles

VARIABLES
    upstream,  \* upstream[f]: the version the mirror serves
    db,        \* db[f][k]: the version of f the row under k was last written from
    ledger     \* ledger[f]: the validator ingest_files holds for f

vars == <<upstream, db, ledger>>

Init ==
    /\ upstream \in [Files -> VersionOrNone]
    /\ db = [f \in Files |-> [k \in Keys |-> 0]]
    /\ ledger = [f \in Files |-> 0]

\* A mirror publishes another version of a file.
Publish(f) ==
    /\ \E v \in Versions :
        /\ v > upstream[f] \/ (MayRevert /\ v # upstream[f])
        /\ upstream' = [upstream EXCEPT ![f] = v]
    /\ UNCHANGED <<db, ledger>>

\* Some rows of one published version are committed, in one transaction.
\* Without reverts they are never from a version older than the one recorded.
Commit(f) ==
    /\ \E v \in Versions :
        /\ MayRevert \/ v \in ledger[f] .. upstream[f]
        /\ \E S \in SUBSET KeysOf(f, v) :
            db' = [db EXCEPT ![f] = [k \in Keys |-> IF k \in S THEN v ELSE @[k]]]
    /\ UNCHANGED <<upstream, ledger>>

\* The file is recorded under validator t once the database holds every row of
\* a version c, which is the one t names or one published after it.
Record(f) ==
    /\ \E t, c \in Versions :
        /\ \A k \in KeysOf(f, c) : db[f][k] = c
        /\ MayRevert \/ (t <= c /\ c <= upstream[f])
        /\ ledger' = [ledger EXCEPT ![f] = t]
    /\ UNCHANGED <<upstream, db>>

Next == \E f \in Files : Publish(f) \/ Commit(f) \/ Record(f)

Spec == Init /\ [][Next]_vars

TypeOK ==
    /\ upstream \in [Files -> VersionOrNone]
    /\ db \in [Files -> [Keys -> VersionOrNone]]
    /\ ledger \in [Files -> VersionOrNone]
=============================================================================
