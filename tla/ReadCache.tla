------------------------------ MODULE ReadCache ------------------------------
(***************************************************************************)
(* The read cache between the API and the jobs that change the data:       *)
(* Cached (internal/httpapi/cache.go) looks a response up in Redis, asks   *)
(* the handler when it is not there and stores what the handler said; a    *)
(* job (cmd/ingest, cmd/rate) commits its changes and then clears the      *)
(* cache page by page (Cache.Flush).  The two do not know of each other.   *)
(*                                                                         *)
(* A response is the version of the data it was computed from.            *)
(***************************************************************************)
EXTENDS Naturals, FiniteSets

CONSTANTS
    Keys,        \* cache keys (cacheKey of a request)
    Requests,    \* requests the API may be answering at once
    Jobs,        \* jobs that change the data
    Flushing,    \* those that end in FlushFromEnv: all stages but prune
    MaxVersion,  \* bound: changes to what one key is answered with
    MaxFaults    \* bound: failed Redis calls and failed or killed jobs

ASSUME CacheAssumption ==
    /\ Flushing \subseteq Jobs
    /\ MaxVersion \in Nat \ {0} /\ MaxFaults \in Nat

VARIABLES
    answer,   \* answer[k]: the version the database answers k with
    entry,    \* entry[k]: the version Redis holds for k, 0 for none
    request,  \* request[r]: what request r is doing
    job,      \* job[j]: "idle", "working" or "flushing"
    unseen,   \* unseen[j]: keys the SCAN of j has not come to
    faults,
    late,     \* history: keys whose entry was out of date when it was stored
    missed    \* history: keys changed by a job that ended without clearing the
              \* cache, and not cleared since

vars == <<answer, entry, request, job, unseen, faults, late, missed>>

Versions == 1 .. MaxVersion
Idle == [stage |-> "idle"]

Init ==
    /\ answer = [k \in Keys |-> 1]
    /\ entry = [k \in Keys |-> 0]
    /\ request = [r \in Requests |-> Idle]
    /\ job = [j \in Jobs |-> "idle"]
    /\ unseen = [j \in Jobs |-> {}]
    /\ faults = 0 /\ late = {} /\ missed = {}

Fault == faults < MaxFaults /\ faults' = faults + 1
Stale(k) == entry[k] # 0 /\ entry[k] < answer[k]
-----------------------------------------------------------------------------
(* A request, in Cached.                                                   *)

\* Get finds the entry and the request is answered with it.
Hit(k) ==
    /\ entry[k] # 0
    /\ UNCHANGED vars

\* Get finds nothing, or Redis does not answer in time: the handler is asked.
Miss(r, k) ==
    /\ request[r] = Idle
    /\ \/ entry[k] = 0 /\ UNCHANGED faults
       \/ Fault
    /\ request' = [request EXCEPT ![r] = [stage |-> "asked", key |-> k]]
    /\ UNCHANGED <<answer, entry, job, unseen, late, missed>>

\* The handler has read the database and written a 200.
Answer(r) ==
    /\ request[r].stage = "asked"
    /\ LET k == request[r].key
       IN  request' = [request EXCEPT ![r] =
                            [stage |-> "answered", key |-> k, version |-> answer[k]]]
    /\ UNCHANGED <<answer, entry, job, unseen, faults, late, missed>>

\* A problem document is not stored, nor is anything when Set fails.
GiveUp(r) ==
    /\ request[r] # Idle
    /\ Fault
    /\ request' = [request EXCEPT ![r] = Idle]
    /\ UNCHANGED <<answer, entry, job, unseen, late, missed>>

\* Set, with the TTL, whatever has happened since the handler read.
Store(r) ==
    /\ request[r].stage = "answered"
    /\ LET k == request[r].key
           v == request[r].version
       IN  /\ entry' = [entry EXCEPT ![k] = v]
           /\ late' = IF v < answer[k] THEN late \cup {k} ELSE late \ {k}
           /\ missed' = IF v < answer[k] THEN missed ELSE missed \ {k}
    /\ request' = [request EXCEPT ![r] = Idle]
    /\ UNCHANGED <<answer, job, unseen, faults>>

\* Mutant: entries are stored without a TTL.
NeverExpire(k) == FALSE /\ UNCHANGED vars

\* The TTL of an entry ends.
Expire(k) ==
    /\ entry[k] # 0
    /\ entry' = [entry EXCEPT ![k] = 0]
    /\ late' = late \ {k} /\ missed' = missed \ {k}
    /\ UNCHANGED <<answer, request, job, unseen, faults>>

-----------------------------------------------------------------------------
(* A job: run of cmd/ingest or cmd/rate.                                   *)

Start(j) ==
    /\ job[j] = "idle"
    /\ job' = [job EXCEPT ![j] = "working"]
    /\ UNCHANGED <<answer, entry, request, unseen, faults, late, missed>>

\* A transaction of the job commits, and some answers are different from now on.
Commit(j) ==
    /\ job[j] = "working"
    /\ \E K \in SUBSET {k \in Keys : answer[k] < MaxVersion} :
        /\ K # {}
        /\ answer' = [k \in Keys |-> IF k \in K THEN answer[k] + 1 ELSE answer[k]]
    /\ UNCHANGED <<entry, request, job, unseen, faults, late, missed>>

\* The job has made its last change and begins to clear the cache.
Finish(j) ==
    /\ job[j] = "working"
    /\ j \in Flushing
    /\ job' = [job EXCEPT ![j] = "flushing"]
    /\ unseen' = [unseen EXCEPT ![j] = Keys]
    /\ UNCHANGED <<answer, entry, request, faults, late, missed>>

\* The job ends without clearing it: it is a prune, it fails, it is killed, or
\* Redis fails in the middle of the flush, which is not fatal.
FinishUnflushed(j) ==
    /\ \/ job[j] = "working" /\ j \notin Flushing /\ UNCHANGED faults
       \/ job[j] # "idle" /\ Fault
    /\ job' = [job EXCEPT ![j] = "idle"]
    /\ unseen' = [unseen EXCEPT ![j] = {}]
    /\ missed' = missed \cup {k \in Keys : Stale(k)}
    /\ UNCHANGED <<answer, entry, request, late>>

\* One SCAN and the UNLINK of what it returned.  SCAN comes to every key that is
\* there for as long as it goes on, in pages of its own choosing.
FlushPage(j) ==
    /\ job[j] = "flushing" /\ unseen[j] # {}
    /\ \E page \in SUBSET unseen[j] :
        /\ page # {}
        /\ entry' = [k \in Keys |-> IF k \in page THEN 0 ELSE entry[k]]
        /\ unseen' = [unseen EXCEPT ![j] = @ \ page]
        /\ late' = late \ page
        /\ missed' = missed \ page
    /\ UNCHANGED <<answer, request, job, faults>>

\* Mutant: the first page is taken for the whole.
FlushedAfterOnePage(j) ==
    /\ job[j] = "flushing" /\ unseen[j] # Keys
    /\ job' = [job EXCEPT ![j] = "idle"]
    /\ unseen' = [unseen EXCEPT ![j] = {}]
    /\ UNCHANGED <<answer, entry, request, faults, late, missed>>

\* The cursor is back at zero.
Flushed(j) ==
    /\ job[j] = "flushing" /\ unseen[j] = {}
    /\ job' = [job EXCEPT ![j] = "idle"]
    /\ UNCHANGED <<answer, entry, request, unseen, faults, late, missed>>

-----------------------------------------------------------------------------
Next ==
    \/ \E k \in Keys : Hit(k) \/ Expire(k) \/ \E r \in Requests : Miss(r, k)
    \/ \E r \in Requests : Answer(r) \/ Store(r) \/ GiveUp(r)
    \/ \E j \in Jobs :
        \/ Start(j) \/ Commit(j) \/ Finish(j) \/ FinishUnflushed(j)
        \/ FlushPage(j) \/ Flushed(j)

Spec == Init /\ [][Next]_vars

\* Redis expires what it was told to expire.  Nothing else is assumed: requests
\* and jobs may stop at any point.
FairSpec == Spec /\ \A k \in Keys : WF_vars(Expire(k))
-----------------------------------------------------------------------------
(* Properties.                                                             *)

RequestStates ==
    {Idle} \cup [stage : {"asked"}, key : Keys]
           \cup [stage : {"answered"}, key : Keys, version : Versions]

\* Every variable has its type, only a flushing job scans, and neither an entry nor
\* a response in the making is ahead of the database.
TypeOK ==
    /\ answer \in [Keys -> Versions]
    /\ entry \in [Keys -> 0 .. MaxVersion]
    /\ request \in [Requests -> RequestStates]
    /\ job \in [Jobs -> {"idle", "working", "flushing"}]
    /\ unseen \in [Jobs -> SUBSET Keys]
    /\ faults \in 0 .. MaxFaults
    /\ late \subseteq Keys /\ missed \subseteq Keys
    /\ \A j \in Jobs : job[j] # "flushing" => unseen[j] = {}
    /\ \A k \in Keys : entry[k] <= answer[k]
    /\ \A r \in Requests : request[r].stage = "answered" =>
            request[r].version <= answer[request[r].key]

\* Why an answer can be stale, and the only reasons there are (Flush, FlushFromEnv):
\* a job is still at work or has not come to the entry yet, a job ended without
\* clearing the cache, or a request that had read before a change stored its
\* response after it, and no flush has come by since.
StalenessIsExplained ==
    \A k \in Keys : Stale(k) =>
        \/ \E j \in Jobs : job[j] = "working" \/ k \in unseen[j]
        \/ k \in missed
        \/ k \in late

\* "The ingest clears [the cache] when it finishes; nothing else invalidates it,
\* because nothing else changes the data" (architecture.md): when no job is running
\* the cache answers what the database would.
FreshWhenQuiet ==
    (\A j \in Jobs : job[j] = "idle") => \A k \in Keys : ~Stale(k)

\* The TTL "is what stops a failed flush being permanent" (DefaultTTL): whatever has
\* failed or raced, once the data stops changing the stale answers go for good.
StalenessEnds == <>[](\A k \in Keys : ~Stale(k))
=============================================================================
