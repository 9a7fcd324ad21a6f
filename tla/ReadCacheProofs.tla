--------------------------- MODULE ReadCacheProofs ---------------------------
(***************************************************************************)
(* Proofs about ReadCache, for any keys, requests and jobs: a stale answer *)
(* always has one of the three known causes.                               *)
(***************************************************************************)
EXTENDS ReadCache, TLAPS

\* What the proofs use of the bounds.
LEMMA CacheConstants ==
    /\ MaxVersion \in Nat /\ MaxVersion >= 1 /\ MaxFaults \in Nat
    /\ 1 \in Versions /\ 0 \in 0 .. MaxVersion
  BY CacheAssumption DEF Versions

\* A fault is counted within its bound.
LEMMA FaultTypes ==
    ASSUME faults \in 0 .. MaxFaults, Fault \/ UNCHANGED faults
    PROVE  faults' \in 0 .. MaxFaults
  BY CacheConstants DEF Fault

\* A request that is not idle has a key, and one that is answered a version.
LEMMA RequestFields ==
    ASSUME TypeOK, NEW r \in Requests
    PROVE  /\ request[r].stage \in {"asked", "answered"} => request[r].key \in Keys
           /\ request[r].stage = "answered" => request[r].version \in Versions
<1>1. request[r] \in RequestStates
  BY DEF TypeOK
<1> QED
  BY <1>1 DEF RequestStates, Idle

\* A miss keeps the types (Cached).
LEMMA MissTypeOK ==
    ASSUME TypeOK, NEW r \in Requests, NEW k \in Keys, Miss(r, k)
    PROVE  TypeOK'
<1> DEFINE asked == [stage |-> "asked", key |-> k]
<1>1. asked \in RequestStates /\ asked.stage # "answered"
  BY DEF RequestStates
<1>2. request' = [request EXCEPT ![r] = asked]
  BY DEF Miss
<1> HIDE DEF asked
<1>3. request' \in [Requests -> RequestStates]
  BY <1>1, <1>2 DEF TypeOK
<1>4. faults' \in 0 .. MaxFaults
  BY FaultTypes DEF Miss, TypeOK
<1>5. \A q \in Requests : request'[q].stage = "answered" =>
          request'[q] = request[q]
  BY <1>1, <1>2 DEF TypeOK
<1> QED
  BY <1>3, <1>4, <1>5 DEF Miss, TypeOK

\* An answer keeps the types: the version is the one the database has.
LEMMA AnswerTypeOK ==
    ASSUME TypeOK, NEW r \in Requests, Answer(r)
    PROVE  TypeOK'
<1> DEFINE k == request[r].key
           answered == [stage |-> "answered", key |-> k, version |-> answer[k]]
<1>1. k \in Keys
  BY RequestFields DEF Answer
<1>2. answer[k] \in Versions
  BY <1>1 DEF TypeOK
<1>3. /\ answered \in RequestStates
      /\ answered.key = k /\ answered.version = answer[k]
  BY <1>1, <1>2 DEF RequestStates
<1>4. request' = [request EXCEPT ![r] = answered]
  BY DEF Answer
<1> HIDE DEF answered
<1>5. request' \in [Requests -> RequestStates]
  BY <1>3, <1>4 DEF TypeOK
<1>6. answer[k] <= answer[k]
  BY <1>2, CacheConstants DEF Versions
<1>7. \A q \in Requests : request'[q].stage = "answered" =>
          request'[q].version <= answer[request'[q].key]
  BY <1>3, <1>4, <1>6 DEF TypeOK
<1> QED
  BY <1>5, <1>7 DEF Answer, TypeOK

\* So does giving up on a response.
LEMMA GiveUpTypeOK ==
    ASSUME TypeOK, NEW r \in Requests, GiveUp(r)
    PROVE  TypeOK'
<1>1. request' \in [Requests -> RequestStates]
  BY DEF GiveUp, TypeOK, RequestStates
<1>2. faults' \in 0 .. MaxFaults
  BY FaultTypes DEF GiveUp, TypeOK
<1>3. \A q \in Requests : request'[q].stage = "answered" => request'[q] = request[q]
  BY DEF GiveUp, TypeOK, Idle
<1> QED
  BY <1>1, <1>2, <1>3 DEF GiveUp, TypeOK

\* Set stores a version the database has or had.
LEMMA StoreTypeOK ==
    ASSUME TypeOK, NEW r \in Requests, Store(r)
    PROVE  TypeOK'
<1> DEFINE k == request[r].key
           v == request[r].version
<1>1. k \in Keys /\ v \in Versions
  BY RequestFields DEF Store
<1>2. v <= answer[k]
  BY DEF Store, TypeOK
<1>3. v \in 0 .. MaxVersion
  BY <1>1, CacheConstants DEF Versions
<1>4. entry' = [entry EXCEPT ![k] = v]
  BY DEF Store
<1>5. late' \subseteq Keys /\ missed' \subseteq Keys
  BY <1>1 DEF Store, TypeOK
<1>6. request' \in [Requests -> RequestStates]
  BY DEF Store, TypeOK, RequestStates
<1>7. \A q \in Requests : request'[q].stage = "answered" => request'[q] = request[q]
  BY DEF Store, TypeOK, Idle
<1>8. answer' = answer /\ job' = job /\ unseen' = unseen /\ faults' = faults
  BY DEF Store
<1> HIDE DEF k, v
<1>9. entry' \in [Keys -> 0 .. MaxVersion]
  BY <1>1, <1>3, <1>4 DEF TypeOK
<1>10. \A q \in Keys : entry'[q] <= answer[q]
  BY <1>1, <1>2, <1>4 DEF TypeOK
<1> QED
  BY <1>5, <1>6, <1>7, <1>8, <1>9, <1>10 DEF TypeOK

\* The end of a TTL keeps the types.
LEMMA ExpireTypeOK ==
    ASSUME TypeOK, NEW k \in Keys, Expire(k)
    PROVE  TypeOK'
<1>1. entry' \in [Keys -> 0 .. MaxVersion]
  BY CacheConstants DEF Expire, TypeOK
<1>2. \A q \in Keys : entry'[q] <= answer[q]
  <2>1. 0 <= answer[k]
    BY CacheConstants DEF TypeOK, Versions
  <2> QED
    BY <2>1 DEF Expire, TypeOK
<1> QED
  BY <1>1, <1>2 DEF Expire, TypeOK

\* A transaction of a job only moves answers forward.
LEMMA CommitTypeOK ==
    ASSUME TypeOK, NEW j \in Jobs, Commit(j)
    PROVE  TypeOK'
<1>1. PICK K \in SUBSET {k \in Keys : answer[k] < MaxVersion} :
          answer' = [k \in Keys |-> IF k \in K THEN answer[k] + 1 ELSE answer[k]]
  BY DEF Commit
<1>2. \A k \in Keys : /\ answer'[k] \in Versions
                      /\ \A n \in 0 .. MaxVersion : n <= answer[k] => n <= answer'[k]
  BY <1>1, CacheConstants DEF TypeOK, Versions
<1>3. answer' \in [Keys -> Versions]
  BY <1>1, <1>2
<1>4. \A k \in Keys : entry[k] <= answer'[k]
  BY <1>2 DEF TypeOK
<1>5. \A r \in Requests : request[r].stage = "answered" =>
          request[r].version <= answer'[request[r].key]
  <2> SUFFICES ASSUME NEW r \in Requests, request[r].stage = "answered"
               PROVE  request[r].version <= answer'[request[r].key]
    OBVIOUS
  <2>1. request[r].key \in Keys /\ request[r].version \in Versions
    BY RequestFields
  <2>2. request[r].version \in 0 .. MaxVersion
    BY <2>1, CacheConstants DEF Versions
  <2>3. request[r].version <= answer[request[r].key]
    BY DEF TypeOK
  <2> QED
    BY <1>2, <2>1, <2>2, <2>3
<1> QED
  BY <1>3, <1>4, <1>5 DEF Commit, TypeOK

\* The other steps of a job keep the types (FlushFromEnv, Flush).
LEMMA JobTypeOK ==
    ASSUME TypeOK, NEW j \in Jobs,
           Start(j) \/ Finish(j) \/ FinishUnflushed(j) \/ Flushed(j)
    PROVE  TypeOK'
<1>1. job' \in [Jobs -> {"idle", "working", "flushing"}]
  BY DEF Start, Finish, FinishUnflushed, Flushed, TypeOK
<1>2. unseen' \in [Jobs -> SUBSET Keys]
  BY DEF Start, Finish, FinishUnflushed, Flushed, TypeOK
<1>3. \A i \in Jobs : job'[i] # "flushing" => unseen'[i] = {}
  BY DEF Start, Finish, FinishUnflushed, Flushed, TypeOK
<1>4. faults' \in 0 .. MaxFaults
  BY FaultTypes DEF Start, Finish, FinishUnflushed, Flushed, TypeOK
<1>5. missed' \subseteq Keys
  BY DEF Start, Finish, FinishUnflushed, Flushed, TypeOK
<1>6. answer' = answer /\ entry' = entry /\ request' = request /\ late' = late
  BY DEF Start, Finish, FinishUnflushed, Flushed
<1> QED
  BY <1>1, <1>2, <1>3, <1>4, <1>5, <1>6 DEF TypeOK

\* UNLINK removes entries.
LEMMA FlushPageTypeOK ==
    ASSUME TypeOK, NEW j \in Jobs, FlushPage(j)
    PROVE  TypeOK'
<1>1. PICK page \in SUBSET unseen[j] :
          /\ entry' = [k \in Keys |-> IF k \in page THEN 0 ELSE entry[k]]
          /\ unseen' = [unseen EXCEPT ![j] = @ \ page]
          /\ late' = late \ page /\ missed' = missed \ page
  BY DEF FlushPage
<1>2. entry' \in [Keys -> 0 .. MaxVersion]
  BY <1>1, CacheConstants DEF TypeOK
<1>3. \A k \in Keys : entry'[k] <= answer[k]
  <2>1. \A k \in Keys : 0 <= answer[k]
    BY CacheConstants DEF TypeOK, Versions
  <2> QED
    BY <1>1, <2>1 DEF TypeOK
<1>4. unseen' \in [Jobs -> SUBSET Keys]
  BY <1>1 DEF TypeOK
<1>5. \A i \in Jobs : job[i] # "flushing" => unseen'[i] = {}
  BY <1>1 DEF FlushPage, TypeOK
<1>6. late' \subseteq Keys /\ missed' \subseteq Keys
  BY <1>1 DEF TypeOK
<1> QED
  BY <1>2, <1>3, <1>4, <1>5, <1>6 DEF FlushPage, TypeOK

\* The next-state relation, one action at a time.
LEMMA NextCases ==
    ASSUME Next
    PROVE  \/ \E k \in Keys : Hit(k) \/ Expire(k)
           \/ \E k \in Keys, r \in Requests : Miss(r, k)
           \/ \E r \in Requests : Answer(r) \/ Store(r) \/ GiveUp(r)
           \/ \E j \in Jobs : Commit(j) \/ FlushPage(j)
           \/ \E j \in Jobs : Start(j) \/ Finish(j) \/ FinishUnflushed(j) \/ Flushed(j)
  BY DEF Next

\* Every variable keeps its type and nothing in the cache or on its way there is
\* ahead of the database (Cached, Flush).
THEOREM TypeCorrect == Spec => []TypeOK
<1>1. Init => TypeOK
  BY CacheConstants DEF Init, TypeOK, RequestStates, Idle, Versions
<1>2. TypeOK /\ [Next]_vars => TypeOK'
  <2> SUFFICES ASSUME TypeOK, [Next]_vars PROVE TypeOK'
    OBVIOUS
  <2>1. CASE UNCHANGED vars
    BY <2>1 DEF vars, TypeOK
  <2>2. ASSUME NEW k \in Keys, Hit(k) PROVE TypeOK'
    BY <2>2 DEF Hit, vars, TypeOK
  <2> QED
    BY <2>1, <2>2, NextCases, ExpireTypeOK, MissTypeOK, AnswerTypeOK, StoreTypeOK,
       GiveUpTypeOK, CommitTypeOK, FlushPageTypeOK, JobTypeOK
<1> QED
  BY <1>1, <1>2, PTL DEF Spec

\* The reasons a stale entry may have.
Explained(k) ==
    \/ \E j \in Jobs : job[j] = "working" \/ k \in unseen[j]
    \/ k \in missed
    \/ k \in late

\* The steps that leave the data, the cache and the jobs alone make nothing stale.
LEMMA QuietStep ==
    ASSUME StalenessIsExplained,
           UNCHANGED <<answer, entry, job, unseen, late, missed>>
    PROVE  StalenessIsExplained'
  BY DEF StalenessIsExplained, Stale

\* Set explains what it makes stale: the response was late.
LEMMA StoreExplained ==
    ASSUME TypeOK, StalenessIsExplained, NEW r \in Requests, Store(r)
    PROVE  StalenessIsExplained'
<1> SUFFICES ASSUME NEW q \in Keys, Stale(q)' PROVE Explained(q)'
  BY DEF StalenessIsExplained, Explained
<1>1. request[r].key \in Keys
  BY RequestFields DEF Store
<1>2. CASE q = request[r].key
  <2>1. entry'[q] = request[r].version
    BY <1>1, <1>2 DEF Store, TypeOK
  <2>2. request[r].version < answer[q]
    BY <2>1 DEF Store, Stale
  <2>3. q \in late'
    BY <1>2, <2>2 DEF Store
  <2> QED
    BY <2>3 DEF Explained
<1>3. CASE q # request[r].key
  <2>1. entry'[q] = entry[q] /\ answer' = answer
    BY <1>3 DEF Store, TypeOK
  <2>2. Explained(q)
    BY <2>1 DEF Stale, StalenessIsExplained, Explained
  <2>3. (q \in late => q \in late') /\ (q \in missed => q \in missed')
    BY <1>3 DEF Store
  <2>4. job' = job /\ unseen' = unseen
    BY DEF Store
  <2> QED
    BY <2>2, <2>3, <2>4 DEF Explained
<1> QED
  BY <1>2, <1>3

\* An expired entry is not stale, and the others are as explained as before.
LEMMA ExpireExplained ==
    ASSUME TypeOK, StalenessIsExplained, NEW k \in Keys, Expire(k)
    PROVE  StalenessIsExplained'
  BY DEF Expire, TypeOK, StalenessIsExplained, Stale

\* What a transaction makes stale is explained by its job, which is at work.
LEMMA CommitExplained ==
    ASSUME NEW j \in Jobs, Commit(j)
    PROVE  StalenessIsExplained'
  BY DEF Commit, StalenessIsExplained

\* A page that is cleared is not stale; what the scan has still to see stays in unseen.
LEMMA FlushPageExplained ==
    ASSUME TypeOK, StalenessIsExplained, NEW j \in Jobs, FlushPage(j)
    PROVE  StalenessIsExplained'
<1>1. PICK page \in SUBSET unseen[j] :
          /\ entry' = [k \in Keys |-> IF k \in page THEN 0 ELSE entry[k]]
          /\ unseen' = [unseen EXCEPT ![j] = @ \ page]
          /\ late' = late \ page /\ missed' = missed \ page
  BY DEF FlushPage
<1> SUFFICES ASSUME NEW q \in Keys, Stale(q)' PROVE Explained(q)'
  BY DEF StalenessIsExplained, Explained
<1>2. q \notin page
  BY <1>1 DEF Stale
<1>3. Stale(q)
  BY <1>1, <1>2 DEF Stale, FlushPage
<1>4. Explained(q)
  BY <1>3 DEF StalenessIsExplained, Explained
<1>5. \A i \in Jobs : q \in unseen[i] => q \in unseen'[i]
  BY <1>1, <1>2 DEF TypeOK
<1> QED
  BY <1>1, <1>2, <1>4, <1>5 DEF Explained, FlushPage

\* A job that goes to flush has every key before it, one that ends without a flush
\* leaves what is stale in missed, and one that has flushed has none left to see.
LEMMA JobExplained ==
    ASSUME TypeOK, StalenessIsExplained, NEW j \in Jobs,
           Start(j) \/ Finish(j) \/ FinishUnflushed(j) \/ Flushed(j)
    PROVE  StalenessIsExplained'
<1>1. answer' = answer /\ entry' = entry
  BY DEF Start, Finish, FinishUnflushed, Flushed
<1> SUFFICES ASSUME NEW q \in Keys, Stale(q)' PROVE Explained(q)'
  BY DEF StalenessIsExplained, Explained
<1>2. Stale(q)
  BY <1>1 DEF Stale
<1>3. Explained(q)
  BY <1>2 DEF StalenessIsExplained, Explained
<1>4. CASE Start(j)
  BY <1>3, <1>4 DEF Start, TypeOK, Explained
<1>5. CASE Finish(j)
  <2>1. unseen'[j] = Keys
    BY <1>5 DEF Finish, TypeOK
  <2> QED
    BY <2>1 DEF Explained
<1>6. CASE FinishUnflushed(j)
  BY <1>2, <1>6 DEF FinishUnflushed, Explained
<1>7. CASE Flushed(j)
  BY <1>3, <1>7 DEF Flushed, TypeOK, Explained
<1> QED
  BY <1>4, <1>5, <1>6, <1>7

\* A stale answer has one of the three known causes, whatever the keys, requests and
\* jobs (Cached beside Flush and FlushFromEnv).
THEOREM StaleAnswersAreExplained == Spec => []StalenessIsExplained
<1>1. Init => StalenessIsExplained
  BY DEF Init, StalenessIsExplained, Stale
<1>2. TypeOK /\ StalenessIsExplained /\ [Next]_vars => StalenessIsExplained'
  <2> SUFFICES ASSUME TypeOK, StalenessIsExplained, [Next]_vars
               PROVE  StalenessIsExplained'
    OBVIOUS
  <2>1. CASE UNCHANGED vars
    BY <2>1, QuietStep DEF vars
  <2>2. ASSUME NEW k \in Keys, Hit(k) PROVE StalenessIsExplained'
    BY <2>2, QuietStep DEF Hit, vars
  <2>3. ASSUME NEW k \in Keys, NEW r \in Requests, Miss(r, k)
        PROVE  StalenessIsExplained'
    BY <2>3, QuietStep DEF Miss
  <2>4. ASSUME NEW r \in Requests, Answer(r) \/ GiveUp(r)
        PROVE  StalenessIsExplained'
    BY <2>4, QuietStep DEF Answer, GiveUp
  <2> QED
    BY <2>1, <2>2, <2>3, <2>4, NextCases, StoreExplained, ExpireExplained,
       CommitExplained, FlushPageExplained, JobExplained
<1> QED
  BY <1>1, <1>2, TypeCorrect, PTL DEF Spec
=============================================================================
