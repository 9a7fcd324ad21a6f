------------------------------- MODULE SiteProofs -------------------------------
(* That this week's rows are those of their validator, that a walk keeps its   *)
(* place, and that the ratings are the replay of their matches, whatever the   *)
(* jobs, the loads, the rating runs and the rest of the site do.               *)
EXTENDS Site, SetLemmas, SequenceTheorems

\* every row of every version; the data of the refreshers
AnyRow == UNION {UNION {v.rows : v \in Range(Published[f])} : f \in Range(Files)}
Week == [rows : SUBSET AnyRow, tag : Nat, alone : BOOLEAN]
Places == {"asking", "fetching", "replacing", "deleting", "inserting"}
Refresher == [at : Places, next : Nat, body : Nat, doomed : SUBSET AnyRow, seen : Nat,
              alone : BOOLEAN]

OngoingType ==
    /\ mirror \in [Range(Files) -> Nat]
    /\ week \in [Range(Files) -> Week]
    /\ refresh \in [Jobs -> Refresher \cup {Null}]

\* A file saved with a validator has the rows of the version it names.
Validated(f, file) ==
    file.tag # Nothing =>
        /\ VersionOf(f, file.tag).rows \subseteq file.rows
        /\ file.alone => file.rows = VersionOf(f, file.tag).rows
\* A mirror serves a version there is. The rows of a file are as the property says.
FileInv(f) ==
    /\ mirror[f] \in DOMAIN Published[f]
    /\ \A r, s \in week[f].rows : KeyOf(r) = KeyOf(s) => r = s
    /\ Validated(f, week[f])
\* A job is at one of the files, with a version of that file once it has one; and
\* while nobody else commits, what it deletes is all there is.
JobInv(j) ==
    refresh[j] # Null =>
        /\ refresh[j].next \in DOMAIN Files
        /\ refresh[j].at \in {"replacing", "deleting", "inserting"} =>
              refresh[j].body \in DOMAIN Published[FileOf(j)]
        /\ refresh[j].at \in {"deleting", "inserting"} /\ refresh[j].alone =>
              refresh[j].doomed = week[FileOf(j)].rows
OngoingInv ==
    /\ OngoingType
    /\ \A f \in Range(Files) : FileInv(f)
    /\ \A j \in Jobs : JobInv(j)

\* Facts about the files and their versions.
LEMMA FilesFacts ==
    /\ \A i \in DOMAIN Files : Files[i] \in Range(Files)
    /\ 1 \in DOMAIN Files /\ DOMAIN Files = 1 .. Len(Files) /\ Len(Files) \in Nat
    /\ \A f \in Range(Files) :
          /\ 1 \in DOMAIN Published[f] /\ DOMAIN Published[f] = 1 .. Len(Published[f])
          /\ Len(Published[f]) \in Nat
          /\ \A n \in DOMAIN Published[f] :
                /\ n \in Nat \ {0}
                /\ Published[f][n] \in Range(Published[f])
                /\ Published[f][n].rows \in SUBSET AnyRow
<1>1. \A i \in DOMAIN Files : Files[i] \in Range(Files)
  BY DEF Range
<1>2. /\ 1 \in DOMAIN Files /\ DOMAIN Files = 1 .. Len(Files) /\ Len(Files) \in Nat
  BY OngoingAssumption
<1>3. ASSUME NEW f \in Range(Files)
      PROVE  /\ 1 \in DOMAIN Published[f] /\ DOMAIN Published[f] = 1 .. Len(Published[f])
             /\ Len(Published[f]) \in Nat
  BY OngoingAssumption
<1>4. ASSUME NEW f \in Range(Files), NEW n \in DOMAIN Published[f]
      PROVE  /\ n \in Nat \ {0}
             /\ Published[f][n] \in Range(Published[f])
             /\ Published[f][n].rows \in SUBSET AnyRow
  <2>1. n \in Nat \ {0}
    BY <1>3
  <2>2. Published[f][n] \in Range(Published[f])
    BY DEF Range
  <2>3. Published[f][n].rows \in SUBSET AnyRow
    BY <2>2 DEF AnyRow
  <2> QED BY <2>1, <2>2, <2>3
<1> QED BY <1>1, <1>2, <1>3, <1>4

\* A behaviour starts with a mirror that serves and nothing of the week read.
LEMMA OngoingStarts == Init => OngoingInv
<1> SUFFICES ASSUME Init PROVE OngoingInv
  OBVIOUS
<1> USE DEF Init, OngoingInit, Nothing
<1>1. OngoingType
  <2>1. /\ mirror \in [Range(Files) -> Nat]
        /\ refresh \in [Jobs -> Refresher \cup {Null}]
    OBVIOUS
  <2>2. [rows |-> {}, tag |-> Nothing, alone |-> TRUE] \in Week
    BY DEF Week
  <2> QED BY <2>1, <2>2 DEF OngoingType
<1>2. ASSUME NEW f \in Range(Files) PROVE FileInv(f)
  BY FilesFacts DEF FileInv, Validated
<1>3. ASSUME NEW j \in Jobs PROVE JobInv(j)
  BY DEF JobInv
<1> QED BY <1>1, <1>2, <1>3 DEF OngoingInv

\* A new version of one file: the jobs keep the one they read.
LEMMA PublishKeeps ==
    ASSUME OngoingInv, NEW f \in Range(Files), Publish(f) PROVE OngoingInv'
<1> USE DEF OngoingInv, Publish
<1>1. mirror' \in [Range(Files) -> Nat]
  BY DEF OngoingType
<1>2. OngoingType'
  BY <1>1 DEF OngoingType
<1>3. ASSUME NEW g \in Range(Files) PROVE FileInv(g)'
  <2>1. mirror'[g] \in DOMAIN Published[g]
    BY FilesFacts DEF OngoingType, FileInv
  <2> QED BY <2>1 DEF FileInv, Validated
<1>4. ASSUME NEW j \in Jobs PROVE JobInv(j)'
  BY DEF JobInv, FileOf
<1> QED BY <1>2, <1>3, <1>4

\* A job that starts on a file, the first or the next, holds nothing.
LEMMA StartIsFresh ==
    ASSUME NEW n \in DOMAIN Files
    PROVE  /\ StartsAt(n) \in Refresher
           /\ StartsAt(n).next = n /\ StartsAt(n).at = "asking"
<1>1. n \in Nat
  BY FilesFacts
<1>2. {} \in SUBSET AnyRow
  OBVIOUS
<1>3. StartsAt(n) = [at |-> "asking", next |-> n, body |-> 0, doomed |-> {}, seen |-> 0,
                     alone |-> TRUE]
  BY DEF StartsAt, Nothing
<1>4. StartsAt(n) \in Refresher
  BY <1>1, <1>2, <1>3 DEF Refresher, Places
<1>5. StartsAt(n).next = n /\ StartsAt(n).at = "asking"
  BY <1>3
<1> QED BY <1>4, <1>5
LEMMA AfterIsFresh ==
    ASSUME OngoingInv, NEW j \in Jobs, refresh[j] # Null
    PROVE  After(j) = Null \/ \E n \in DOMAIN Files : After(j) = StartsAt(n)
<1>1. refresh[j].next \in DOMAIN Files
  BY DEF OngoingInv, JobInv
<1>2. CASE refresh[j].next = Len(Files)
  BY <1>2 DEF After
<1>3. CASE refresh[j].next # Len(Files)
  <2>1. refresh[j].next + 1 \in DOMAIN Files
    BY <1>1, <1>3, FilesFacts
  <2> QED BY <1>3, <2>1 DEF After
<1> QED BY <1>2, <1>3

\* A step of one job that writes nothing: the others, and the files, are as they
\* were, so only what the job then holds is in question.
LEMMA OwnStep ==
    ASSUME OngoingInv, NEW j \in Jobs, NEW to \in Refresher \cup {Null},
           refresh' = [refresh EXCEPT ![j] = to], UNCHANGED <<mirror, week>>,
           to # Null =>
              /\ to.next \in DOMAIN Files
              /\ to.at \in {"replacing", "deleting", "inserting"} =>
                    to.body \in DOMAIN Published[Files[to.next]]
              /\ to.at \in {"deleting", "inserting"} /\ to.alone =>
                    to.doomed = week[Files[to.next]].rows
    PROVE  OngoingInv'
<1> USE DEF OngoingInv
<1>1. OngoingType'
  BY DEF OngoingType
<1>2. ASSUME NEW f \in Range(Files) PROVE FileInv(f)'
  BY DEF FileInv, Validated
<1>3. ASSUME NEW k \in Jobs PROVE JobInv(k)'
  <2>1. CASE k = j
    BY <2>1 DEF JobInv, FileOf, OngoingType
  <2>2. CASE k # j
    BY <2>2 DEF JobInv, FileOf, OngoingType
  <2> QED BY <2>1, <2>2
<1> QED BY <1>1, <1>2, <1>3

\* Every step of a job but a commit.
LEMMA JobKeeps ==
    ASSUME OngoingInv, NEW j \in Jobs,
           \/ RefreshStarts(j) \/ ReadTag(j) \/ Fetch(j) \/ FetchFails(j)
           \/ Delete(j) \/ Deleted(j) \/ RollBack(j) \/ RefreshDies(j)
    PROVE  OngoingInv'
<1> DEFINE r == refresh[j]
<1>1. CASE RefreshStarts(j)
  <2>1. refresh' = [refresh EXCEPT ![j] = StartsAt(1)] /\ UNCHANGED <<mirror, week>>
    BY <1>1 DEF RefreshStarts
  <2> QED BY <2>1, FilesFacts, StartIsFresh, OwnStep
<1>2. ASSUME refresh' = [refresh EXCEPT ![j] = After(j)], UNCHANGED <<mirror, week>>, r # Null
      PROVE  OngoingInv'
  <2>1. CASE After(j) = Null
    BY <1>2, <2>1, OwnStep
  <2>2. ASSUME NEW n \in DOMAIN Files, After(j) = StartsAt(n) PROVE OngoingInv'
    BY <1>2, <2>2, StartIsFresh, OwnStep
  <2> QED BY <1>2, <2>1, <2>2, AfterIsFresh
<1>3. ASSUME r # Null
      PROVE  /\ r \in Refresher /\ r.next \in DOMAIN Files
             /\ FileOf(j) \in Range(Files) /\ FileOf(j) = Files[r.next]
             /\ mirror[FileOf(j)] \in DOMAIN Published[FileOf(j)]
             /\ mirror[FileOf(j)] \in Nat
             /\ week[FileOf(j)] \in Week
  <2>1. r \in Refresher /\ r.next \in DOMAIN Files
    BY <1>3 DEF OngoingInv, OngoingType, JobInv
  <2>2. FileOf(j) \in Range(Files) /\ FileOf(j) = Files[r.next]
    BY <2>1, FilesFacts DEF FileOf
  <2> QED BY <2>1, <2>2 DEF OngoingInv, OngoingType, FileInv
<1>4. CASE ReadTag(j)
  <2> DEFINE to == [r EXCEPT !.at = "fetching", !.seen = week[FileOf(j)].tag]
  <2>1. r # Null /\ refresh' = [refresh EXCEPT ![j] = to] /\ UNCHANGED <<mirror, week>>
    BY <1>4 DEF ReadTag, OngoingInv, OngoingType
  <2>2. to \in Refresher /\ to.next = r.next /\ to.at = "fetching"
    BY <1>3, <2>1 DEF Refresher, Week, Places
  <2> HIDE DEF to
  <2> QED BY <1>3, <2>1, <2>2, OwnStep
<1>5. CASE Fetch(j)
  <2> DEFINE to == [r EXCEPT !.at = "replacing", !.body = mirror[FileOf(j)]]
  <2>1. r # Null /\ UNCHANGED <<mirror, week>>
    BY <1>5 DEF Fetch
  <2>2. CASE refresh' = [refresh EXCEPT ![j] = After(j)]
    BY <1>2, <2>1, <2>2
  <2>3. CASE refresh' = [refresh EXCEPT ![j] = to]
    <3>1. /\ to \in Refresher /\ to.next = r.next /\ to.at = "replacing"
          /\ to.body = mirror[FileOf(j)]
      BY <1>3, <2>1 DEF Refresher, Places
    <3> HIDE DEF to
    <3> QED BY <1>3, <2>1, <2>3, <3>1, OwnStep
  <2> QED BY <1>5, <2>2, <2>3 DEF Fetch, OngoingInv, OngoingType
<1>6. CASE FetchFails(j) \/ RollBack(j)
  BY <1>2, <1>6 DEF FetchFails, RollBack
<1>7. CASE Delete(j)
  <2> DEFINE to == [r EXCEPT !.at = "deleting", !.doomed = week[FileOf(j)].rows, !.alone = TRUE]
  <2>1. /\ r # Null /\ r.at = "replacing" /\ UNCHANGED <<mirror, week>>
        /\ refresh' = [refresh EXCEPT ![j] = to]
    BY <1>7 DEF Delete, OngoingInv, OngoingType
  <2>2. /\ to \in Refresher /\ to.next = r.next /\ to.at = "deleting" /\ to.body = r.body
        /\ to.doomed = week[FileOf(j)].rows
    BY <1>3, <2>1 DEF Refresher, Places, Week
  <2>3. r.body \in DOMAIN Published[FileOf(j)]
    BY <2>1 DEF OngoingInv, JobInv
  <2> HIDE DEF to
  <2> QED BY <1>3, <2>1, <2>2, <2>3, OwnStep
<1>8. CASE Deleted(j)
  <2> DEFINE to == [r EXCEPT !.at = "inserting"]
  <2>1. /\ r # Null /\ r.at = "deleting" /\ UNCHANGED <<mirror, week>>
        /\ refresh' = [refresh EXCEPT ![j] = to]
    BY <1>8 DEF Deleted, OngoingInv, OngoingType
  <2>2. /\ to \in Refresher /\ to.next = r.next /\ to.at = "inserting" /\ to.body = r.body
        /\ to.doomed = r.doomed /\ to.alone = r.alone
    BY <1>3, <2>1 DEF Refresher, Places
  <2>3. /\ r.body \in DOMAIN Published[FileOf(j)]
        /\ r.alone => r.doomed = week[FileOf(j)].rows
    BY <2>1 DEF OngoingInv, JobInv
  <2> HIDE DEF to
  <2> QED BY <1>3, <2>1, <2>2, <2>3, OwnStep
<1>9. CASE RefreshDies(j)
  BY <1>9, OwnStep DEF RefreshDies
<1> QED BY <1>1, <1>4, <1>5, <1>6, <1>7, <1>8, <1>9

\* What a commit leaves of the file: the version the job fetched, with what it did
\* not delete beside it; nothing, if nobody else committed meanwhile.
LEMMA CommitReplaces ==
    ASSUME OngoingInv, NEW j \in Jobs, Commit(j)
    PROVE  LET f == FileOf(j)
               new == Replaced(j)
           IN /\ f \in Range(Files) /\ new \in Week
              /\ \A r, s \in new.rows : KeyOf(r) = KeyOf(s) => r = s
              /\ Validated(f, new)
<1> DEFINE f == FileOf(j)
           v == Published[f][refresh[j].body]
           new == Replaced(j)
<1>1. /\ refresh[j] # Null /\ refresh[j].at = "inserting" /\ ~Taken(j)
      /\ refresh[j] \in Refresher /\ refresh[j].next \in DOMAIN Files
      /\ refresh[j].body \in DOMAIN Published[f]
      /\ refresh[j].alone => refresh[j].doomed = week[f].rows
  BY DEF Commit, OngoingInv, OngoingType, JobInv
<1>2. f \in Range(Files) /\ week[f] \in Week
  BY <1>1, FilesFacts DEF FileOf, OngoingInv, OngoingType
<1>3. /\ refresh[j].body \in Nat \ {0} /\ v \in Range(Published[f])
      /\ v.rows \in SUBSET AnyRow
  BY <1>1, <1>2, FilesFacts
<1>4. new = [rows |-> (week[f].rows \ refresh[j].doomed) \cup v.rows,
             tag |-> TagOf(f, refresh[j].body), alone |-> refresh[j].alone]
  BY DEF Replaced, Left, VersionOf
<1>5. /\ new.tag \in Nat
      /\ new.tag # Nothing => VersionOf(f, new.tag).rows = v.rows
  BY <1>3, <1>4 DEF TagOf, VersionOf, Nothing
<1>6. new \in Week
  BY <1>1, <1>2, <1>3, <1>4, <1>5 DEF Week, Refresher
<1>7. ASSUME NEW r \in new.rows, NEW s \in new.rows, KeyOf(r) = KeyOf(s) PROVE r = s
  <2>1. ~v.twice /\ {KeyOf(x) : x \in Left(j)} \cap {KeyOf(x) : x \in v.rows} = {}
    BY <1>1 DEF Taken, VersionOf
  <2>2. \A x, y \in v.rows : KeyOf(x) = KeyOf(y) => x = y
    BY <1>2, <1>3, <2>1, OngoingAssumption
  <2>3. \A x, y \in Left(j) : KeyOf(x) = KeyOf(y) => x = y
    BY <1>2 DEF Left, OngoingInv, FileInv
  <2>4. r \in Left(j) \cup v.rows /\ s \in Left(j) \cup v.rows
    BY <1>4 DEF Left
  <2> QED BY <1>7, <2>1, <2>2, <2>3, <2>4
<1>8. v.rows \subseteq new.rows /\ (new.alone => new.rows = v.rows)
  BY <1>1, <1>4
<1>9. Validated(f, new)
  BY <1>5, <1>8 DEF Validated
<1> QED BY <1>2, <1>6, <1>7, <1>9

\* The commit: the job goes on, and one that was replacing the same file is not
\* alone with it any more.
LEMMA CommitKeeps ==
    ASSUME OngoingInv, NEW j \in Jobs, Commit(j) PROVE OngoingInv'
<1> DEFINE f == FileOf(j)
           new == Replaced(j)
<1>1. /\ f \in Range(Files) /\ new \in Week
      /\ \A r, s \in new.rows : KeyOf(r) = KeyOf(s) => r = s
      /\ Validated(f, new)
  BY CommitReplaces
<1>2. refresh[j] # Null /\ week' = [week EXCEPT ![f] = new] /\ mirror' = mirror
  BY DEF Commit
<1> HIDE DEF new
<1>3. week' \in [Range(Files) -> Week] /\ mirror' \in [Range(Files) -> Nat]
  BY <1>1, <1>2 DEF OngoingInv, OngoingType
<1>4. ASSUME NEW g \in Range(Files) PROVE FileInv(g)'
  <2>1. CASE g = f
    BY <1>1, <1>2, <2>1 DEF OngoingInv, OngoingType, FileInv
  <2>2. CASE g # f
    BY <1>2, <2>2 DEF OngoingInv, OngoingType, FileInv
  <2> QED BY <2>1, <2>2
<1>5. ASSUME NEW k \in Jobs PROVE refresh'[k] \in Refresher \cup {Null} /\ JobInv(k)'
  <2>1. CASE k = j
    <3>1. refresh'[k] = After(j)
      BY <2>1 DEF Commit, Disturbed
    <3>2. CASE After(j) = Null
      BY <3>1, <3>2 DEF JobInv
    <3>3. ASSUME NEW n \in DOMAIN Files, After(j) = StartsAt(n)
          PROVE  refresh'[k] \in Refresher \cup {Null} /\ JobInv(k)'
      BY <3>1, <3>3, StartIsFresh DEF JobInv
    <3> QED BY <1>2, <3>2, <3>3, AfterIsFresh
  <2>2. CASE k # j /\ k \in Disturbed(j)
    <3>1. /\ refresh[k] # Null
          /\ refresh'[k] = [refresh[k] EXCEPT !.doomed = @ \cap Left(j), !.alone = FALSE]
      BY <2>2 DEF Commit, Disturbed
    <3>2. refresh[k] \in Refresher
      BY <3>1 DEF OngoingInv, OngoingType
    <3>3. /\ refresh'[k] \in Refresher /\ refresh'[k].next = refresh[k].next
          /\ refresh'[k].at = refresh[k].at /\ refresh'[k].body = refresh[k].body
          /\ ~refresh'[k].alone
      BY <3>1, <3>2 DEF Refresher
    <3> QED BY <3>1, <3>3 DEF OngoingInv, JobInv, FileOf
  <2>3. CASE k # j /\ k \notin Disturbed(j)
    <3>1. refresh'[k] = refresh[k]
      BY <2>3 DEF Commit
    <3>2. refresh[k] # Null => FileOf(k) # f
      BY <2>3 DEF Disturbed
    <3>3. refresh[k] # Null => week'[FileOf(k)].rows = week[FileOf(k)].rows
      BY <1>2, <3>2 DEF OngoingInv, OngoingType
    <3> QED BY <3>1, <3>3 DEF OngoingInv, OngoingType, JobInv, FileOf
  <2> QED BY <2>1, <2>2, <2>3
<1>6. refresh' \in [Jobs -> Refresher \cup {Null}]
  BY <1>5 DEF Commit
<1> QED BY <1>3, <1>4, <1>5, <1>6 DEF OngoingInv, OngoingType

\* Whatever else the site does leaves the week alone.
THEOREM OngoingStep == OngoingInv /\ [Next]_siteVars => OngoingInv'
<1> SUFFICES ASSUME OngoingInv, [Next]_siteVars PROVE OngoingInv'
  OBVIOUS
<1>1. CASE UNCHANGED ongoingVars
  BY <1>1 DEF ongoingVars, OngoingInv, OngoingType, FileInv, JobInv, FileOf, Validated
<1>2. ASSUME NEW f \in Range(Files), Publish(f) PROVE OngoingInv'
  BY <1>2, PublishKeeps
<1>3. ASSUME NEW j \in Jobs, OngoingJob(j) PROVE OngoingInv'
  <2>1. CASE Commit(j)
    BY <2>1, CommitKeeps
  <2>2. CASE ~Commit(j)
    BY <1>3, <2>2, JobKeeps DEF OngoingJob
  <2> QED BY <2>1, <2>2
<1>4. CASE LoadCommits \/ LoadRefreshes \/ Ask \/ Statement \/ Respond \/ WalkStarts \/ WalkTakes
  BY <1>1, <1>4 DEF LoadCommits, LoadRefreshes, Ask, Statement, Respond, WalkStarts, WalkTakes,
                    ongoingVars
<1>5. CASE UNCHANGED siteVars
  BY <1>1, <1>5 DEF siteVars, ongoingVars
<1> QED BY <1>1, <1>2, <1>3, <1>4, <1>5 DEF Next, ongoingVars

\* Refresh, ongoing.go: whatever jobs overlap, die or fail, and whatever is
\* published meanwhile, each file's rows are those of the version its validator
\* names, if it has one, under keys of their own, with no other beside them unless
\* another job committed while they were being replaced.
THEOREM OngoingIsWhole == Spec => []OngoingIsOfItsValidator
<1>1. OngoingInv => OngoingIsOfItsValidator
  BY DEF OngoingInv, FileInv, Validated, OngoingIsOfItsValidator
<1> QED BY <1>1, OngoingStarts, OngoingStep, PTL DEF Spec

-----------------------------------------------------------------------------
\* Order: SQL's comparison of rows, ORDER BY, LIMIT, and a page past a cursor.
Tuples(n) == [1 .. n -> Int]

\* SQL's comparison of rows of numbers is a total order.
LEMMA PrecedesIsOrder ==
    ASSUME NEW n \in Nat, NEW a \in Tuples(n), NEW b \in Tuples(n), NEW c \in Tuples(n)
    PROVE  /\ ~Precedes(a, a)
           /\ Precedes(a, b) /\ Precedes(b, c) => Precedes(a, c)
           /\ a # b => Precedes(a, b) \/ Precedes(b, a)
<1>1. /\ DOMAIN a = 1 .. n /\ DOMAIN b = 1 .. n /\ DOMAIN c = 1 .. n
      /\ \A i \in 1 .. n : a[i] \in Int /\ b[i] \in Int /\ c[i] \in Int
  BY DEF Tuples
<1>2. ~Precedes(a, a)
  BY <1>1 DEF Precedes
<1>3. ASSUME Precedes(a, b), Precedes(b, c)
      PROVE  Precedes(a, c)
  <2>1. PICK i \in 1 .. n : a[i] < b[i] /\ \A j \in 1 .. i - 1 : a[j] = b[j]
    BY <1>1, <1>3 DEF Precedes
  <2>2. PICK k \in 1 .. n : b[k] < c[k] /\ \A j \in 1 .. k - 1 : b[j] = c[j]
    BY <1>1, <1>3 DEF Precedes
  <2>3. CASE i <= k
    <3>1. a[i] < c[i]
      BY <1>1, <2>1, <2>2, <2>3
    <3>2. \A j \in 1 .. i - 1 : a[j] = c[j]
      BY <2>1, <2>2, <2>3
    <3> QED BY <1>1, <3>1, <3>2 DEF Precedes
  <2>4. CASE k < i
    <3>1. a[k] < c[k]
      BY <1>1, <2>1, <2>2, <2>4
    <3>2. \A j \in 1 .. k - 1 : a[j] = c[j]
      BY <2>1, <2>2, <2>4
    <3> QED BY <1>1, <3>1, <3>2 DEF Precedes
  <2> QED BY <2>3, <2>4
<1>4. ASSUME a # b
      PROVE  Precedes(a, b) \/ Precedes(b, a)
  <2> DEFINE Differ == {i \in 1 .. n : a[i] # b[i]}
  <2>1. Differ # {}
    <3>1. (\A i \in 1 .. n : a[i] = b[i]) => a = b
      BY DEF Tuples
    <3> QED BY <1>4, <3>1
  <2>2. Differ \subseteq Nat
    OBVIOUS
  <2>3. PICK i \in Differ : \A j \in Differ : i <= j
    <3> HIDE DEF Differ
    <3> QED BY <2>1, <2>2, LeastNumber
  <2>4. i \in 1 .. n /\ \A j \in 1 .. i - 1 : a[j] = b[j]
    BY <2>3
  <2>5. a[i] < b[i] \/ b[i] < a[i]
    BY <1>1, <2>3
  <2> QED BY <1>1, <2>4, <2>5 DEF Precedes
<1> QED BY <1>2, <1>3, <1>4

\* ORDER BY: the rows in order, each once, when the key tells any two apart.
LEMMA InOrderFacts ==
    ASSUME NEW S, IsFiniteSet(S), NEW n \in Nat, NEW key \in [S -> Tuples(n)],
           \A x, y \in S : key[x] = key[y] => x = y
    PROVE  /\ Cardinality(S) \in Nat
           /\ InOrder(S, key) \in [1 .. Cardinality(S) -> S]
           /\ \A i, j \in 1 .. Cardinality(S) :
                 i < j => Precedes(key[InOrder(S, key)[i]], key[InOrder(S, key)[j]])
           /\ \A s \in S : \E i \in 1 .. Cardinality(S) : InOrder(S, key)[i] = s
<1> DEFINE N == Cardinality(S)
           Before(r) == {s \in S : Precedes(key[s], key[r])}
           place == [r \in S |-> Cardinality(Before(r))]
           q == InOrder(S, key)
<1>1. N \in Nat
  BY FS_CardinalityType
<1>2. \A x, y, z \in S : /\ ~Precedes(key[x], key[x])
                         /\ Precedes(key[x], key[y]) /\ Precedes(key[y], key[z])
                            => Precedes(key[x], key[z])
                         /\ x # y => Precedes(key[x], key[y]) \/ Precedes(key[y], key[x])
  <2>1. ASSUME NEW x \in S, NEW y \in S, NEW z \in S
        PROVE  /\ ~Precedes(key[x], key[x])
               /\ Precedes(key[x], key[y]) /\ Precedes(key[y], key[z]) => Precedes(key[x], key[z])
               /\ x # y => Precedes(key[x], key[y]) \/ Precedes(key[y], key[x])
    <3>1. key[x] \in Tuples(n) /\ key[y] \in Tuples(n) /\ key[z] \in Tuples(n)
      OBVIOUS
    <3> HIDE DEF Tuples
    <3> QED BY <3>1, PrecedesIsOrder
  <2> QED BY <2>1
<1>3. ASSUME NEW x \in S
      PROVE  /\ IsFiniteSet(Before(x)) /\ place[x] \in 0 .. N - 1 /\ place[x] = Cardinality(Before(x))
  <2>1. Before(x) \in SUBSET (S \ {x})
    BY <1>2
  <2>2. IsFiniteSet(S \ {x}) /\ Cardinality(S \ {x}) = N - 1
    BY FS_RemoveElement
  <2>3. IsFiniteSet(Before(x)) /\ Cardinality(Before(x)) <= N - 1
    <3> HIDE DEF Before
    <3> QED BY <2>1, <2>2, FS_Subset
  <2>4. Cardinality(Before(x)) \in Nat
    BY <2>3, FS_CardinalityType
  <2>5. place[x] = Cardinality(Before(x))
    OBVIOUS
  <2> QED BY <1>1, <2>3, <2>4, <2>5
<1>4. ASSUME NEW x \in S, NEW y \in S, Precedes(key[x], key[y])
      PROVE  place[x] < place[y]
  <2>1. Before(x) \in SUBSET Before(y) /\ x \in Before(y) /\ x \notin Before(x)
    BY <1>2, <1>4
  <2>2. /\ IsFiniteSet(Before(y)) /\ place[x] \in Int /\ place[y] \in Int
        /\ place[x] = Cardinality(Before(x)) /\ place[y] = Cardinality(Before(y))
    <3> HIDE DEF place, Before
    <3> QED BY <1>1, <1>3
  <2> HIDE DEF Before, place
  <2> QED BY <2>1, <2>2, FS_Subset
<1>5. \A x, y \in S : place[x] = place[y] => x = y
  <2>1. \A x \in S : place[x] \in Int
    <3> HIDE DEF place, Before
    <3> QED BY <1>1, <1>3
  <2> HIDE DEF place
  <2> QED BY <1>2, <1>4, <2>1
<1>6. place \in Surjection(S, 0 .. N - 1)
  <2>1. place \in Injection(S, 0 .. N - 1)
    <3>1. place \in [S -> 0 .. N - 1]
      BY <1>3
    <3> HIDE DEF place, Before
    <3> QED BY <1>5, <3>1 DEF Injection, IsInjective
  <2>2. IsFiniteSet(0 .. N - 1) /\ Cardinality(0 .. N - 1) = N
    BY <1>1, FS_Interval
  <2> HIDE DEF place
  <2> QED BY <2>1, <2>2, FS_Injection
<1>7. \A k \in 0 .. N - 1 : \E r \in S : place[r] = k
  <2> HIDE DEF place
  <2> QED BY <1>6 DEF Surjection
<1>8. q = [i \in 1 .. N |-> CHOOSE r \in S : place[r] = i - 1]
  BY DEF InOrder
<1>9. \A i \in 1 .. N : q[i] \in S /\ place[q[i]] = i - 1
  <2>1. ASSUME NEW i \in 1 .. N
        PROVE  q[i] \in S /\ place[q[i]] = i - 1
    <3>1. i - 1 \in 0 .. N - 1
      BY <1>1
    <3>2. q[i] = CHOOSE r \in S : place[r] = i - 1
      BY <1>8
    <3> HIDE DEF place, q
    <3> QED BY <1>7, <3>1, <3>2
  <2> QED BY <2>1
<1>10. q \in [1 .. N -> S]
  <2> HIDE DEF place
  <2> QED BY <1>8, <1>9
<1>11. ASSUME NEW i \in 1 .. N, NEW j \in 1 .. N, i < j
       PROVE  Precedes(key[q[i]], key[q[j]])
  <2>1. /\ q[i] \in S /\ q[j] \in S /\ place[q[i]] = i - 1 /\ place[q[j]] = j - 1
    BY <1>9
  <2> HIDE DEF q, place
  <2>2. ~Precedes(key[q[j]], key[q[i]]) /\ q[i] # q[j]
    BY <1>1, <1>4, <1>11, <2>1
  <2> QED BY <1>2, <2>1, <2>2
<1>12. ASSUME NEW s \in S
       PROVE  \E i \in 1 .. N : q[i] = s
  <2>1. place[s] \in 0 .. N - 1 /\ place[s] + 1 \in 1 .. N
    <3> HIDE DEF place, Before
    <3> QED BY <1>1, <1>3
  <2>2. q[place[s] + 1] \in S /\ place[q[place[s] + 1]] = place[s]
    <3> HIDE DEF q, place
    <3> QED BY <1>1, <1>9, <2>1
  <2> HIDE DEF q, place
  <2> QED BY <1>5, <2>1, <2>2
<1> HIDE DEF q, place
<1> QED BY <1>1, <1>10, <1>11, <1>12 DEF q

\* The keys of a list are pairs.
LEMMA Pairs ==
    /\ \A a, b \in Int : <<a, b>> \in Tuples(2)
    /\ \A t \in Tuples(2) : t \in Int \X Int
<1>1. ASSUME NEW a \in Int, NEW b \in Int
      PROVE  <<a, b>> \in Tuples(2)
  BY DEF Tuples
<1>2. ASSUME NEW t \in Tuples(2)
      PROVE  t \in Int \X Int
  <2>1. t[1] \in Int /\ t[2] \in Int /\ t = <<t[1], t[2]>>
    BY DEF Tuples
  <2> QED BY <2>1
<1> QED BY <1>1, <1>2

\* LIMIT: the first of the rows, as many as there may be.
LEMMA LimitedFacts ==
    ASSUME NEW X, NEW seq \in Seq(X), NEW limit \in Nat
    PROVE  /\ Limited(seq, limit) \in Seq(X)
           /\ Len(Limited(seq, limit)) <= Len(seq) /\ Len(Limited(seq, limit)) <= limit
           /\ Len(Limited(seq, limit)) = Len(seq) \/ Len(Limited(seq, limit)) = limit
           /\ \A i \in 1 .. Len(Limited(seq, limit)) : Limited(seq, limit)[i] = seq[i]
<1> DEFINE n == IF limit <= Len(seq) THEN limit ELSE Len(seq)
<1>1. \A a, b \in Nat : Min({a, b}) = IF a <= b THEN a ELSE b
  BY DEF Min
<1>2. Len(seq) \in Nat
  OBVIOUS
<1>3. Limited(seq, limit) = SubSeq(seq, 1, n) /\ n \in Nat /\ n <= Len(seq) /\ n <= limit
      /\ (n = Len(seq) \/ n = limit)
  BY <1>1, <1>2 DEF Limited
<1> HIDE DEF n
<1>4. /\ SubSeq(seq, 1, n) \in Seq(X) /\ Len(SubSeq(seq, 1, n)) = n
      /\ \A i \in 1 .. n : SubSeq(seq, 1, n)[i] = seq[i]
  BY <1>2, <1>3
<1> QED BY <1>3, <1>4

\* A page past a cursor, of a list whose keys are full: in order, of the keys past the
\* cursor, and of those all up to its last, or all of them if it is not full.
PageIs(full, after, limit, rows) ==
    \E n \in Nat :
        /\ rows \in [1 .. n -> Range(rows)] /\ n <= limit
        /\ \A i \in 1 .. n : /\ rows[i].key \in full
                             /\ after # Null => Precedes(after, rows[i].key)
        /\ \A i, j \in 1 .. n : i < j => Precedes(rows[i].key, rows[j].key)
        /\ \A k \in full : (after # Null => Precedes(after, k)) =>
              \/ \E i \in 1 .. n : rows[i].key = k
              \/ n = limit /\ Precedes(rows[n].key, k)

\* What is cut from the rows past a cursor, in order, is a page of the list.
LEMMA PageFacts ==
    ASSUME NEW S, IsFiniteSet(S), NEW key \in [S -> Tuples(2)],
           \A x, y \in S : key[x] = key[y] => x = y,
           NEW after, NEW limit \in Nat \ {0}, NEW rows, NEW n \in Nat, rows \in [1 .. n -> Range(rows)],
           LET past == Past(S, key, after)
           IN  /\ n <= Cardinality(past) /\ n <= limit /\ (n = Cardinality(past) \/ n = limit)
               /\ \A i \in 1 .. n : rows[i].key = key[PageInOrder(S, key, after)[i]]
    PROVE  PageIs(Range(key), after, limit, rows)
<1> DEFINE past == Past(S, key, after)
           keyOf == [r \in past |-> key[r]]
           N == Cardinality(past)
           q == PageInOrder(S, key, after)
<1>1. past \subseteq S /\ IsFiniteSet(past)
  BY FS_Subset DEF Past
<1>2. /\ keyOf \in [past -> Tuples(2)] /\ \A r \in past : keyOf[r] = key[r]
      /\ \A x, y \in past : keyOf[x] = keyOf[y] => x = y
  BY <1>1
<1>3. q = InOrder(past, keyOf)
  BY DEF PageInOrder
<1>4. /\ N \in Nat /\ q \in [1 .. N -> past]
      /\ \A i, j \in 1 .. N : i < j => Precedes(keyOf[q[i]], keyOf[q[j]])
      /\ \A s \in past : \E i \in 1 .. N : q[i] = s
  <2> HIDE DEF keyOf, past, q
  <2> QED BY <1>1, <1>2, <1>3, InOrderFacts
<1>5. /\ n <= N /\ (n = N \/ n = limit)
      /\ \A i \in 1 .. n : i \in 1 .. N /\ rows[i].key = key[q[i]] /\ q[i] \in past
  BY <1>4
<1> HIDE DEF keyOf, N, q, past
<1>6. \A i, j \in 1 .. n : i < j => Precedes(rows[i].key, rows[j].key)
  BY <1>2, <1>4, <1>5
<1>7. \A i \in 1 .. n : rows[i].key \in Range(key) /\ (after # Null => Precedes(after, rows[i].key))
  BY <1>1, <1>5 DEF past, Past, Range
<1>8. ASSUME NEW k \in Range(key), after # Null => Precedes(after, k)
      PROVE  \/ \E i \in 1 .. n : rows[i].key = k
             \/ n = limit /\ Precedes(rows[n].key, k)
  <2>1. PICK s \in past : key[s] = k
    BY <1>8 DEF past, Past, Range
  <2>2. PICK i \in 1 .. N : q[i] = s
    BY <1>4
  <2>3. CASE i <= n
    BY <1>5, <2>1, <2>2, <2>3
  <2>4. CASE n < i
    <3>1. n = limit /\ n \in 1 .. N /\ n \in 1 .. n
      BY <1>4, <1>5, <2>4
    <3>2. Precedes(keyOf[q[n]], keyOf[q[i]])
      BY <1>4, <2>4, <3>1
    <3>3. keyOf[q[n]] = rows[n].key /\ keyOf[q[i]] = k
      BY <1>2, <1>5, <2>1, <2>2, <3>1
    <3> QED BY <3>1, <3>2, <3>3
  <2> QED BY <1>4, <2>3, <2>4
<1> QED BY <1>6, <1>7, <1>8 DEF PageIs

-----------------------------------------------------------------------------
\* The ratings a run commits.
SeriesKeys == Players \X Series
State == [elo : Int, matches : Nat]
Snapshot == [player : Players, series : Series, asOf : Int, elo : Int, matches : Nat]
Keyed(rows) == \A r, s \in rows :
    r.player = s.player /\ r.series = s.series /\ r.asOf = s.asOf => r = s
TableInv(table) == IsFiniteSet(table) /\ table \subseteq Snapshot /\ Keyed(table)

\* The engine: what it has of a series is a rating; what it has emitted are rows of
\* weeks before the one it is in, one of a series a week.
Emitted(w) == w.copied \cup Range(w.buf)
Engine == [series : UNION {[D -> State] : D \in SUBSET SeriesKeys}, touched : SUBSET SeriesKeys,
           week : Int, out : [buf : Seq(Snapshot), copied : SUBSET Snapshot]]
EngineInv(e) ==
    /\ e \in Engine /\ e.touched \subseteq DOMAIN e.series
    /\ TableInv(Emitted(e.out))
    /\ \A r \in Emitted(e.out) : r.asOf < e.week

\* There are five series, and their names have an order.
LEMMA SeriesFacts ==
    /\ Series = {Overall, "hard", "clay", "grass", "carpet"}
    /\ Surfaces \subseteq Series
    /\ \A s \in Series : SeriesByName[s] \in Int
    /\ \A s, t \in Series : SeriesByName[s] = SeriesByName[t] => s = t
<1>1. Series = {Overall, "hard", "clay", "grass", "carpet"}
  BY DEF Series, SeriesOrder, Range
<1>2. /\ SeriesByName["carpet"] = 1 /\ SeriesByName["clay"] = 2 /\ SeriesByName["grass"] = 3
      /\ SeriesByName["hard"] = 4 /\ SeriesByName["overall"] = 5
  BY DEF SeriesByName
<1> QED BY <1>1, <1>2 DEF Surfaces, Overall

\* There are finitely many series of players.
LEMMA SeriesKeysFinite == IsFiniteSet(SeriesKeys)
<1>1. IsFiniteSet(Series)
  <2>1. IsFiniteSet({}) /\ \A S, x : IsFiniteSet(S) => IsFiniteSet(S \cup {x})
    BY FS_EmptySet, FS_AddElement
  <2>2. Series = {} \cup {Overall} \cup {"hard"} \cup {"clay"} \cup {"grass"} \cup {"carpet"}
    BY SeriesFacts
  <2> QED BY <2>1, <2>2
<1> QED BY <1>1, SiteAssumption, FS_Product DEF SeriesKeys

\* What a sequence holds, it holds somewhere.
LEMMA SeqElements ==
    ASSUME NEW X
    PROVE  \A s \in Seq(X) : \A r : r \in Range(s) <=> \E i \in 1 .. Len(s) : s[i] = r
<1> TAKE s \in Seq(X)
<1> TAKE r
<1>1. DOMAIN s = 1 .. Len(s)
  BY LenProperties
<1>2. r \in Range(s) <=> \E i \in DOMAIN s : r = s[i]
  BY DEF Range
<1> QED BY <1>1, <1>2

\* COPY: what was emitted is copied or waits.
LEMMA EmitFacts ==
    ASSUME NEW w \in [buf : Seq(Snapshot), copied : SUBSET Snapshot], NEW rows \in Seq(Snapshot)
    PROVE  /\ Emit(w, rows) \in [buf : Seq(Snapshot), copied : SUBSET Snapshot]
           /\ \A r : r \in Emitted(Emit(w, rows)) <=> r \in Emitted(w) \/ r \in Range(rows)
<1> DEFINE all == w.buf \o rows
           len == Len(all)
           full == len - (len % Batch)
<1>1. /\ all \in Seq(Snapshot) /\ len \in Nat /\ len = Len(w.buf) + Len(rows)
      /\ \A i \in 1 .. Len(w.buf) : all[i] = w.buf[i]
      /\ \A i \in 1 .. Len(rows) : all[Len(w.buf) + i] = rows[i]
  OBVIOUS
<1>2. full \in Nat /\ full <= len
  <2>1. \A a \in Nat, b \in Nat \ {0} : a % b \in Nat /\ a % b <= a
    <3> TAKE a \in Nat, b \in Nat \ {0}
    <3>1. a = b * (a \div b) + (a % b) /\ a \div b \in Nat /\ a % b \in Nat
      OBVIOUS
    <3>2. b * (a \div b) >= 0
      BY <3>1
    <3> QED BY <3>1, <3>2
  <2>2. len % Batch \in Nat /\ len % Batch <= len
    <3> HIDE DEF len
    <3> QED BY <1>1, <2>1, RatingAssumption
  <2> HIDE DEF len
  <2> QED BY <1>1, <2>2
<1>3. /\ Emit(w, rows).buf = SubSeq(all, full + 1, len)
      /\ Emit(w, rows).copied = w.copied \cup Range(SubSeq(all, 1, full))
      /\ Emit(w, rows) = [buf |-> Emit(w, rows).buf, copied |-> Emit(w, rows).copied]
  BY DEF Emit
<1> HIDE DEF all, len, full
<1>4. /\ SubSeq(all, full + 1, len) \in Seq(Snapshot) /\ SubSeq(all, 1, full) \in Seq(Snapshot)
      /\ Len(SubSeq(all, full + 1, len)) = len - full /\ Len(SubSeq(all, 1, full)) = full
      /\ \A i \in 1 .. full : SubSeq(all, 1, full)[i] = all[i]
      /\ \A i \in 1 .. len - full : SubSeq(all, full + 1, len)[i] = all[full + i]
  BY <1>1, <1>2 DEF len
<1> DEFINE first == SubSeq(all, 1, full)
           rest == SubSeq(all, full + 1, len)
<1> HIDE DEF first, rest
<1>5. ASSUME NEW r
      PROVE  r \in Range(all) <=> r \in Range(w.buf) \/ r \in Range(rows)
  <2>1. /\ r \in Range(all) <=> \E i \in 1 .. len : all[i] = r
        /\ r \in Range(w.buf) <=> \E i \in 1 .. Len(w.buf) : w.buf[i] = r
        /\ r \in Range(rows) <=> \E i \in 1 .. Len(rows) : rows[i] = r
    <3>1. w.buf \in Seq(Snapshot)
      OBVIOUS
    <3>2. r \in Range(all) <=> \E i \in 1 .. Len(all) : all[i] = r
      BY <1>1, SeqElements
    <3>3. r \in Range(w.buf) <=> \E i \in 1 .. Len(w.buf) : w.buf[i] = r
      BY <3>1, SeqElements
    <3>4. r \in Range(rows) <=> \E i \in 1 .. Len(rows) : rows[i] = r
      BY SeqElements
    <3> QED BY <3>2, <3>3, <3>4 DEF len
  <2>2. ASSUME NEW i \in 1 .. len, all[i] = r
        PROVE  (\E j \in 1 .. Len(w.buf) : w.buf[j] = r) \/ (\E j \in 1 .. Len(rows) : rows[j] = r)
    <3>1. CASE i <= Len(w.buf)
      BY <1>1, <2>2, <3>1
    <3>2. CASE i > Len(w.buf)
      <4>1. i - Len(w.buf) \in 1 .. Len(rows) /\ i = Len(w.buf) + (i - Len(w.buf))
        BY <1>1, <3>2
      <4> QED BY <1>1, <2>2, <4>1
    <3> QED BY <1>1, <3>1, <3>2
  <2>3. /\ \A i \in 1 .. Len(w.buf) : i \in 1 .. len
        /\ \A i \in 1 .. Len(rows) : Len(w.buf) + i \in 1 .. len
    BY <1>1
  <2> QED BY <1>1, <2>1, <2>2, <2>3
<1>6. ASSUME NEW r
      PROVE  r \in Range(all) <=> r \in Range(first) \/ r \in Range(rest)
  <2>1. /\ r \in Range(all) <=> \E i \in 1 .. len : all[i] = r
        /\ r \in Range(first) <=> \E i \in 1 .. full : first[i] = r
        /\ r \in Range(rest) <=> \E i \in 1 .. len - full : rest[i] = r
    <3>1. /\ first \in Seq(Snapshot) /\ Len(first) = full
          /\ rest \in Seq(Snapshot) /\ Len(rest) = len - full
      BY <1>4 DEF first, rest
    <3>2. r \in Range(all) <=> \E i \in 1 .. Len(all) : all[i] = r
      BY <1>1, SeqElements
    <3>3. r \in Range(first) <=> \E i \in 1 .. Len(first) : first[i] = r
      BY <3>1, SeqElements
    <3>4. r \in Range(rest) <=> \E i \in 1 .. Len(rest) : rest[i] = r
      BY <3>1, SeqElements
    <3> QED BY <3>1, <3>2, <3>3, <3>4 DEF len
  <2>2. /\ \A i \in 1 .. full : first[i] = all[i] /\ i \in 1 .. len
        /\ \A i \in 1 .. len - full : rest[i] = all[full + i] /\ full + i \in 1 .. len
    BY <1>1, <1>2, <1>4 DEF first, rest
  <2>3. \A i \in 1 .. len : i \in 1 .. full \/ (i - full \in 1 .. len - full /\ i = full + (i - full))
    BY <1>1, <1>2
  <2> QED BY <2>1, <2>2, <2>3
<1>7. Range(first) \subseteq Snapshot
  BY <1>4 DEF Range, first
<1> QED BY <1>3, <1>4, <1>5, <1>6, <1>7 DEF Emitted, first, rest

\* A sequence holds finitely many things.
LEMMA SeqFinite ==
    ASSUME NEW X, NEW s \in Seq(X)
    PROVE  IsFiniteSet(Range(s)) /\ Range(s) \subseteq X
<1>1. Len(s) \in Nat /\ DOMAIN s = 1 .. Len(s) /\ \A i \in 1 .. Len(s) : s[i] \in X
  BY LenProperties
<1>2. s \in Surjection(1 .. Len(s), Range(s))
  <2>1. s = [i \in 1 .. Len(s) |-> s[i]] /\ \A i \in 1 .. Len(s) : s[i] \in Range(s)
    BY <1>1 DEF Range
  <2>2. \A r \in Range(s) : \E i \in 1 .. Len(s) : s[i] = r
    BY <1>1 DEF Range
  <2> QED BY <2>1, <2>2 DEF Surjection
<1>3. IsFiniteSet(1 .. Len(s))
  BY <1>1, FS_Interval
<1> QED BY <1>1, <1>2, <1>3, FS_Surjection DEF Range

\* A week closes with a row of each series that moved in it.
LEMMA SnapshotsFacts ==
    ASSUME NEW e, EngineInv(e), NEW d \in Int
    PROVE  /\ Snapshots(e, d) \in Seq(Snapshot)
           /\ \A r \in Range(Snapshots(e, d)) : r.asOf = d
           /\ Keyed(Range(Snapshots(e, d)))
           /\ \A r : r \in Range(Snapshots(e, d)) <=> \E k \in e.touched :
                 r = [player |-> k[1], series |-> k[2], asOf |-> d,
                      elo |-> e.series[k].elo, matches |-> e.series[k].matches]
<1> DEFINE key == [k \in e.touched |-> <<k[1], SeriesByName[k[2]]>>]
           keys == InOrder(e.touched, key)
           N == Cardinality(e.touched)
           Row(k) == [player |-> k[1], series |-> k[2], asOf |-> d,
                      elo |-> e.series[k].elo, matches |-> e.series[k].matches]
           rows == Snapshots(e, d)
<1>1. e.touched \in SUBSET SeriesKeys /\ IsFiniteSet(e.touched)
  BY SeriesKeysFinite, FS_Subset DEF EngineInv, Engine
<1>2. \A k \in e.touched : k \in SeriesKeys /\ k[1] \in Players /\ k[2] \in Series /\ k = <<k[1], k[2]>>
  BY <1>1 DEF SeriesKeys
<1>3. \A k \in e.touched : k[1] \in Int /\ SeriesByName[k[2]] \in Int
  BY <1>2, SeriesFacts, SiteDataAssumption
<1>4. key \in [e.touched -> Tuples(2)]
  BY <1>3, Pairs
<1>5. ASSUME NEW x \in e.touched, NEW y \in e.touched, key[x] = key[y]
      PROVE  x = y
  <2>1. x[1] = y[1] /\ SeriesByName[x[2]] = SeriesByName[y[2]]
    BY <1>5
  <2> QED BY <1>2, <2>1, SeriesFacts
<1>6. N \in Nat /\ keys \in [1 .. N -> e.touched] /\ \A k \in e.touched : \E i \in 1 .. N : keys[i] = k
  <2> HIDE DEF key
  <2> QED BY <1>1, <1>4, <1>5, InOrderFacts
<1>7. rows = [i \in 1 .. N |-> Row(keys[i])]
  BY <1>6 DEF Snapshots
<1>8. \A k \in e.touched : Row(k) \in Snapshot
  <2> SUFFICES ASSUME NEW k \in e.touched PROVE Row(k) \in Snapshot
    OBVIOUS
  <2>1. e.series[k] \in State
    <3>1. PICK D \in SUBSET SeriesKeys : e.series \in [D -> State]
      BY DEF EngineInv, Engine
    <3> QED BY <3>1 DEF EngineInv
  <2> QED BY <1>2, <2>1 DEF State, Snapshot
<1> HIDE DEF keys, N, rows, key
<1>9. rows \in Seq(Snapshot)
  <2>1. \A i \in 1 .. N : Row(keys[i]) \in Snapshot
    BY <1>6, <1>8
  <2> HIDE DEF Row
  <2> QED BY <1>6, <1>7, <2>1
<1>10. \A r \in Range(rows) : \E k \in e.touched : r = Row(k)
  <2>1. \A r \in Range(rows) : \E i \in 1 .. N : r = Row(keys[i])
    BY <1>7 DEF Range
  <2> QED BY <1>6, <2>1
<1>11. \A r \in Range(rows) : r.asOf = d
  BY <1>10
<1>12. Keyed(Range(rows))
  <2> SUFFICES ASSUME NEW r \in Range(rows), NEW s \in Range(rows), r.player = s.player, r.series = s.series
               PROVE  r = s
    BY DEF Keyed
  <2>1. PICK k \in e.touched : r = Row(k)
    BY <1>10
  <2>2. PICK j \in e.touched : s = Row(j)
    BY <1>10
  <2>3. k = j
    BY <1>2, <2>1, <2>2
  <2> QED BY <2>1, <2>2, <2>3
<1>13. \A k \in e.touched : Row(k) \in Range(rows)
  <2>1. \A i \in 1 .. N : rows[i] = Row(keys[i]) /\ i \in DOMAIN rows
    BY <1>7
  <2> HIDE DEF Row
  <2>2. ASSUME NEW k \in e.touched PROVE Row(k) \in Range(rows)
    <3>1. PICK i \in 1 .. N : keys[i] = k
      BY <1>6
    <3> QED BY <2>1, <3>1 DEF Range
  <2> QED BY <2>2
<1>14. \A r : r \in Range(rows) <=> \E k \in e.touched : r = Row(k)
  <2> HIDE DEF Row
  <2> QED BY <1>10, <1>13
<1> QED BY <1>9, <1>11, <1>12, <1>14 DEF rows

\* Closing a week leaves a table of rows dated to it or before, and a new week to fill.
LEMMA FlushFacts ==
    ASSUME NEW e, EngineInv(e), NEW w \in Int
    PROVE  /\ Flush(e, w) \in Engine
           /\ Flush(e, w).series = e.series /\ Flush(e, w).touched = {} /\ Flush(e, w).week = w
           /\ TableInv(Emitted(Flush(e, w).out))
           /\ \A r \in Emitted(Flush(e, w).out) : r.asOf <= e.week
<1> DEFINE rows == Snapshots(e, e.week)
           out == Emit(e.out, rows)
<1>1. /\ e \in Engine /\ e.week \in Int /\ e.out \in [buf : Seq(Snapshot), copied : SUBSET Snapshot]
      /\ \A r \in Emitted(e.out) : r.asOf < e.week /\ r \in Snapshot
      /\ IsFiniteSet(Emitted(e.out)) /\ Keyed(Emitted(e.out))
  BY DEF EngineInv, Engine, TableInv
<1>2. /\ rows \in Seq(Snapshot) /\ (\A r \in Range(rows) : r.asOf = e.week) /\ Keyed(Range(rows))
  BY <1>1, SnapshotsFacts
<1>3. IsFiniteSet(Range(rows)) /\ Range(rows) \subseteq Snapshot
  BY <1>2, SeqFinite
<1>4. Flush(e, w) = [e EXCEPT !.touched = {}, !.week = w, !.out = out]
  BY DEF Flush
<1> HIDE DEF rows, out
<1>5. /\ out \in [buf : Seq(Snapshot), copied : SUBSET Snapshot]
      /\ \A r : r \in Emitted(out) <=> r \in Emitted(e.out) \/ r \in Range(rows)
  BY <1>1, <1>2, EmitFacts DEF out
<1>6. /\ Flush(e, w).series = e.series /\ Flush(e, w).touched = {} /\ Flush(e, w).week = w
      /\ Flush(e, w).out = out /\ Flush(e, w) \in Engine
  BY <1>1, <1>4, <1>5 DEF Engine
<1>7. IsFiniteSet(Emitted(out))
  <2>1. Emitted(out) = Emitted(e.out) \cup Range(rows)
    BY <1>5
  <2> QED BY <1>1, <1>3, <2>1, FS_Union
<1>8. Keyed(Emitted(out))
  <2> SUFFICES ASSUME NEW r \in Emitted(out), NEW s \in Emitted(out),
                      r.player = s.player, r.series = s.series, r.asOf = s.asOf
               PROVE  r = s
    BY DEF Keyed
  <2>1. CASE r \in Emitted(e.out) /\ s \in Emitted(e.out)
    BY <1>1, <2>1 DEF Keyed
  <2>2. CASE r \in Range(rows) /\ s \in Range(rows)
    BY <1>2, <2>2 DEF Keyed
  <2>3. CASE (r \in Emitted(e.out) /\ s \in Range(rows)) \/ (s \in Emitted(e.out) /\ r \in Range(rows))
    <3>1. r.asOf \in Int /\ s.asOf \in Int /\ (r.asOf < e.week \/ s.asOf < e.week)
          /\ (r.asOf = e.week \/ s.asOf = e.week)
      BY <1>1, <1>2, <1>3, <2>3 DEF Snapshot
    <3> QED BY <1>1, <3>1
  <2> QED BY <1>5, <2>1, <2>2, <2>3
<1>9. \A r \in Emitted(out) : r.asOf <= e.week /\ r \in Snapshot
  BY <1>1, <1>2, <1>3, <1>5 DEF Snapshot
<1> QED BY <1>6, <1>7, <1>8, <1>9 DEF TableInv

\* What a rating is made of are numbers, the new player's and the two tables of the engine.
RatingsAreNumbers ==
    /\ Base \in Int
    /\ \A n \in Nat : KOf[n] \in Int
    /\ \A d \in Int : Expected[d] \in Int

\* A match moves the two series it counts for, and nothing else.
LEMMA RateFacts ==
    ASSUME RatingsAreNumbers, NEW e, EngineInv(e), NEW m, m.winner \in Players, m.loser \in Players, NEW s \in Series
    PROVE  EngineInv(Rate(e, m, s)) /\ Rate(e, m, s).week = e.week
<1> DEFINE won == <<m.winner, s>>
           lost == <<m.loser, s>>
           w == StateOf(e.series, won)
           l == StateOf(e.series, lost)
           surprise == 100 - Expected[w.elo - l.elo]
           Moved(state, by) == [elo |-> state.elo + by, matches |-> state.matches + 1]
           after == [k \in DOMAIN e.series \cup {won, lost} |->
                        IF k = won THEN Moved(w, Gain(w.matches, For(m), surprise))
                        ELSE IF k = lost THEN Moved(l, -Gain(l.matches, For(m), surprise))
                        ELSE e.series[k]]
<1>1. Rate(e, m, s) = [e EXCEPT !.series = after, !.touched = @ \cup {won, lost}]
  BY DEF Rate
<1>2. PICK D \in SUBSET SeriesKeys : e.series \in [D -> State]
  BY DEF EngineInv, Engine
<1>3. won \in SeriesKeys /\ lost \in SeriesKeys
  BY DEF SeriesKeys
<1>4. w \in State /\ l \in State
  BY <1>2 DEF StateOf, State, RatingsAreNumbers
<1>5. For(m) \in Int
  <2>1. Weight(m) \in Int
    BY DEF Weight
  <2> QED BY <2>1 DEF For
<1>6. surprise \in Int
  BY <1>4 DEF State, RatingsAreNumbers
<1>7. \A n \in Nat : Gain(n, For(m), surprise) \in Int
  <2>1. ASSUME NEW n \in Nat PROVE Gain(n, For(m), surprise) \in Int
    <3>1. KOf[n] \in Int
      BY DEF RatingsAreNumbers
    <3> HIDE DEF surprise
    <3> QED BY <1>5, <1>6, <3>1 DEF Gain
  <2> QED BY <2>1
<1>8. Moved(w, Gain(w.matches, For(m), surprise)) \in State /\ Moved(l, -Gain(l.matches, For(m), surprise)) \in State
  <2> HIDE DEF w, l, surprise
  <2>1. w.matches \in Nat /\ l.matches \in Nat /\ w.elo \in Int /\ l.elo \in Int
    BY <1>4 DEF State
  <2>2. Gain(w.matches, For(m), surprise) \in Int /\ Gain(l.matches, For(m), surprise) \in Int
    BY <1>7, <2>1
  <2> QED BY <2>1, <2>2 DEF State
<1> HIDE DEF won, lost, w, l, Moved, surprise
<1>9. after \in [D \cup {won, lost} -> State]
  BY <1>2, <1>8
<1>10. D \cup {won, lost} \in SUBSET SeriesKeys
  BY <1>2, <1>3
<1> HIDE DEF after
<1>11. e \in Engine /\ e.touched \subseteq D
  BY <1>2 DEF EngineInv
<1>12. /\ Rate(e, m, s).series = after /\ Rate(e, m, s).touched = e.touched \cup {won, lost}
       /\ Rate(e, m, s).week = e.week /\ Rate(e, m, s).out = e.out
       /\ Rate(e, m, s) = [series |-> after, touched |-> e.touched \cup {won, lost},
                           week |-> e.week, out |-> e.out]
  BY <1>1, <1>11 DEF Engine
<1>13. after \in UNION {[B -> State] : B \in SUBSET SeriesKeys}
  BY <1>9, <1>10
<1>14. e.touched \cup {won, lost} \in SUBSET SeriesKeys /\ e.touched \cup {won, lost} \subseteq DOMAIN after
  BY <1>3, <1>9, <1>11 DEF Engine
<1>15. Rate(e, m, s) \in Engine
  BY <1>11, <1>12, <1>13, <1>14 DEF Engine
<1> QED BY <1>12, <1>14, <1>15 DEF EngineInv

\* A row of the replay keeps the engine as it should be.
LEMMA AddFacts ==
    ASSUME RatingsAreNumbers, NEW e, EngineInv(e), NEW m, IsMatch(m)
    PROVE  EngineInv(Add(e, m))
<1> DEFINE monday == WeekOf(m.playedOn)
           opened == IF monday > e.week THEN Flush(e, monday) ELSE e
           rated == Rate(opened, m, Overall)
<1>1. monday \in Int /\ e.week \in Int
  BY DEF WeekOf, IsMatch, EngineInv, Engine
<1> HIDE DEF monday
<1>2. EngineInv(opened)
  <2>1. CASE monday > e.week
    <3>1. \A r \in Emitted(Flush(e, monday).out) : r.asOf < monday /\ r.asOf \in Int
      BY <1>1, <2>1, FlushFacts DEF TableInv, Snapshot
    <3> QED BY <1>1, <2>1, <3>1, FlushFacts DEF EngineInv
  <2> QED BY <2>1
<1> HIDE DEF opened
<1>3. EngineInv(rated)
  BY <1>2, RateFacts, SeriesFacts DEF IsMatch
<1> HIDE DEF rated
<1>4. m.surface # Null => EngineInv(Rate(rated, m, m.surface))
  BY <1>3, RateFacts, SeriesFacts DEF IsMatch
<1>5. Add(e, m) = IF m.surface = Null THEN rated ELSE Rate(rated, m, m.surface)
  BY DEF Add, rated, opened, monday
<1> QED BY <1>3, <1>4, <1>5

-----------------------------------------------------------------------------
\* The tables, and what each kind of list makes of them.
AnyMatch == UNION {Loads[i].add : i \in DOMAIN Loads}
AnyAsk == UNION {p.asks : p \in Plans}
Walkable(ask) == ask.kind \in Walks /\ ask.limit \in Nat \ {0}

\* What is left of the plan; the loads before are done.
PlanInv ==
    /\ DOMAIN plan = {"loads", "rates", "faults", "polls", "publishes", "pages", "walks", "asks"}
    /\ plan.loads \in 0 .. Len(Loads) /\ plan.walks \in Nat
    /\ plan.walks > 0 => \A ask \in plan.asks : Walkable(ask) /\ ask \in AnyAsk
\* A match came with a load, and none since has taken it away.
MatchesInv ==
    /\ IsFiniteSet(matches)
    /\ \A m \in matches : \E i \in 1 .. Len(Loads) - plan.loads :
          /\ m \in Loads[i].add
          /\ \A k \in i + 1 .. Len(Loads) - plan.loads : m \notin Loads[k].gone
DataInv == PlanInv /\ MatchesInv /\ TableInv(ratings) /\ prominence \in [Players -> 1 .. 5]

\* The loads are numbered from one.
LEMMA LoadsFacts == DOMAIN Loads = 1 .. Len(Loads) /\ Len(Loads) \in Nat
BY SiteAssumption, LenProperties

\* No two rows of the table of one id.
LEMMA MatchesFacts ==
    ASSUME PlanInv, MatchesInv
    PROVE  /\ IsFiniteSet(matches) /\ matches \subseteq AnyMatch
           /\ \A m \in matches : IsMatch(m)
           /\ \A m, n \in matches : m.id = n.id => m = n
<1> DEFINE done == Len(Loads) - plan.loads
<1>1. done \in Nat /\ done <= Len(Loads)
  BY LoadsFacts DEF PlanInv
<1>2. \A m \in matches : \E i \in 1 .. done : m \in Loads[i].add /\ \A k \in i + 1 .. done : m \notin Loads[k].gone
  BY DEF MatchesInv
<1> HIDE DEF done
<1>3. \A i \in 1 .. done : i \in DOMAIN Loads
  BY <1>1, LoadsFacts
<1>4. ASSUME NEW m \in matches
      PROVE  m \in AnyMatch /\ IsMatch(m)
  <2>1. PICK i \in DOMAIN Loads : m \in Loads[i].add
    BY <1>2, <1>3
  <2> QED BY <2>1, SiteAssumption DEF AnyMatch
<1>5. ASSUME NEW m \in matches, NEW n \in matches, m.id = n.id, m # n,
             NEW i \in 1 .. done, NEW j \in 1 .. done, i <= j,
             m \in Loads[i].add, n \in Loads[j].add, \A k \in i + 1 .. done : m \notin Loads[k].gone
      PROVE  FALSE
  <2>1. i \in DOMAIN Loads /\ j \in i .. Len(Loads)
    BY <1>1, <1>3, <1>5, LoadsFacts
  <2>2. PICK k \in i + 1 .. j : m \in Loads[k].gone
    BY <1>5, <2>1, SiteAssumption
  <2>3. k \in i + 1 .. done
    BY <1>1
  <2> QED BY <1>5, <2>2, <2>3
<1>6. ASSUME NEW m \in matches, NEW n \in matches, m.id = n.id
      PROVE  m = n
  <2>1. PICK i \in 1 .. done : m \in Loads[i].add /\ \A k \in i + 1 .. done : m \notin Loads[k].gone
    BY <1>2
  <2>2. PICK j \in 1 .. done : n \in Loads[j].add /\ \A k \in j + 1 .. done : n \notin Loads[k].gone
    BY <1>2
  <2>3. i <= j \/ j <= i
    OBVIOUS
  <2> QED BY <1>5, <1>6, <2>1, <2>2, <2>3
<1> QED BY <1>4, <1>6 DEF MatchesInv

\* The rows past a cursor, in order, are those a page is cut from.
LEMMA PageInOrderFacts ==
    ASSUME NEW S, IsFiniteSet(S), NEW key \in [S -> Tuples(2)],
           \A x, y \in S : key[x] = key[y] => x = y, NEW after
    PROVE  /\ PageInOrder(S, key, after) \in Seq(S)
           /\ Len(PageInOrder(S, key, after)) = Cardinality(Past(S, key, after))
<1> DEFINE past == Past(S, key, after)
           keyOf == [r \in past |-> key[r]]
           N == Cardinality(past)
           q == PageInOrder(S, key, after)
<1>1. past \subseteq S /\ IsFiniteSet(past)
  BY FS_Subset DEF Past
<1>2. /\ keyOf \in [past -> Tuples(2)]
      /\ \A x, y \in past : keyOf[x] = keyOf[y] => x = y
  BY <1>1
<1>3. q = InOrder(past, keyOf)
  BY DEF PageInOrder
<1>4. N \in Nat /\ q \in [1 .. N -> past]
  <2> HIDE DEF keyOf, past, q
  <2> QED BY <1>1, <1>2, <1>3, InOrderFacts
<1> HIDE DEF keyOf, N, q, past
<1>5. q \in Seq(S) /\ Len(q) = N
  BY <1>1, <1>4
<1> QED BY <1>5 DEF q, N, past

\* A page as the handlers make it: a row for each of the rows there may be.
LEMMA PagedFacts ==
    ASSUME NEW S, IsFiniteSet(S), NEW key \in [S -> Tuples(2)],
           \A x, y \in S : key[x] = key[y] => x = y,
           NEW after, NEW limit \in Nat \ {0}, NEW X, NEW seq \in Seq(X),
           Len(seq) = Len(PageInOrder(S, key, after)),
           NEW rows, rows \in [DOMAIN Limited(seq, limit) -> Range(rows)],
           \A i \in DOMAIN rows : i \in DOMAIN seq =>
              rows[i].key = key[PageInOrder(S, key, after)[i]]
    PROVE  PageIs(Range(key), after, limit, rows)
<1> DEFINE N == Cardinality(Past(S, key, after))
           n == Len(Limited(seq, limit))
           L == Limited(seq, limit)
<1>1. Len(seq) = N
  BY PageInOrderFacts
<1>2. /\ L \in Seq(X) /\ n <= Len(seq) /\ n <= limit /\ (n = Len(seq) \/ n = limit)
  <2>1. limit \in Nat
    OBVIOUS
  <2> QED BY <2>1, LimitedFacts
<1>3. n \in Nat /\ rows \in [1 .. n -> Range(rows)] /\ DOMAIN seq = 1 .. Len(seq) /\ Len(seq) \in Nat
  <2> HIDE DEF L
  <2> QED BY <1>2, LenProperties DEF L
<1> HIDE DEF n, L, N
<1>4. /\ n <= N /\ n <= limit /\ (n = N \/ n = limit)
      /\ \A i \in 1 .. n : rows[i].key = key[PageInOrder(S, key, after)[i]]
  BY <1>1, <1>2, <1>3
<1> QED BY <1>3, <1>4, PageFacts DEF N

\* The pages of one list: what a walk of it is made of.
Paged(ask) == \E full \in SUBSET Tuples(2) : \A after : \A limit \in Nat \ {0} :
                  PageIs(full, after, limit, PageOf(ask, after, limit))

\* The matches of a player, newest first.
LEMMA HistoryIsPaged ==
    ASSUME DataInv, NEW ask, ask.kind = "history"
    PROVE  Paged(ask)
<1> DEFINE S == Filtered(matches, ask.player, ask.filter)
           key == [m \in S |-> <<-m.playedOn, -m.id>>]
<1>1. IsFiniteSet(matches) /\ S \subseteq matches /\ \A m \in S : m.id \in Int /\ m.playedOn \in Int
  BY MatchesFacts DEF DataInv, Filtered, PlayedBy, IsMatch
<1>2. \A x, y \in S : x.id = y.id => x = y
  BY <1>1, MatchesFacts DEF DataInv
<1>3. IsFiniteSet(S)
  BY <1>1, FS_Subset
<1>4. key \in [S -> Tuples(2)]
  BY <1>1, Pairs
<1>5. \A x, y \in S : key[x] = key[y] => x = y
  BY <1>1, <1>2
<1>6. ASSUME NEW after, NEW limit \in Nat \ {0}
      PROVE  PageIs(Range(key), after, limit, PageOf(ask, after, limit))
  <2> DEFINE q == PageInOrder(S, key, after)
             Row(m) == [id |-> m.id, won |-> Won(ask.player, m), opponent |-> Opponent(ask.player, m),
                        serve |-> IF Line(ask.player, m) = Null THEN Explain({m.tier}, m.season)
                                  ELSE "recorded",
                        key |-> <<-m.playedOn, -m.id>>]
             seq == [i \in DOMAIN q |-> Row(q[i])]
             rows == PageOf(ask, after, limit)
  <2>1. rows = Limited(seq, limit)
    BY <1>6 DEF PageOf, ListPlayerMatches
  <2>2. \A m \in S : Row(m).key = key[m]
    OBVIOUS
  <2> HIDE DEF S, key, Row, q, rows
  <2>3. q \in Seq(S)
    BY <1>3, <1>4, <1>5, PageInOrderFacts DEF q
  <2>4. seq \in Seq(Range(seq)) /\ Len(seq) = Len(q) /\ \A i \in DOMAIN seq : seq[i].key = key[q[i]]
    BY <2>2, <2>3 DEF Range
  <2> HIDE DEF seq
  <2>5. rows \in Seq(Range(seq)) /\ \A i \in DOMAIN rows : rows[i] = seq[i] /\ i \in DOMAIN seq
    BY <2>1, <2>4, LimitedFacts
  <2>6. rows \in [DOMAIN Limited(seq, limit) -> Range(rows)]
    BY <2>1, <2>5 DEF Range
  <2> QED BY <1>3, <1>4, <1>5, <2>4, <2>5, <2>6, PagedFacts DEF rows, q
<1>7. Range(key) \in SUBSET Tuples(2)
  BY <1>4 DEF Range
<1> QED BY <1>6, <1>7 DEF Paged

\* The players found, best first.
LEMMA SearchIsPaged ==
    ASSUME DataInv, NEW ask, ask.kind = "search"
    PROVE  Paged(ask)
<1> DEFINE S == Searched(ask.tour)
           key == [p \in S |-> SearchKey(p)]
<1>1. ASSUME NEW p \in S
      PROVE  p \in Players /\ p \in Int /\ SearchRank(p) \in Int
  <2>1. p \in Players /\ Similar[p] \in Int /\ prominence[p] \in 1 .. 5
    BY SiteAssumption DEF Searched, DataInv
  <2>2. <<100, 85, 70, 70, 60>>[prominence[p]] \in Int
    BY <2>1
  <2> QED BY <2>1, <2>2, SiteDataAssumption DEF SearchRank
<1>2. \A p \in S : key[p] = <<-SearchRank(p), p>>
  BY DEF SearchKey
<1>3. IsFiniteSet(S)
  <2>1. S \in SUBSET Players
    BY DEF Searched
  <2> QED BY <2>1, SiteAssumption, FS_Subset
<1>4. key \in [S -> Tuples(2)]
  <2> HIDE DEF S
  <2> QED BY <1>1, <1>2, Pairs DEF SearchKey
<1>5. \A x, y \in S : key[x] = key[y] => x = y
  BY <1>2
<1>6. ASSUME NEW after, NEW limit \in Nat \ {0}
      PROVE  PageIs(Range(key), after, limit, PageOf(ask, after, limit))
  <2> DEFINE q == PageInOrder(S, key, after)
             seq == [i \in DOMAIN q |-> [player |-> q[i], key |-> SearchKey(q[i])]]
             rows == PageOf(ask, after, limit)
  <2>1. rows = Limited(seq, limit)
    BY <1>6 DEF PageOf, SearchPlayers
  <2>2. \A p \in S : key[p] = SearchKey(p)
    OBVIOUS
  <2> HIDE DEF S, key, q, rows
  <2>3. q \in Seq(S)
    BY <1>3, <1>4, <1>5, PageInOrderFacts DEF q
  <2>4. seq \in Seq(Range(seq)) /\ Len(seq) = Len(q) /\ \A i \in DOMAIN seq : seq[i].key = key[q[i]]
    BY <2>2, <2>3 DEF Range
  <2> HIDE DEF seq
  <2>5. rows \in Seq(Range(seq)) /\ \A i \in DOMAIN rows : rows[i] = seq[i] /\ i \in DOMAIN seq
    BY <2>1, <2>4, LimitedFacts
  <2>6. rows \in [DOMAIN Limited(seq, limit) -> Range(rows)]
    BY <2>1, <2>5 DEF Range
  <2>7. \A i \in DOMAIN rows : i \in DOMAIN seq => rows[i].key = key[q[i]]
    BY <2>4, <2>5
  <2>8. PageIs(Range(key), after, limit, rows)
    BY <1>3, <1>4, <1>5, <2>4, <2>6, <2>7, PagedFacts, SMTT(60) DEF q
  <2> QED BY <2>8 DEF rows
<1>7. Range(key) \in SUBSET Tuples(2)
  BY <1>4 DEF Range
<1> QED BY <1>6, <1>7 DEF Paged

\* A list that has no date has no rows.
LEMMA EmptyIsPaged ==
    ASSUME NEW after, NEW limit \in Nat \ {0}
    PROVE  PageIs({}, after, limit, <<>>)
<1>1. <<>> \in [1 .. 0 -> Range(<<>>)] /\ 0 <= limit
  OBVIOUS
<1> QED BY <1>1 DEF PageIs

\* The published ranking of a date: a player once.
LEMMA OfficialIsPaged ==
    ASSUME DataInv, NEW ask, ask.kind = "official"
    PROVE  Paged(ask)
<1> DEFINE date == EffectiveOfficialDate(ask.tour, ask.date)
           S == {o \in Official : o.date = date /\ OfTour(o.player, ask.tour)}
           key == [o \in S |-> <<o.rank, o.player>>]
<1>1. \A o \in S : o.player \in Int /\ o.rank \in Int /\ o.player \in Players
  <2>1. \A o \in S : o \in Official
    OBVIOUS
  <2> HIDE DEF S
  <2>2. \A p \in Players : p \in Int
    BY SiteDataAssumption
  <2> QED BY <2>1, <2>2, SiteAssumption
<1>3. IsFiniteSet(S)
  <2>1. S \in SUBSET Official
    OBVIOUS
  <2> HIDE DEF S
  <2> QED BY <2>1, SiteAssumption, FS_Subset
<1>4. key \in [S -> Tuples(2)]
  <2> HIDE DEF S
  <2> QED BY <1>1, Pairs
<1>5. \A x, y \in S : key[x] = key[y] => x = y
  BY SiteAssumption
<1>6. ASSUME NEW after, NEW limit \in Nat \ {0}, date # Null
      PROVE  PageIs(Range(key), after, limit, PageOf(ask, after, limit))
  <2> DEFINE q == PageInOrder(S, key, after)
             L == Limited(q, limit)
             rows == PageOf(ask, after, limit)
  <2>1. rows = [i \in DOMAIN L |-> OfficialRow(ratings, Overall, date, L[i])]
    BY <1>6 DEF PageOf, officialRankings, ListOfficialRankings
  <2>2. \A o \in S : OfficialRow(ratings, Overall, date, o).key = key[o]
    BY DEF OfficialRow
  <2> HIDE DEF S, key, q, rows, date
  <2>3. q \in Seq(S)
    BY <1>3, <1>4, <1>5, PageInOrderFacts DEF q
  <2>4. L \in Seq(S) /\ \A i \in DOMAIN L : L[i] = q[i] /\ L[i] \in S
    BY <2>3, LimitedFacts
  <2>5. rows \in [DOMAIN Limited(q, limit) -> Range(rows)]
    BY <2>1 DEF Range
  <2>6. \A i \in DOMAIN rows : rows[i].key = key[q[i]]
    <3> HIDE DEF L
    <3> QED BY <2>1, <2>2, <2>4
  <2> HIDE DEF L
  <2> QED BY <1>3, <1>4, <1>5, <2>3, <2>5, <2>6, PagedFacts DEF rows, q
<1>7. Range(key) \in SUBSET Tuples(2)
  BY <1>4 DEF Range
<1>8. ASSUME NEW after, NEW limit \in Nat \ {0}, date = Null
      PROVE  PageIs({}, after, limit, PageOf(ask, after, limit))
  <2>1. PageOf(ask, after, limit) = <<>>
    BY <1>8 DEF PageOf, officialRankings
  <2> QED BY <2>1, EmptyIsPaged
<1> HIDE DEF date, S, key
<1> QED BY <1>6, <1>7, <1>8 DEF Paged

\* The board of a date: the last snapshot of each player, of which there is one.
LEMMA EloIsPaged ==
    ASSUME DataInv, NEW ask, ask.kind = "elo"
    PROVE  Paged(ask)
<1> DEFINE asOf == EffectiveEloDate(ratings, ask.series, ask.tour, ask.date)
           published == EffectiveOfficialDate(ask.tour, asOf)
           S == EloBoard(ratings, ask.series, asOf, ask.tour)
           key == [r \in S |-> <<-r.elo, r.player>>]
<1>1. ratings \subseteq Snapshot /\ IsFiniteSet(ratings) /\ Keyed(ratings)
  BY DEF DataInv, TableInv
<1>2. S \subseteq ratings
        /\ \A r, s \in S : r.series = s.series /\ (r.player = s.player => r.asOf <= s.asOf /\ s.asOf <= r.asOf)
  BY DEF EloBoard, AsOf, Latest
<1> HIDE DEF S
<1>3. \A r \in S : r.elo \in Int /\ r.player \in Int /\ r.asOf \in Int
  <2>1. \A p \in Players : p \in Int
    BY SiteDataAssumption
  <2> QED BY <1>1, <1>2, <2>1 DEF Snapshot
<1>4. IsFiniteSet(S)
  BY <1>1, <1>2, FS_Subset
<1>5. key \in [S -> Tuples(2)]
  BY <1>3, Pairs
<1>6. \A x, y \in S : key[x] = key[y] => x = y
  <2> SUFFICES ASSUME NEW x \in S, NEW y \in S, key[x] = key[y]
               PROVE  x = y
    OBVIOUS
  <2>1. x.player = y.player
    OBVIOUS
  <2>2. x.asOf = y.asOf /\ x.series = y.series
    BY <1>2, <1>3, <2>1
  <2> QED BY <1>1, <1>2, <2>1, <2>2 DEF Keyed
<1>7. ASSUME NEW after, NEW limit \in Nat \ {0}, asOf # Null
      PROVE  PageIs(Range(key), after, limit, PageOf(ask, after, limit))
  <2> DEFINE q == PageInOrder(S, key, after)
             Row(r) == [player |-> r.player, elo |-> r.elo, matches |-> r.matches,
                        position |-> 1 + Cardinality({s \in S : Precedes(key[s], key[r])})]
             seq == [i \in DOMAIN q |-> Row(q[i])]
             L == Limited(seq, limit)
             rows == PageOf(ask, after, limit)
  <2>1. L = ListEloRankings(ratings, ask.series, asOf, ask.tour, after, limit)
    BY DEF ListEloRankings, S
  <2>2. rows = [i \in DOMAIN L |-> EloRow(ratings, ask.series, asOf, published, L[i])]
    BY <1>7, <2>1 DEF PageOf, eloRankings
  <2>3. \A r \in S : Row(r).elo = r.elo /\ Row(r).player = r.player
    OBVIOUS
  <2> HIDE DEF L, Row, rows, asOf, published
  <2>4. \A l : EloRow(ratings, ask.series, asOf, published, l).key = <<-l.elo, l.player>>
    BY DEF EloRow
  <2>5. \A r \in S : key[r] = <<-r.elo, r.player>>
    OBVIOUS
  <2> HIDE DEF key, q
  <2>6. q \in Seq(S)
    BY <1>4, <1>5, <1>6, PageInOrderFacts DEF q
  <2>7. seq \in Seq(Range(seq)) /\ Len(seq) = Len(q) /\ \A i \in DOMAIN seq : seq[i] = Row(q[i]) /\ q[i] \in S
    BY <2>6 DEF Range
  <2> HIDE DEF seq
  <2>8. L \in Seq(Range(seq)) /\ \A i \in DOMAIN L : L[i] = seq[i] /\ i \in DOMAIN seq
    BY <2>7, LimitedFacts DEF L
  <2>9. rows \in [DOMAIN Limited(seq, limit) -> Range(rows)]
    BY <2>2 DEF Range, L
  <2>10. \A i \in DOMAIN rows : rows[i].key = key[q[i]]
    <3> SUFFICES ASSUME NEW i \in DOMAIN L PROVE rows[i].key = key[q[i]]
      BY <2>2
    <3>1. L[i] = Row(q[i]) /\ q[i] \in S
      BY <2>7, <2>8
    <3>2. rows[i].key = <<-L[i].elo, L[i].player>>
      BY <2>2, <2>4
    <3> QED BY <2>3, <2>5, <3>1, <3>2
  <2> QED BY <1>4, <1>5, <1>6, <2>7, <2>9, <2>10, PagedFacts DEF rows, q
<1>8. Range(key) \in SUBSET Tuples(2)
  BY <1>5 DEF Range
<1>9. ASSUME NEW after, NEW limit \in Nat \ {0}, asOf = Null
      PROVE  PageIs({}, after, limit, PageOf(ask, after, limit))
  <2>1. PageOf(ask, after, limit) = <<>>
    BY <1>9 DEF PageOf, eloRankings
  <2> QED BY <2>1, EmptyIsPaged
<1> HIDE DEF asOf, S, key
<1> QED BY <1>7, <1>8, <1>9 DEF Paged

\* Whatever a client may walk is one list.
LEMMA WalksArePaged ==
    ASSUME DataInv, NEW ask, Walkable(ask)
    PROVE  Paged(ask)
BY HistoryIsPaged, SearchIsPaged, OfficialIsPaged, EloIsPaged DEF Walkable, Walks

-----------------------------------------------------------------------------
\* A walk: its rows in order, the cursor the last of them, and every row that held still
\* shown or to come.
ClientWalk == [ask : AnyAsk, after : Tuples(2) \cup {Null}, seen : Seq(Tuples(2)),
               held : SUBSET Tuples(2), done : BOOLEAN]
WalkIs(w) ==
    /\ w \in ClientWalk /\ Walkable(w.ask)
    /\ \A i, j \in 1 .. Len(w.seen) : i < j => Precedes(w.seen[i], w.seen[j])
    /\ w.after = IF w.seen = <<>> THEN Null ELSE w.seen[Len(w.seen)]
    /\ \A k \in w.held : \/ k \in Range(w.seen)
                         \/ ~w.done /\ w.after # Null /\ Precedes(w.after, k)

\* One page more.
Taking(w, rows, now) ==
    [w EXCEPT !.seen = @ \o Keys(rows), !.done = Len(rows) < w.ask.limit,
              !.after = IF rows = <<>> THEN @ ELSE Last(rows).key,
              !.held = IF w.after = Null THEN now ELSE @ \cap now]

\* No cursor is mistaken for none.
LEMMA NullIsNoKey == Null \notin Tuples(2)
BY Pairs, SiteAssumption

\* A page more keeps a walk as it should be, whatever the list has become meanwhile.
LEMMA TakingFacts ==
    ASSUME NEW w, WalkIs(w), ~w.done, NEW full \in SUBSET Tuples(2), NEW now \in SUBSET full,
           NEW rows, PageIs(full, w.after, w.ask.limit, rows)
    PROVE  WalkIs(Taking(w, rows, now))
<1> DEFINE after == w.after
           limit == w.ask.limit
           seen == w.seen
           S == Len(seen)
           all == seen \o Keys(rows)
           t == Taking(w, rows, now)
<1>1. PICK n \in Nat :
        /\ rows \in [1 .. n -> Range(rows)] /\ n <= limit
        /\ \A i \in 1 .. n : /\ rows[i].key \in full
                             /\ after # Null => Precedes(after, rows[i].key)
        /\ \A i, j \in 1 .. n : i < j => Precedes(rows[i].key, rows[j].key)
        /\ \A k \in full : (after # Null => Precedes(after, k)) =>
              \/ \E i \in 1 .. n : rows[i].key = k
              \/ n = limit /\ Precedes(rows[n].key, k)
  BY DEF PageIs
<1>2. /\ seen \in Seq(Tuples(2)) /\ S \in Nat /\ limit \in Nat \ {0}
      /\ \A i, j \in 1 .. S : i < j => Precedes(seen[i], seen[j])
      /\ after = IF S = 0 THEN Null ELSE seen[S]
      /\ \A i \in 1 .. S : seen[i] \in Tuples(2)
  BY DEF WalkIs, ClientWalk, Walkable
<1>3. /\ Len(rows) = n /\ DOMAIN rows = 1 .. n /\ (rows = <<>> <=> n = 0)
      /\ rows \in Seq(Range(rows))
  BY <1>1
<1>4. Keys(rows) = [i \in 1 .. n |-> rows[i].key] /\ Keys(rows) \in Seq(Tuples(2)) /\ Len(Keys(rows)) = n
      /\ \A i \in 1 .. n : Keys(rows)[i] = rows[i].key
  <2>1. \A i \in 1 .. n : rows[i].key \in Tuples(2)
    BY <1>1
  <2>2. Keys(rows) = [i \in 1 .. n |-> rows[i].key]
    BY <1>3 DEF Keys
  <2> HIDE DEF Tuples
  <2> QED BY <2>1, <2>2
<1>5. /\ all \in Seq(Tuples(2)) /\ Len(all) = S + n
      /\ \A i \in 1 .. S : all[i] = seen[i]
      /\ \A i \in 1 .. n : all[S + i] = rows[i].key
  BY <1>2, <1>4
<1>6. n # 0 => Last(rows) = rows[n]
  BY <1>3 DEF Last
<1>7. /\ t.ask = w.ask /\ t.seen = all /\ t.done = (n < limit)
      /\ t.after = (IF n = 0 THEN after ELSE rows[n].key)
      /\ t.held = (IF after = Null THEN now ELSE w.held \cap now)
      /\ t = [ask |-> t.ask, after |-> t.after, seen |-> t.seen, held |-> t.held, done |-> t.done]
  <2> DEFINE a == w.seen \o Keys(rows)
             b == Len(rows) < w.ask.limit
             c == IF rows = <<>> THEN w.after ELSE Last(rows).key
             d == IF w.after = Null THEN now ELSE w.held \cap now
  <2>1. t = [w EXCEPT !.seen = a, !.done = b, !.after = c, !.held = d]
    BY Zenon DEF Taking
  <2> HIDE DEF a, b, c, d, t
  <2>2. w \in [ask : AnyAsk, after : Tuples(2) \cup {Null}, seen : Seq(Tuples(2)),
              held : SUBSET Tuples(2), done : BOOLEAN]
    BY DEF WalkIs, ClientWalk
  <2>3. t = [ask |-> w.ask, after |-> c, seen |-> a, held |-> d, done |-> b]
    BY <2>1, <2>2
  <2>4. t.ask = w.ask /\ t.after = c /\ t.seen = a /\ t.held = d /\ t.done = b
    BY <2>3
  <2>5. a = all /\ b = (n < limit) /\ c = (IF n = 0 THEN after ELSE rows[n].key)
        /\ d = (IF after = Null THEN now ELSE w.held \cap now)
    BY <1>3, <1>6 DEF a, b, c, d
  <2>6. t = [ask |-> t.ask, after |-> t.after, seen |-> t.seen, held |-> t.held, done |-> t.done]
    BY <2>3, <2>4
  <2> QED BY <2>4, <2>5, <2>6
<1>8. after # Null => S # 0 /\ after = seen[S] /\ after \in Tuples(2)
  BY <1>2
<1>9. after = Null => S = 0
  <2>1. S # 0 => seen[S] \in Tuples(2)
    BY <1>2
  <2> QED BY <1>2, <2>1, NullIsNoKey
<1> HIDE DEF all, t, S, after, limit, seen
<1>10. \A i, j \in 1 .. Len(all) : i < j => Precedes(all[i], all[j])
  <2> SUFFICES ASSUME NEW i \in 1 .. S + n, NEW j \in 1 .. S + n, i < j
               PROVE  Precedes(all[i], all[j])
    BY <1>5
  <2>1. CASE j <= S
    BY <1>2, <1>5, <2>1
  <2>2. CASE i > S
    <3>1. /\ i - S \in 1 .. n /\ j - S \in 1 .. n /\ i - S < j - S
          /\ S + (i - S) = i /\ S + (j - S) = j
      BY <1>2, <2>2
    <3>2. all[i] = rows[i - S].key /\ all[j] = rows[j - S].key
      BY <1>5, <3>1
    <3> QED BY <1>1, <3>1, <3>2
  <2>3. CASE i <= S /\ j > S
    <3>1. j - S \in 1 .. n /\ S + (j - S) = j /\ i \in 1 .. S /\ S # 0
      BY <1>2, <2>3
    <3>2. all[i] = seen[i] /\ all[j] = rows[j - S].key
      BY <1>5, <3>1
    <3>3. after # Null /\ after = seen[S] /\ S \in 1 .. S
      BY <1>2, <1>8, <1>9, <3>1
    <3>4. Precedes(seen[S], all[j])
      BY <1>1, <3>1, <3>2, <3>3
    <3>5. i = S \/ Precedes(seen[i], seen[S])
      BY <1>2, <3>1, <3>3
    <3>6. seen[i] \in Tuples(2) /\ seen[S] \in Tuples(2) /\ all[j] \in Tuples(2)
      BY <1>1, <1>2, <3>1, <3>2, <3>3
    <3> HIDE DEF Tuples
    <3> QED BY <3>2, <3>4, <3>5, <3>6, PrecedesIsOrder
  <2> QED BY <1>2, <2>1, <2>2, <2>3
<1>11. t.after = IF all = <<>> THEN Null ELSE all[Len(all)]
  <2>1. all = <<>> <=> S + n = 0
    BY <1>2, <1>5
  <2>2. CASE n = 0
    BY <1>2, <1>5, <1>7, <1>8, <1>9, <2>1, <2>2
  <2>3. CASE n # 0
    <3>1. n \in 1 .. n /\ S + n # 0
      BY <1>2, <2>3
    <3> QED BY <1>5, <1>7, <2>1, <2>3, <3>1
  <2> QED BY <2>2, <2>3
<1>12. Range(all) = Range(seen) \cup {rows[i].key : i \in 1 .. n}
  <2>1. DOMAIN all = 1 .. S + n /\ DOMAIN seen = 1 .. S
    BY <1>2, <1>5 DEF S, seen
  <2>2. \A i \in 1 .. S + n : i \in 1 .. S \/ (i - S \in 1 .. n /\ i = S + (i - S))
    BY <1>2
  <2>3. /\ \A i \in 1 .. S : i \in 1 .. S + n
        /\ \A i \in 1 .. n : S + i \in 1 .. S + n
    BY <1>2
  <2> QED BY <1>5, <2>1, <2>2, <2>3 DEF Range
<1>13. t.held \subseteq full
  BY <1>2, <1>7 DEF WalkIs, ClientWalk
<1>14. ASSUME NEW k \in t.held
       PROVE  k \in Range(all) \/ (~t.done /\ t.after # Null /\ Precedes(t.after, k))
  <2>1. k \in Range(seen) \/ (after # Null => Precedes(after, k))
    BY <1>7, <1>14 DEF WalkIs, seen, after
  <2>2. CASE k \in Range(seen)
    BY <1>12, <2>2
  <2>3. CASE \E i \in 1 .. n : rows[i].key = k
    BY <1>12, <2>3
  <2>4. CASE n = limit /\ Precedes(rows[n].key, k)
    <3>1. n # 0 /\ n \in 1 .. n /\ ~(n < limit)
      BY <1>2, <2>4
    <3>2. rows[n].key # Null
      BY <1>1, <3>1, NullIsNoKey
    <3> QED BY <1>7, <2>4, <3>1, <3>2
  <2> QED BY <1>1, <1>13, <2>1, <2>2, <2>3, <2>4
<1>15. t.done \in BOOLEAN /\ Walkable(t.ask) /\ t.ask \in AnyAsk
  BY <1>7 DEF WalkIs, ClientWalk
<1>16. t.held \in SUBSET Tuples(2)
  BY <1>13
<1>17. t.after \in Tuples(2) \cup {Null}
  BY <1>1, <1>2, <1>7, <1>8
<1> HIDE DEF Tuples
<1>18. t \in ClientWalk
  BY <1>5, <1>7, <1>15, <1>16, <1>17 DEF ClientWalk
<1> QED BY <1>5, <1>7, <1>10, <1>11, <1>14, <1>15, <1>18 DEF WalkIs, t

\* The first page of a list, however long the page, is of its rows.
LEMMA AllKeysFacts ==
    ASSUME NEW ask, NEW full \in SUBSET Tuples(2),
           \A after : \A limit \in Nat \ {0} : PageIs(full, after, limit, PageOf(ask, after, limit))
    PROVE  AllKeys(ask) \subseteq full
<1> DEFINE rows == PageOf(ask, Null, 1000)
<1>1. PageIs(full, Null, 1000, rows)
  OBVIOUS
<1> HIDE DEF rows
<1>2. PICK n \in Nat : rows \in [1 .. n -> Range(rows)] /\ \A i \in 1 .. n : rows[i].key \in full
  BY <1>1 DEF PageIs
<1>3. Range(Keys(rows)) \subseteq full
  BY <1>2 DEF Keys, Range
<1> QED BY <1>3 DEF AllKeys, rows

Run == [at : {"truncated", "replaying"}, from : SUBSET AnyMatch, left : Seq(AnyMatch), engine : Engine]
RunIs(r) == r \in Run /\ EngineInv(r.engine)
SiteInv ==
    /\ DataInv
    /\ rate # Null => RunIs(rate)
    /\ walk # Null => WalkIs(walk)

\* What a load adds are matches.
LEMMA AnyMatchIsMatch == \A m \in AnyMatch : IsMatch(m)
BY SiteAssumption DEF AnyMatch

\* The order a run goes through its matches in, and the Monday of each.
Monday(order, i) == WeekOf(order[i].playedOn)
Ordered(order) ==
    /\ order \in Seq(AnyMatch)
    /\ \A i, j \in 1 .. Len(order) : i < j => Monday(order, i) <= Monday(order, j)

LEMMA Mondays ==
    /\ \A a \in Int : WeekOf(a) \in Int
    /\ \A a, b \in Int : a <= b => WeekOf(a) <= WeekOf(b)
BY DEF WeekOf

\* The replay is of rows of the table, week after week.
LEMMA ReplayFacts ==
    ASSUME PlanInv, MatchesInv
    PROVE  Ordered(ReplayOrder(matches))
<1> DEFINE key == [m \in matches |-> <<m.playedOn, m.draw, RoundRank(m.round), m.num, m.id>>]
<1>1. /\ IsFiniteSet(matches) /\ matches \subseteq AnyMatch
      /\ \A m \in matches : m.playedOn \in Int /\ m.draw \in Int /\ m.num \in Int /\ m.id \in Int
      /\ \A m, n \in matches : m.id = n.id => m = n
  BY MatchesFacts DEF IsMatch
<1>2. \A round : RoundRank(round) \in Int
  <2>1. DOMAIN Rounds = 1 .. 16 /\ Len(Rounds) = 16
    BY DEF Rounds
  <2> SUFFICES ASSUME NEW round PROVE RoundRank(round) \in Int
    OBVIOUS
  <2>2. CASE round \in Range(Rounds)
    <3>1. \E i \in DOMAIN Rounds : Rounds[i] = round
      BY <2>2 DEF Range
    <3>2. (CHOOSE i \in DOMAIN Rounds : Rounds[i] = round) \in DOMAIN Rounds
      BY <3>1
    <3>3. (CHOOSE i \in DOMAIN Rounds : Rounds[i] = round) \in Int
      <4>1. \A i \in DOMAIN Rounds : i \in Int
        BY <2>1
      <4> QED BY <3>2, <4>1
    <3> QED BY <2>2, <3>3 DEF RoundRank
  <2>3. CASE round \notin Range(Rounds)
    BY <2>1, <2>3 DEF RoundRank
  <2> QED BY <2>2, <2>3
<1>3. key \in [matches -> Tuples(5)]
  <2> SUFFICES ASSUME NEW m \in matches
               PROVE  <<m.playedOn, m.draw, RoundRank(m.round), m.num, m.id>> \in Tuples(5)
    OBVIOUS
  <2>1. \A a, b, c, d, e \in Int : <<a, b, c, d, e>> \in [1 .. 5 -> Int]
    OBVIOUS
  <2> QED BY <1>1, <1>2, <2>1 DEF Tuples
<1>4. \A x, y \in matches : key[x] = key[y] => x = y
  BY <1>1
<1> DEFINE order == InOrder(matches, key)
<1>5. /\ Cardinality(matches) \in Nat /\ order \in [1 .. Cardinality(matches) -> matches]
      /\ \A i, j \in 1 .. Cardinality(matches) : i < j => Precedes(key[order[i]], key[order[j]])
  <2> HIDE DEF key
  <2> QED BY <1>1, <1>3, <1>4, InOrderFacts
<1>6. \A m, n \in matches : Precedes(key[m], key[n]) => m.playedOn <= n.playedOn
  <2> SUFFICES ASSUME NEW m \in matches, NEW n \in matches, Precedes(key[m], key[n])
               PROVE  m.playedOn <= n.playedOn
    OBVIOUS
  <2>1. key[m] \in [1 .. 5 -> Int] /\ key[n] \in [1 .. 5 -> Int]
    BY <1>3 DEF Tuples
  <2>2. key[m][1] = m.playedOn /\ key[n][1] = n.playedOn
    OBVIOUS
  <2> HIDE DEF key
  <2>3. PICK i \in 1 .. 5 : key[m][i] < key[n][i] /\ \A j \in 1 .. i - 1 : key[m][j] = key[n][j]
    BY <2>1 DEF Precedes
  <2>4. CASE i = 1
    BY <2>1, <2>2, <2>3, <2>4
  <2>5. CASE i # 1
    <3>1. 1 \in 1 .. i - 1
      BY <2>5
    <3> QED BY <1>1, <2>2, <2>3, <3>1
  <2> QED BY <2>4, <2>5
<1>7. ReplayOrder(matches) = order
  BY DEF ReplayOrder
<1> HIDE DEF key, order
<1>8. order \in Seq(AnyMatch) /\ Len(order) = Cardinality(matches)
  BY <1>1, <1>5
<1>9. \A i, j \in 1 .. Len(order) : i < j => Monday(order, i) <= Monday(order, j)
  <2> SUFFICES ASSUME NEW i \in 1 .. Len(order), NEW j \in 1 .. Len(order), i < j
               PROVE  Monday(order, i) <= Monday(order, j)
    OBVIOUS
  <2>1. order[i] \in matches /\ order[j] \in matches /\ Precedes(key[order[i]], key[order[j]])
    BY <1>5, <1>8
  <2>2. order[i].playedOn <= order[j].playedOn /\ order[i].playedOn \in Int /\ order[j].playedOn \in Int
    BY <1>1, <1>6, <2>1
  <2> QED BY <2>2, Mondays DEF Monday
<1> QED BY <1>7, <1>8, <1>9 DEF Ordered

\* A run starts with nothing emitted.
LEMMA NewEngineFacts == EngineInv(NewEngine)
<1>1. Range(<<>>) = {}
  BY DEF Range
<1>2. Emitted(NewEngine.out) = {}
  BY <1>1 DEF Emitted, NewEngine
<1>3. NewEngine.series \in [{} -> State]
  BY DEF NewEngine
<1>4. NewEngine \in Engine
  <2>1. NewEngine.series \in UNION {[D -> State] : D \in SUBSET SeriesKeys}
    BY <1>3
  <2>2. NewEngine.out \in [buf : Seq(Snapshot), copied : SUBSET Snapshot]
    BY DEF NewEngine
  <2>3. NewEngine = [series |-> NewEngine.series, touched |-> {}, week |-> -1, out |-> NewEngine.out]
    BY DEF NewEngine
  <2> QED BY <2>1, <2>2, <2>3 DEF Engine
<1>5. NewEngine.touched = {}
  BY DEF NewEngine
<1> QED BY <1>2, <1>4, <1>5, FS_EmptySet DEF EngineInv, TableInv, Keyed

\* What a run commits is a table of ratings.
LEMMA CommittedFacts ==
    ASSUME NEW e, EngineInv(e)
    PROVE  TableInv(CopyOut(Flush(e, e.week).out).copied)
<1>1. e.week \in Int
  BY DEF EngineInv, Engine
<1>2. TableInv(Emitted(Flush(e, e.week).out))
  BY <1>1, FlushFacts
<1>3. CopyOut(Flush(e, e.week).out).copied = Emitted(Flush(e, e.week).out)
  BY DEF CopyOut, Emitted
<1> QED BY <1>2, <1>3

\* What has happened is taken off the plan.
LEMMA SpentFacts ==
    ASSUME PlanInv, NEW what, Spent(what),
           what \in {"loads", "rates", "faults", "polls", "publishes", "pages", "walks"}
    PROVE  /\ PlanInv'
           /\ plan'.loads = IF what = "loads" THEN plan.loads - 1 ELSE plan.loads
           /\ plan[what] > 0
<1>1. /\ DOMAIN plan' = DOMAIN plan /\ plan'.asks = plan.asks
      /\ plan'.loads = IF what = "loads" THEN plan.loads - 1 ELSE plan.loads
      /\ plan'.walks = IF what = "walks" THEN plan.walks - 1 ELSE plan.walks
      /\ plan[what] > 0
  BY DEF Spent, PlanInv
<1>2. plan'.loads \in 0 .. Len(Loads) /\ plan'.walks \in Nat /\ plan'.walks <= plan.walks
  BY <1>1, LoadsFacts DEF PlanInv
<1>3. plan'.walks > 0 => plan.walks > 0
  BY <1>2 DEF PlanInv
<1> QED BY <1>1, <1>2, <1>3 DEF PlanInv

\* The site starts empty.
LEMMA SiteStarts == Init => SiteInv
<1> SUFFICES ASSUME Init PROVE SiteInv
  OBVIOUS
<1>1. plan \in Plans /\ matches = {} /\ ratings = {} /\ rate = Null /\ walk = Null
      /\ prominence = [p \in Players |-> 5]
  BY DEF Init, RatingInit
<1>2. PlanInv
  <2>1. plan.asks \subseteq AnyAsk
    BY <1>1 DEF AnyAsk
  <2> QED BY <1>1, <2>1, SiteAssumption DEF PlanInv, Walkable
<1>3. MatchesInv
  BY <1>1, FS_EmptySet DEF MatchesInv
<1>4. TableInv(ratings)
  BY <1>1, FS_EmptySet DEF TableInv, Keyed
<1> QED BY <1>1, <1>2, <1>3, <1>4 DEF SiteInv, DataInv

\* A load leaves one row of an id.
LEMMA LoadKeeps ==
    ASSUME PlanInv, MatchesInv, LoadCommits
    PROVE  PlanInv' /\ MatchesInv'
<1> DEFINE done == Len(Loads) - plan.loads
           load == Loads[Len(Loads) + 1 - plan.loads]
<1>1. PlanInv' /\ plan'.loads = plan.loads - 1 /\ plan.loads > 0
  BY SpentFacts DEF LoadCommits
<1>2. /\ matches' = (matches \ load.gone) \cup load.add
      /\ load = Loads[done + 1] /\ done + 1 \in DOMAIN Loads /\ done \in Nat
      /\ Len(Loads) - plan'.loads = done + 1
  BY <1>1, LoadsFacts DEF LoadCommits, PlanInv
<1>3. IsFiniteSet(matches')
  <2>1. IsFiniteSet(load.add)
    BY <1>2, SiteAssumption
  <2>2. IsFiniteSet(matches \ load.gone)
    BY FS_Difference DEF MatchesInv
  <2> QED BY <1>2, <2>1, <2>2, FS_Union
<1>4. \A m \in matches : \E i \in 1 .. done : m \in Loads[i].add /\ \A k \in i + 1 .. done : m \notin Loads[k].gone
  BY DEF MatchesInv
<1> HIDE DEF done, load
<1>5. ASSUME NEW m \in matches'
      PROVE  \E i \in 1 .. done + 1 : m \in Loads[i].add /\ \A k \in i + 1 .. done + 1 : m \notin Loads[k].gone
  <2>1. CASE m \in load.add
    <3>1. done + 1 \in 1 .. done + 1 /\ \A k \in (done + 1) + 1 .. done + 1 : FALSE
      BY <1>2
    <3> QED BY <1>2, <2>1, <3>1
  <2>2. CASE m \in matches /\ m \notin load.gone
    <3>1. PICK i \in 1 .. done : m \in Loads[i].add /\ \A k \in i + 1 .. done : m \notin Loads[k].gone
      BY <1>4, <2>2
    <3>2. i \in 1 .. done + 1 /\ \A k \in i + 1 .. done + 1 : k \in i + 1 .. done \/ k = done + 1
      BY <1>2
    <3> QED BY <1>2, <2>2, <3>1, <3>2
  <2> QED BY <1>2, <2>1, <2>2
<1> QED BY <1>1, <1>2, <1>3, <1>5 DEF MatchesInv

\* A tier weighs something in the search.
LEMMA TierFacts == \A rows, p : BestTier(rows, p) \in 1 .. 5
<1> SUFFICES ASSUME NEW rows, NEW p PROVE BestTier(rows, p) \in 1 .. 5
  OBVIOUS
<1> DEFINE reached == {i \in 1 .. 4 : \E m \in PlayedBy(rows, p) :
                          m.tier = <<"tour", "challenger", "futures", "itf">>[i]}
<1>1. reached \subseteq 1 .. 4 /\ \A i \in 1 .. 4 : i \in 1 .. 5
  OBVIOUS
<1>2. BestTier(rows, p) = IF reached = {} THEN 5 ELSE Min(reached)
  BY DEF BestTier
<1> HIDE DEF reached
<1>3. ASSUME reached # {} PROVE Min(reached) \in reached
  <2>1. reached \subseteq Nat
    BY <1>1
  <2>2. \E n \in reached : \A x \in reached : n <= x
    BY <1>3, <2>1, LeastNumber
  <2> QED BY <2>2 DEF Min
<1>4. CASE reached = {}
  BY <1>2, <1>4
<1>5. CASE reached # {}
  <2>1. BestTier(rows, p) \in reached
    BY <1>2, <1>3, <1>5
  <2> QED BY <1>1, <2>1
<1> QED BY <1>4, <1>5

\* A rating run, at any of its steps.
LEMMA RatingJobKeeps ==
    ASSUME RatingsAreNumbers, SiteInv, RatingJob, UNCHANGED <<prominence, walk>>
    PROVE  SiteInv'
<1>1. PlanInv /\ MatchesInv /\ TableInv(ratings)
  BY DEF SiteInv, DataInv
<1>2. matches' = matches /\ prominence' = prominence /\ walk' = walk
  BY DEF RatingJob, RateTruncates, RateReads, RateRow, RateDies, RateCommits
<1>3. PlanInv' /\ plan'.loads = plan.loads
  BY <1>1, SpentFacts DEF RatingJob, PlanInv
<1>4. MatchesInv'
  BY <1>1, <1>2, <1>3 DEF MatchesInv
<1>5. TableInv(ratings)' /\ (rate # Null => RunIs(rate))'
  <2>1. CASE RateTruncates
    <3>1. rate' = [at |-> "truncated", from |-> {}, left |-> <<>>, engine |-> NewEngine]
      BY <2>1 DEF RateTruncates
    <3>2. NewEngine \in Engine
      BY NewEngineFacts DEF EngineInv
    <3>3. RunIs(rate')
      BY <3>1, <3>2, NewEngineFacts DEF RunIs, Run
    <3> QED BY <1>1, <2>1, <3>3 DEF RateTruncates
  <2>2. CASE RateReads
    <3>1. /\ rate # Null /\ ratings' = ratings
          /\ rate' = [rate EXCEPT !.at = "replaying", !.from = matches, !.left = ReplayOrder(matches)]
      BY <2>2 DEF RateReads
    <3>2. ReplayOrder(matches) \in Seq(AnyMatch) /\ matches \in SUBSET AnyMatch
      BY <1>1, ReplayFacts, MatchesFacts DEF Ordered
    <3>3. rate \in Run /\ EngineInv(rate.engine)
      BY <3>1 DEF SiteInv, RunIs
    <3>4. rate' \in Run /\ rate'.engine = rate.engine
      BY <3>1, <3>2, <3>3 DEF Run
    <3> QED BY <1>1, <3>1, <3>3, <3>4 DEF RunIs
  <2>3. CASE RateRow
    <3> DEFINE m == Head(rate.left)
               engine == IF Excluded(m) THEN rate.engine ELSE Add(rate.engine, m)
    <3>1. /\ rate # Null /\ ratings' = ratings /\ rate.left # <<>>
          /\ rate' = [rate EXCEPT !.left = Tail(@), !.engine = engine]
      BY <2>3 DEF RateRow
    <3>2. rate \in Run /\ EngineInv(rate.engine)
      BY <3>1 DEF SiteInv, RunIs
    <3>3. m \in AnyMatch /\ Tail(rate.left) \in Seq(AnyMatch)
      BY <3>1, <3>2 DEF Run
    <3>4. EngineInv(engine)
      BY <3>2, <3>3, AnyMatchIsMatch, AddFacts
    <3>5. engine \in Engine
      BY <3>4 DEF EngineInv
    <3> HIDE DEF engine, m
    <3>6. rate' \in Run /\ rate'.engine = engine
      BY <3>1, <3>2, <3>3, <3>5 DEF Run
    <3> QED BY <1>1, <3>1, <3>4, <3>6 DEF RunIs
  <2>4. CASE RateDies
    BY <1>1, <2>4 DEF RateDies
  <2>5. CASE RateCommits
    <3>1. rate # Null /\ rate' = Null /\ ratings' = CopyOut(Flush(rate.engine, rate.engine.week).out).copied
      BY <2>5 DEF RateCommits
    <3>2. EngineInv(rate.engine)
      BY <3>1 DEF SiteInv, RunIs
    <3> QED BY <3>1, <3>2, CommittedFacts
  <2> QED BY <2>1, <2>2, <2>3, <2>4, <2>5 DEF RatingJob
<1> QED BY <1>2, <1>3, <1>4, <1>5 DEF SiteInv, DataInv

\* What leaves the tables and the walk alone.
LEMMA AloneKeeps ==
    ASSUME SiteInv, UNCHANGED <<matches, ratings, rate, prominence, walk>>, PlanInv',
           plan'.loads = plan.loads
    PROVE  SiteInv'
BY DEF SiteInv, DataInv, MatchesInv

\* A client, at any of its steps.
LEMMA WalkKeeps ==
    ASSUME SiteInv, WalkStarts \/ WalkTakes
    PROVE  SiteInv'
<1>1. DataInv /\ PlanInv /\ (walk # Null => WalkIs(walk))
  BY DEF SiteInv, DataInv
<1>2. /\ UNCHANGED <<matches, ratings, rate, prominence>>
      /\ PlanInv' /\ plan'.loads = plan.loads
  BY <1>1, SpentFacts DEF WalkStarts, WalkTakes, PlanInv
<1>3. DataInv'
  BY <1>1, <1>2 DEF DataInv, MatchesInv
<1>4. (walk # Null => WalkIs(walk))'
  <2>1. CASE WalkStarts
    <3>1. PICK ask \in plan.asks :
              walk' = [ask |-> ask, after |-> Null, seen |-> <<>>, held |-> {}, done |-> FALSE]
      BY <2>1 DEF WalkStarts
    <3>2. plan.walks > 0
      BY <1>1, <2>1, SpentFacts DEF WalkStarts
    <3>3. Walkable(ask) /\ ask \in AnyAsk
      BY <1>1, <3>1, <3>2 DEF PlanInv
    <3>4. walk' \in ClientWalk
      BY <3>1, <3>3 DEF ClientWalk
    <3> QED BY <3>1, <3>3, <3>4 DEF WalkIs
  <2>2. CASE WalkTakes
    <3>1. /\ walk # Null /\ ~walk.done
          /\ walk' = Taking(walk, PageOf(walk.ask, walk.after, walk.ask.limit), AllKeys(walk.ask))
      BY <2>2, Zenon DEF WalkTakes, Taking
    <3>2. WalkIs(walk) /\ Walkable(walk.ask) /\ walk.ask.limit \in Nat \ {0}
      BY <1>1, <3>1 DEF WalkIs, Walkable
    <3>3. PICK full \in SUBSET Tuples(2) : \A after : \A limit \in Nat \ {0} :
              PageIs(full, after, limit, PageOf(walk.ask, after, limit))
      BY <1>1, <3>2, WalksArePaged DEF Paged
    <3>4. AllKeys(walk.ask) \in SUBSET full
      BY <3>3, AllKeysFacts
    <3>5. PageIs(full, walk.after, walk.ask.limit, PageOf(walk.ask, walk.after, walk.ask.limit))
      BY <3>2, <3>3
    <3>6. WalkIs(walk')
      BY <3>1, <3>2, <3>4, <3>5, TakingFacts
    <3> QED BY <3>6
  <2> QED BY <2>1, <2>2
<1> QED BY <1>2, <1>3, <1>4 DEF SiteInv

\* Every step of the site keeps the invariant.
LEMMA SiteStep == RatingsAreNumbers /\ SiteInv /\ [Next]_siteVars => SiteInv'
<1> SUFFICES ASSUME RatingsAreNumbers, SiteInv, [Next]_siteVars PROVE SiteInv'
  OBVIOUS
<1>1. PlanInv
  BY DEF SiteInv, DataInv
<1>2. CASE LoadCommits
  <2>1. PlanInv' /\ MatchesInv'
    BY <1>2, LoadKeeps DEF SiteInv, DataInv
  <2>2. UNCHANGED <<ratings, rate, prominence, walk>>
    BY <1>2 DEF LoadCommits
  <2> QED BY <2>1, <2>2 DEF SiteInv, DataInv
<1>3. CASE LoadRefreshes
  <2>1. prominence' \in [Players -> 1 .. 5] /\ UNCHANGED <<matches, ratings, rate, walk, plan>>
    BY <1>3, TierFacts DEF LoadRefreshes
  <2> QED BY <2>1 DEF SiteInv, DataInv, PlanInv, MatchesInv
<1>4. CASE RatingJob /\ UNCHANGED <<mirror, week, refresh, prominence, walk>>
  BY <1>4, RatingJobKeeps
<1>5. CASE \E f \in Range(Files) : Publish(f) /\ Spent("publishes")
          /\ UNCHANGED <<matches, ratings, rate, prominence, page, walk>>
  BY <1>1, <1>5, SpentFacts, AloneKeeps
<1>6. CASE \E j \in Jobs : OngoingJob(j) /\ UNCHANGED <<matches, ratings, rate, prominence, walk>>
  <2>1. Spent("polls") \/ Spent("faults") \/ plan' = plan
    BY <1>6 DEF OngoingJob
  <2>2. PlanInv' /\ plan'.loads = plan.loads
    BY <1>1, <2>1, SpentFacts DEF PlanInv
  <2> QED BY <1>6, <2>2, AloneKeeps
<1>7. CASE Ask \/ Statement \/ Respond
  <2>1. Spent("pages") \/ plan' = plan
    BY <1>7 DEF Ask, Statement, Respond
  <2>2. PlanInv' /\ plan'.loads = plan.loads
    BY <1>1, <2>1, SpentFacts DEF PlanInv
  <2>3. UNCHANGED <<matches, ratings, rate, prominence, walk>>
    BY <1>7 DEF Ask, Statement, Respond
  <2> QED BY <2>2, <2>3, AloneKeeps
<1>8. CASE WalkStarts \/ WalkTakes
  BY <1>8, WalkKeeps
<1>9. CASE UNCHANGED siteVars
  <2>1. UNCHANGED <<matches, ratings, rate, prominence, walk, plan>>
    BY <1>9 DEF siteVars
  <2> QED BY <1>1, <2>1, AloneKeeps DEF PlanInv
<1> QED BY <1>2, <1>3, <1>4, <1>5, <1>6, <1>7, <1>8, <1>9 DEF Next

\* The invariant is enough.
LEMMA SiteInvWalks == SiteInv => WalksKeepTheirPlace
<1> SUFFICES ASSUME SiteInv, walk # Null
             PROVE  /\ \A i \in 2 .. Len(walk.seen) : Precedes(walk.seen[i - 1], walk.seen[i])
                    /\ walk.done => walk.held \subseteq Range(walk.seen)
  BY DEF WalksKeepTheirPlace
<1>1. WalkIs(walk)
  BY DEF SiteInv
<1>2. walk.seen \in Seq(Tuples(2)) /\ Len(walk.seen) \in Nat
  BY <1>1 DEF WalkIs, ClientWalk
<1>3. \A i \in 2 .. Len(walk.seen) : i - 1 \in 1 .. Len(walk.seen) /\ i \in 1 .. Len(walk.seen) /\ i - 1 < i
  BY <1>2
<1> QED BY <1>1, <1>3 DEF WalkIs

\* A client that follows next_cursor sees its rows in order, none twice, and every row
\* whose key held still, whatever loads, rating runs and refreshes commit between pages.
THEOREM SpecWalksKeepTheirPlace ==
    ASSUME RatingsAreNumbers
    PROVE  Spec => []WalksKeepTheirPlace
<1>1. SiteInv /\ [Next]_siteVars => SiteInv'
  BY SiteStep
<1> QED BY <1>1, SiteStarts, SiteInvWalks, PTL DEF Spec

-----------------------------------------------------------------------------
(* That what a rating run commits is the replay.                           *)

IsRow(order, i, r) == \E k \in Fed(order[i]) : r = RowOf(order, k, Monday(order, i))

\* The engine after n of them: what it has of a series is what the replay says; it is in
\* the week of the last it rated; what it touched are the series of that week, and what it
\* emitted are the rows of the weeks before.
Follows(e, order, n) ==
    /\ \A k \in SeriesKeys : StateOf(e.series, k) = Replayed(order)[n][k]
    /\ \A i \in 1 .. n : ~Excluded(order[i]) => Monday(order, i) <= e.week
    /\ \A k : k \in e.touched <=>
          \E i \in 1 .. n : ~Excluded(order[i]) /\ Monday(order, i) = e.week /\ k \in Fed(order[i])
    /\ \A r : r \in Emitted(e.out) <=>
          \E i \in 1 .. n : ~Excluded(order[i]) /\ Monday(order, i) < e.week /\ IsRow(order, i, r)

\* The recursion of the replay has its solution.
LEMMA ReplayedStep ==
    ASSUME NEW order, Len(order) \in Nat
    PROVE  /\ Replayed(order)[0] = Unrated
           /\ \A n \in 1 .. Len(order) :
                 Replayed(order)[n] = IF Excluded(order[n]) THEN Replayed(order)[n - 1]
                                      ELSE Counted(Replayed(order)[n - 1], order[n])
<1> DEFINE Turn(t, n) == IF Excluded(order[n]) THEN t ELSE Counted(t, order[n])
           Solves(n, f) == f[0] = Unrated /\ \A i \in 1 .. n : f[i] = Turn(f[i - 1], i)
           Bad == {n \in Nat : ~ \E f : Solves(n, f)}
<1> HIDE DEF Turn
<1>1. Bad = {}
  <2> SUFFICES ASSUME Bad # {} PROVE FALSE
    OBVIOUS
  <2>1. PICK n \in Bad : \A x \in Bad : n <= x
    <3>1. Bad \subseteq Nat
      OBVIOUS
    <3> HIDE DEF Bad
    <3> QED BY <3>1, LeastNumber
  <2>2. n # 0
    <3>1. Solves(0, [i \in {0} |-> Unrated])
      OBVIOUS
    <3> QED BY <3>1
  <2>3. PICK f : Solves(n - 1, f)
    <3>1. n \in Nat /\ n - 1 \in Nat /\ ~(n <= n - 1)
      BY <2>2
    <3>2. n - 1 \notin Bad
      <4> HIDE DEF Bad
      <4> QED BY <2>1, <3>1
    <3> QED BY <3>1, <3>2
  <2> DEFINE g == [i \in 0 .. n |-> IF i = n THEN Turn(f[n - 1], n) ELSE f[i]]
  <2>4. Solves(n, g)
    <3>1. g[0] = Unrated
      BY <2>2, <2>3
    <3>2. ASSUME NEW i \in 1 .. n
          PROVE  g[i] = Turn(g[i - 1], i)
      <4>1. i - 1 \in 0 .. n /\ i - 1 # n /\ i \in 0 .. n
        OBVIOUS
      <4>2. g[i - 1] = f[i - 1]
        BY <4>1
      <4>3. CASE i = n
        BY <4>1, <4>2, <4>3
      <4>4. CASE i # n
        <5>1. i \in 1 .. (n - 1)
          BY <4>4
        <5> QED BY <2>3, <4>1, <4>2, <4>4, <5>1
      <4> QED BY <4>3, <4>4
    <3> HIDE DEF g
    <3> QED BY <3>1, <3>2
  <2> QED BY <2>4
<1>2. PICK f : Solves(Len(order), f)
  <2>1. Len(order) \notin Bad
    BY <1>1
  <2> QED BY <2>1
<1> DEFINE g == [n \in 0 .. Len(order) |-> f[n]]
           Is(h) == h = [n \in 0 .. Len(order) |->
                            IF n = 0 THEN Unrated
                            ELSE IF Excluded(order[n]) THEN h[n - 1] ELSE Counted(h[n - 1], order[n])]
<1>3. Is(g)
  <2>1. \A n \in 0 .. Len(order) :
           g[n] = IF n = 0 THEN Unrated
                  ELSE IF Excluded(order[n]) THEN g[n - 1] ELSE Counted(g[n - 1], order[n])
    <3> SUFFICES ASSUME NEW n \in 0 .. Len(order), n # 0
                 PROVE  g[n] = IF Excluded(order[n]) THEN g[n - 1] ELSE Counted(g[n - 1], order[n])
      BY <1>2
    <3>1. n \in 1 .. Len(order) /\ n - 1 \in 0 .. Len(order)
      OBVIOUS
    <3>2. f[n] = Turn(f[n - 1], n) /\ g[n] = f[n] /\ g[n - 1] = f[n - 1]
      BY <1>2, <3>1
    <3> QED BY <3>2 DEF Turn
  <2> QED BY <2>1
<1>4. Replayed(order) = CHOOSE h : Is(h)
  BY DEF Replayed
<1>5. Is(Replayed(order))
  <2> HIDE DEF Is, g
  <2> QED BY <1>3, <1>4
<1> DEFINE h == Replayed(order)
<1> HIDE DEF h
<1>6. h = [n \in 0 .. Len(order) |->
                 IF n = 0 THEN Unrated
                 ELSE IF Excluded(order[n]) THEN h[n - 1] ELSE Counted(h[n - 1], order[n])]
  BY <1>5 DEF h
<1>7. /\ h[0] = Unrated
      /\ \A n \in 1 .. Len(order) :
            h[n] = IF Excluded(order[n]) THEN h[n - 1] ELSE Counted(h[n - 1], order[n])
  <2>1. 0 \in 0 .. Len(order)
    OBVIOUS
  <2>2. h[0] = Unrated
    BY <1>6, <2>1
  <2>3. ASSUME NEW n \in 1 .. Len(order)
        PROVE  h[n] = IF Excluded(order[n]) THEN h[n - 1] ELSE Counted(h[n - 1], order[n])
    <3>1. n \in 0 .. Len(order) /\ n # 0
      OBVIOUS
    <3> QED BY <1>6, <3>1
  <2> QED BY <2>2, <2>3
<1> QED BY <1>7 DEF h

\* What is excluded moves nothing.
LEMMA ExcludedMoveNothing ==
    ASSUME NEW order, Len(order) \in Nat, NEW a \in 0 .. Len(order), NEW b \in a .. Len(order),
           \A i \in a + 1 .. b : Excluded(order[i])
    PROVE  Replayed(order)[b] = Replayed(order)[a]
<1> DEFINE h == Replayed(order)
           Bad == {n \in a .. b : h[n] # h[a]}
<1>1. \A n \in 1 .. Len(order) : Excluded(order[n]) => h[n] = h[n - 1]
  BY ReplayedStep
<1> HIDE DEF h
<1> SUFFICES ASSUME Bad # {} PROVE FALSE
  <2>1. b \in a .. b
    OBVIOUS
  <2> QED BY <2>1 DEF h
<1>2. PICK n \in Bad : \A x \in Bad : n <= x
  <2>1. Bad \subseteq Nat
    OBVIOUS
  <2> HIDE DEF Bad
  <2> QED BY <2>1, LeastNumber
<1>3. n # a /\ n \in a + 1 .. b /\ n \in 1 .. Len(order) /\ n - 1 \in a .. b /\ ~(n <= n - 1)
  OBVIOUS
<1>4. h[n - 1] = h[a]
  BY <1>2, <1>3
<1> QED BY <1>1, <1>3, <1>4

\* Every match has its Monday.
LEMMA MondaysOf == ASSUME NEW order, Ordered(order), NEW i \in 1 .. Len(order)
                   PROVE  Monday(order, i) \in Int
<1>1. order[i] \in AnyMatch
  BY DEF Ordered
<1>2. order[i].playedOn \in Int
  BY <1>1, AnyMatchIsMatch DEF IsMatch
<1> QED BY <1>2, Mondays DEF Monday

\* Where the last match of a week leaves the replay: after n matches, when what was rated
\* of them is of that week or before and the rest is later.
LEMMA WeekEnds ==
    ASSUME NEW order, Ordered(order), NEW n \in 0 .. Len(order), NEW w \in Int,
           \A i \in 1 .. n : ~Excluded(order[i]) => Monday(order, i) <= w,
           \A i \in n + 1 .. Len(order) : Monday(order, i) > w
    PROVE  Replayed(order)[WeekEnd(order, w)] = Replayed(order)[n]
<1> DEFINE E == {i \in DOMAIN order : WeekOf(order[i].playedOn) <= w}
           Late == {i \in 1 .. n : Monday(order, i) > w}
<1>1. /\ Len(order) \in Nat /\ DOMAIN order = 1 .. Len(order)
      /\ \A i \in 1 .. Len(order) : order[i] \in AnyMatch
  BY DEF Ordered
<1>2. \A i \in 1 .. Len(order) : Monday(order, i) \in Int
  <2>1. \A i \in 1 .. Len(order) : order[i].playedOn \in Int
    BY <1>1, AnyMatchIsMatch DEF IsMatch
  <2> QED BY <2>1, Mondays DEF Monday
<1>3. E = {i \in 1 .. Len(order) : Monday(order, i) <= w}
  BY <1>1 DEF Monday
<1>4. E = {i \in 1 .. n : Monday(order, i) <= w}
  <2>1. \A i \in 1 .. Len(order) : i \in 1 .. n \/ i \in n + 1 .. Len(order)
    BY <1>1
  <2>2. \A i \in 1 .. n : i \in 1 .. Len(order)
    BY <1>1
  <2> QED BY <1>2, <1>3, <2>1, <2>2
<1>5. PICK c \in 0 .. n : /\ \A i \in 1 .. c : Monday(order, i) <= w
                          /\ \A i \in c + 1 .. n : Monday(order, i) > w
  <2>1. CASE Late = {}
    <3>1. \A i \in 1 .. n : Monday(order, i) <= w
      BY <1>1, <1>2, <2>1
    <3>2. n \in 0 .. n /\ \A i \in n + 1 .. n : FALSE
      BY <1>1
    <3> QED BY <3>1, <3>2
  <2>2. CASE Late # {}
    <3>1. PICK d \in Late : \A x \in Late : d <= x
      <4>1. Late \subseteq Nat
        OBVIOUS
      <4> HIDE DEF Late
      <4> QED BY <2>2, <4>1, LeastNumber
    <3>2. d \in 1 .. n /\ Monday(order, d) > w /\ d - 1 \in 0 .. n /\ (d - 1) + 1 = d
      BY <3>1
    <3>3. ASSUME NEW i \in 1 .. d - 1 PROVE Monday(order, i) <= w
      <4>1. i \in 1 .. n /\ ~(d <= i)
        BY <3>2
      <4>2. i \notin Late
        BY <3>1, <4>1
      <4> QED BY <1>1, <1>2, <4>1, <4>2
    <3>4. ASSUME NEW i \in d .. n PROVE Monday(order, i) > w
      <4>1. i = d \/ d < i
        BY <3>2
      <4>2. d \in 1 .. Len(order) /\ i \in 1 .. Len(order)
        BY <1>1, <3>2
      <4>3. d < i => Monday(order, d) <= Monday(order, i)
        BY <4>2 DEF Ordered
      <4> QED BY <1>2, <3>2, <4>1, <4>2, <4>3
    <3> QED BY <3>2, <3>3, <3>4
  <2> QED BY <2>1, <2>2
<1>6. E = 1 .. c
  <2>1. \A i \in 1 .. n : i \in 1 .. c \/ i \in c + 1 .. n
    BY <1>1, <1>5
  <2>2. \A i \in 1 .. c : i \in 1 .. n
    BY <1>1, <1>5
  <2>3. \A i \in c + 1 .. n : ~(Monday(order, i) <= w)
    <3>1. \A i \in c + 1 .. n : i \in 1 .. Len(order)
      BY <1>1, <1>5
    <3> QED BY <1>2, <1>5, <3>1
  <2> HIDE DEF E
  <2> QED BY <1>4, <1>5, <2>1, <2>2, <2>3
<1>7. WeekEnd(order, w) = c
  <2>1. WeekEnd(order, w) = Cardinality(E)
    BY DEF WeekEnd
  <2>2. Cardinality(1 .. c) = c
    BY <1>5, FS_Interval
  <2> HIDE DEF E
  <2> QED BY <1>6, <2>1, <2>2
<1>8. \A i \in c + 1 .. n : Excluded(order[i])
  <2> TAKE i \in c + 1 .. n
  <2>1. i \in 1 .. n /\ i \in 1 .. Len(order)
    BY <1>1, <1>5
  <2> QED BY <1>2, <1>5, <2>1
<1>9. c \in 0 .. Len(order) /\ n \in c .. Len(order)
  BY <1>1, <1>5
<1> QED BY <1>1, <1>7, <1>8, <1>9, ExcludedMoveNothing

\* What a match makes of its two players in a series, and of anyone else.
Surprise(t, m, s) == 100 - Expected[t[m.winner, s].elo - t[m.loser, s].elo]
Up(t, m, s) ==
    [elo |-> t[m.winner, s].elo + Gain(t[m.winner, s].matches, For(m), Surprise(t, m, s)),
     matches |-> t[m.winner, s].matches + 1]
Down(t, m, s) ==
    [elo |-> t[m.loser, s].elo - Gain(t[m.loser, s].matches, For(m), Surprise(t, m, s)),
     matches |-> t[m.loser, s].matches + 1]
In(t, m, s, k, other) ==
    IF k = <<m.winner, s>> THEN Up(t, m, s) ELSE IF k = <<m.loser, s>> THEN Down(t, m, s) ELSE other

\* A match in one series: its two players move, by what they were worth.
LEMMA RateMoves ==
    ASSUME RatingsAreNumbers, NEW e, EngineInv(e), NEW m, m.winner \in Players, m.loser \in Players,
           m.winner # m.loser, NEW s \in Series, NEW t,
           \A k \in SeriesKeys : k[2] = s => StateOf(e.series, k) = t[k]
    PROVE  /\ \A k \in SeriesKeys :
                 StateOf(Rate(e, m, s).series, k) = In(t, m, s, k, StateOf(e.series, k))
           /\ Rate(e, m, s).touched = e.touched \cup {<<m.winner, s>>, <<m.loser, s>>}
           /\ Rate(e, m, s).out = e.out /\ Rate(e, m, s).week = e.week
<1> DEFINE won == <<m.winner, s>>
           lost == <<m.loser, s>>
           w == StateOf(e.series, won)
           l == StateOf(e.series, lost)
           by == 100 - Expected[w.elo - l.elo]
           up == [elo |-> w.elo + Gain(w.matches, For(m), by), matches |-> w.matches + 1]
           down == [elo |-> l.elo - Gain(l.matches, For(m), by), matches |-> l.matches + 1]
           Moved(state, d) == [elo |-> state.elo + d, matches |-> state.matches + 1]
           after == [k \in DOMAIN e.series \cup {won, lost} |->
                        IF k = won THEN Moved(w, Gain(w.matches, For(m), by))
                        ELSE IF k = lost THEN Moved(l, -Gain(l.matches, For(m), by))
                        ELSE e.series[k]]
<1>1. won \in SeriesKeys /\ lost \in SeriesKeys /\ won # lost /\ won[2] = s /\ lost[2] = s
  BY DEF SeriesKeys
<1>2. w = t[won] /\ l = t[lost]
  BY <1>1
<1>3. Rate(e, m, s) = [e EXCEPT !.series = after, !.touched = @ \cup {won, lost}]
  BY DEF Rate
<1>4. /\ Rate(e, m, s).series = after /\ Rate(e, m, s).touched = e.touched \cup {won, lost}
      /\ Rate(e, m, s).out = e.out /\ Rate(e, m, s).week = e.week
  <2> HIDE DEF after, won, lost
  <2> QED BY <1>3 DEF EngineInv, Engine
<1>5. PICK D \in SUBSET SeriesKeys : e.series \in [D -> State]
  BY DEF EngineInv, Engine
<1>6. l \in State
  BY <1>5 DEF StateOf, State, RatingsAreNumbers
<1>7. l.elo + (-Gain(l.matches, For(m), by)) = l.elo - Gain(l.matches, For(m), by)
  <2>1. w \in State
    BY <1>5 DEF StateOf, State, RatingsAreNumbers
  <2>2. Expected[w.elo - l.elo] \in Int /\ KOf[l.matches] \in Int
    <3> HIDE DEF w, l
    <3> QED BY <1>6, <2>1 DEF State, RatingsAreNumbers
  <2>3. For(m) \in Int
    <3>1. Weight(m) \in Int
      BY DEF Weight
    <3> QED BY <3>1 DEF For
  <2>4. Gain(l.matches, For(m), by) \in Int
    <3>1. by \in Int
      <4> HIDE DEF w, l
      <4> QED BY <2>2
    <3> HIDE DEF by, l
    <3> QED BY <2>2, <2>3, <3>1 DEF Gain
  <2>5. l.elo \in Int
    BY <1>6 DEF State
  <2> HIDE DEF l, by
  <2> QED BY <2>4, <2>5
<1> HIDE DEF won, lost, w, l, by
<1>8. \A k \in SeriesKeys : StateOf(after, k) =
         IF k = won THEN up ELSE IF k = lost THEN down ELSE StateOf(e.series, k)
  <2> TAKE k \in SeriesKeys
  <2>1. CASE k = won
    BY <2>1 DEF StateOf
  <2>2. CASE k = lost
    BY <1>1, <1>7, <2>2 DEF StateOf
  <2>3. CASE k # won /\ k # lost
    <3>1. k \in DOMAIN after <=> k \in DOMAIN e.series
      BY <2>3
    <3>2. k \in DOMAIN e.series => after[k] = e.series[k]
      BY <2>3
    <3> HIDE DEF after
    <3> QED BY <2>3, <3>1, <3>2 DEF StateOf
  <2> QED BY <2>1, <2>2, <2>3
<1> HIDE DEF after
<1>9. up = Up(t, m, s) /\ down = Down(t, m, s)
  BY <1>2 DEF by, Up, Down, Surprise, won, lost
<1> HIDE DEF up, down
<1>10. \A k \in SeriesKeys : StateOf(Rate(e, m, s).series, k) = In(t, m, s, k, StateOf(e.series, k))
  BY <1>4, <1>8, <1>9 DEF In, won, lost
<1> QED BY <1>4, <1>10 DEF won, lost

\* A match counts overall and on its surface, and the two do not meet.
Both(e, m) ==
    IF m.surface = Null THEN Rate(e, m, Overall)
    ELSE Rate(Rate(e, m, Overall), m, m.surface)

LEMMA AddCounts ==
    ASSUME RatingsAreNumbers, NEW e, EngineInv(e), NEW m, IsMatch(m), NEW t,
           \A k \in SeriesKeys : StateOf(e.series, k) = t[k]
    PROVE  /\ \A k \in SeriesKeys : StateOf(Both(e, m).series, k) = Counted(t, m)[k]
           /\ \A k : k \in Both(e, m).touched <=> k \in e.touched \/ k \in Fed(m)
           /\ Both(e, m).out = e.out /\ Both(e, m).week = e.week
<1> DEFINE rated == Rate(e, m, Overall)
           x == Both(e, m)
<1>1. /\ m.winner \in Players /\ m.loser \in Players /\ m.winner # m.loser
      /\ Overall \in Series /\ Surfaces \subseteq Series /\ Overall \notin Surfaces
      /\ m.surface # Null => m.surface \in Surfaces
  BY SeriesFacts DEF IsMatch, Surfaces, Overall
<1>2. \A k \in SeriesKeys : Counted(t, m)[k] =
         IF k \notin Fed(m) THEN t[k] ELSE IF k[1] = m.winner THEN Up(t, m, k[2]) ELSE Down(t, m, k[2])
  BY DEF Counted, SeriesKeys, Up, Down, Surprise
<1>3. /\ \A k \in SeriesKeys : StateOf(rated.series, k) = In(t, m, Overall, k, StateOf(e.series, k))
      /\ rated.touched = e.touched \cup {<<m.winner, Overall>>, <<m.loser, Overall>>}
      /\ rated.out = e.out /\ rated.week = e.week
  <2>1. \A k \in SeriesKeys : k[2] = Overall => StateOf(e.series, k) = t[k]
    OBVIOUS
  <2> HIDE DEF rated
  <2> QED BY <1>1, <2>1, RateMoves DEF rated
<1>4. EngineInv(rated)
  BY <1>1, RateFacts
<1>5. \A k \in SeriesKeys : k = <<k[1], k[2]>> /\ k[1] \in Players /\ k[2] \in Series
  BY DEF SeriesKeys
<1> HIDE DEF rated
<1>6. CASE m.surface = Null
  <2>1. x = rated
    BY <1>6 DEF rated, Both
  <2> HIDE DEF x
  <2>2. \A k : k \in Fed(m) <=> k = <<m.winner, Overall>> \/ k = <<m.loser, Overall>>
    BY <1>6 DEF Fed, Feeds
  <2>3. \A k \in SeriesKeys : In(t, m, Overall, k, StateOf(e.series, k)) = Counted(t, m)[k]
    <3> TAKE k \in SeriesKeys
    <3> USE DEF In
    <3>1. CASE k = <<m.winner, Overall>>
      <4>1. k[1] = m.winner /\ k[2] = Overall
        BY <3>1
      <4> QED BY <1>2, <2>2, <3>1, <4>1
    <3>2. CASE k = <<m.loser, Overall>>
      <4>1. k[1] # m.winner /\ k[2] = Overall
        BY <1>1, <3>2
      <4>2. k # <<m.winner, Overall>>
        BY <1>1, <3>2
      <4> QED BY <1>2, <2>2, <3>2, <4>1, <4>2
    <3>3. CASE k # <<m.winner, Overall>> /\ k # <<m.loser, Overall>>
      BY <1>2, <2>2, <3>3
    <3> QED BY <3>1, <3>2, <3>3
  <2> QED BY <1>3, <2>1, <2>2, <2>3 DEF x
<1>7. CASE m.surface # Null
  <2> DEFINE s == m.surface
  <2>1. x = Rate(rated, m, s)
    BY <1>7 DEF rated, Both
  <2> HIDE DEF x
  <2>2. s \in Series /\ s # Overall
    BY <1>1, <1>7
  <2>3. \A k \in SeriesKeys : k[2] = s => StateOf(rated.series, k) = t[k]
    <3> TAKE k \in SeriesKeys
    <3>1. k[2] = s => k # <<m.winner, Overall>> /\ k # <<m.loser, Overall>>
      BY <2>2
    <3> QED BY <1>3, <3>1 DEF In
  <2>4. /\ \A k \in SeriesKeys : StateOf(x.series, k) = In(t, m, s, k, StateOf(rated.series, k))
        /\ x.touched = rated.touched \cup {<<m.winner, s>>, <<m.loser, s>>}
        /\ x.out = rated.out /\ x.week = rated.week
    <3> HIDE DEF s
    <3> QED BY <1>1, <1>4, <2>1, <2>2, <2>3, RateMoves
  <2>5. \A k : k \in Fed(m) <=> \/ k = <<m.winner, Overall>> \/ k = <<m.loser, Overall>>
                               \/ k = <<m.winner, s>> \/ k = <<m.loser, s>>
    BY <1>7 DEF Fed, Feeds
  <2> HIDE DEF s
  <2>6. \A k \in SeriesKeys : StateOf(x.series, k) = Counted(t, m)[k]
    <3> TAKE k \in SeriesKeys
    <3> USE DEF In
    <3>1. CASE k = <<m.winner, s>>
      <4>1. k[1] = m.winner /\ k[2] = s
        BY <3>1
      <4> QED BY <1>2, <2>4, <2>5, <3>1, <4>1
    <3>2. CASE k = <<m.loser, s>>
      <4>1. k[1] # m.winner /\ k[2] = s /\ k # <<m.winner, s>>
        BY <1>1, <3>2
      <4> QED BY <1>2, <2>4, <2>5, <3>2, <4>1
    <3>3. CASE k = <<m.winner, Overall>>
      <4>1. k[1] = m.winner /\ k[2] = Overall /\ k # <<m.winner, s>> /\ k # <<m.loser, s>>
        BY <2>2, <3>3
      <4> QED BY <1>2, <1>3, <2>4, <2>5, <3>3, <4>1
    <3>4. CASE k = <<m.loser, Overall>>
      <4>1. /\ k[1] # m.winner /\ k[2] = Overall /\ k # <<m.winner, s>> /\ k # <<m.loser, s>>
            /\ k # <<m.winner, Overall>>
        BY <1>1, <2>2, <3>4
      <4> QED BY <1>2, <1>3, <2>4, <2>5, <3>4, <4>1
    <3>5. CASE k # <<m.winner, s>> /\ k # <<m.loser, s>> /\ k # <<m.winner, Overall>> /\ k # <<m.loser, Overall>>
      BY <1>2, <1>3, <2>4, <2>5, <3>5
    <3> QED BY <3>1, <3>2, <3>3, <3>4, <3>5
  <2> QED BY <1>3, <2>4, <2>5, <2>6 DEF x
<1> QED BY <1>6, <1>7

\* A week that closes leaves its rows: when it is over, each is what the replay says.
LEMMA FlushFollows ==
    ASSUME NEW order, Ordered(order), NEW n \in 0 .. Len(order), NEW e, EngineInv(e),
           Follows(e, order, n), \A i \in n + 1 .. Len(order) : Monday(order, i) > e.week,
           NEW w \in Int
    PROVE  \A r : r \in Emitted(Flush(e, w).out) <=>
              \E i \in 1 .. n : ~Excluded(order[i]) /\ Monday(order, i) <= e.week /\ IsRow(order, i, r)
<1> DEFINE rows == Snapshots(e, e.week)
           Row(k) == [player |-> k[1], series |-> k[2], asOf |-> e.week,
                      elo |-> e.series[k].elo, matches |-> e.series[k].matches]
<1>1. /\ e.week \in Int /\ e.out \in [buf : Seq(Snapshot), copied : SUBSET Snapshot]
      /\ e \in Engine
  BY DEF EngineInv, Engine
<1>2. rows \in Seq(Snapshot)
  BY <1>1, SnapshotsFacts
<1>3. Flush(e, w).out = Emit(e.out, rows)
  BY <1>1 DEF Flush, Engine
<1>4. \A r : r \in Emitted(Flush(e, w).out) <=> r \in Emitted(e.out) \/ r \in Range(rows)
  <2> HIDE DEF rows
  <2> QED BY <1>1, <1>2, <1>3, EmitFacts
<1>5. Replayed(order)[WeekEnd(order, e.week)] = Replayed(order)[n]
  BY <1>1, WeekEnds DEF Follows
<1>6. \A r : r \in Range(rows) <=> \E k \in e.touched : r = RowOf(order, k, e.week)
  <2>1. \A k \in e.touched : k \in SeriesKeys /\ e.series[k] = Replayed(order)[n][k]
    <3>1. e.touched \subseteq SeriesKeys /\ e.touched \subseteq DOMAIN e.series
      BY <1>1 DEF EngineInv, Engine
    <3>2. \A k \in e.touched : StateOf(e.series, k) = e.series[k]
      BY <3>1 DEF StateOf
    <3> QED BY <3>1, <3>2 DEF Follows
  <2>2. \A k \in e.touched : RowOf(order, k, e.week) = Row(k)
    BY <1>5, <2>1 DEF RowOf
  <2>3. \A r : r \in Range(rows) <=> \E k \in e.touched : r = Row(k)
    BY <1>1, SnapshotsFacts
  <2> HIDE DEF rows, Row
  <2> QED BY <2>2, <2>3
<1> HIDE DEF rows
<1>7. \A r : (\E k \in e.touched : r = RowOf(order, k, e.week)) <=>
         \E i \in 1 .. n : ~Excluded(order[i]) /\ Monday(order, i) = e.week /\ IsRow(order, i, r)
  <2> TAKE r
  <2>1. ASSUME NEW k \in e.touched, r = RowOf(order, k, e.week)
        PROVE  \E i \in 1 .. n : ~Excluded(order[i]) /\ Monday(order, i) = e.week /\ IsRow(order, i, r)
    <3>1. PICK i \in 1 .. n : ~Excluded(order[i]) /\ Monday(order, i) = e.week /\ k \in Fed(order[i])
      BY DEF Follows
    <3>2. IsRow(order, i, r)
      BY <2>1, <3>1 DEF IsRow
    <3> QED BY <3>1, <3>2
  <2>2. ASSUME NEW i \in 1 .. n, ~Excluded(order[i]), Monday(order, i) = e.week, IsRow(order, i, r)
        PROVE  \E k \in e.touched : r = RowOf(order, k, e.week)
    <3>1. PICK k \in Fed(order[i]) : r = RowOf(order, k, e.week)
      BY <2>2 DEF IsRow
    <3>2. k \in e.touched
      BY <2>2, <3>1 DEF Follows
    <3> QED BY <3>1, <3>2
  <2> QED BY <2>1, <2>2
<1>8. \A r : r \in Emitted(e.out) <=>
         \E i \in 1 .. n : ~Excluded(order[i]) /\ Monday(order, i) < e.week /\ IsRow(order, i, r)
  BY DEF Follows
<1>9. \A i \in 1 .. n : Monday(order, i) \in Int
  <2>1. \A i \in 1 .. n : i \in 1 .. Len(order)
    BY DEF Ordered
  <2> QED BY <2>1, MondaysOf
<1>10. ASSUME NEW r
       PROVE  r \in Emitted(Flush(e, w).out) <=>
                \E i \in 1 .. n : ~Excluded(order[i]) /\ Monday(order, i) <= e.week /\ IsRow(order, i, r)
  <2>1. \A i \in 1 .. n : Monday(order, i) <= e.week <=> Monday(order, i) < e.week \/ Monday(order, i) = e.week
    BY <1>1, <1>9
  <2>2. r \in Emitted(Flush(e, w).out) <=> r \in Emitted(e.out) \/ r \in Range(rows)
    BY <1>4
  <2>3. r \in Range(rows) <=>
          \E i \in 1 .. n : ~Excluded(order[i]) /\ Monday(order, i) = e.week /\ IsRow(order, i, r)
    BY <1>6, <1>7
  <2>4. r \in Emitted(e.out) <=>
          \E i \in 1 .. n : ~Excluded(order[i]) /\ Monday(order, i) < e.week /\ IsRow(order, i, r)
    BY <1>8
  <2> QED BY <2>1, <2>2, <2>3, <2>4
<1> QED BY <1>10

\* A match that is excluded changes nothing.
LEMMA SkipFollows ==
    ASSUME NEW order, Ordered(order), NEW n \in 0 .. Len(order) - 1, NEW e,
           Follows(e, order, n), Excluded(order[n + 1])
    PROVE  Follows(e, order, n + 1)
<1>1. Len(order) \in Nat /\ n + 1 \in 1 .. Len(order) /\ (n + 1) - 1 = n
  BY DEF Ordered
<1>2. Replayed(order)[n + 1] = Replayed(order)[n]
  BY <1>1, ReplayedStep
<1>3. \A i : i \in 1 .. n + 1 /\ ~Excluded(order[i]) <=> i \in 1 .. n /\ ~Excluded(order[i])
  <2>1. \A i : i \in 1 .. n + 1 <=> i \in 1 .. n \/ i = n + 1
    BY <1>1
  <2> QED BY <2>1
<1> QED BY <1>2, <1>3 DEF Follows

\* A match that is rated moves its series, after the week before it has closed.
LEMMA AddFollows ==
    ASSUME RatingsAreNumbers, NEW order, Ordered(order), NEW n \in 0 .. Len(order) - 1,
           NEW e, EngineInv(e), Follows(e, order, n),
           ~Excluded(order[n + 1]), Monday(order, n + 1) >= e.week
    PROVE  Follows(Add(e, order[n + 1]), order, n + 1)
<1> DEFINE m == order[n + 1]
           monday == Monday(order, n + 1)
           opened == IF monday > e.week THEN Flush(e, monday) ELSE e
           x == Add(e, m)
<1>1. Len(order) \in Nat /\ n + 1 \in 1 .. Len(order) /\ (n + 1) - 1 = n /\ IsMatch(m) /\ n \in 0 .. Len(order)
  <2>1. Len(order) \in Nat /\ n + 1 \in 1 .. Len(order)
    BY DEF Ordered
  <2>2. order[n + 1] \in AnyMatch
    BY <2>1 DEF Ordered
  <2> QED BY <2>1, <2>2, AnyMatchIsMatch
<1>2. monday \in Int /\ e.week \in Int /\ \A i \in 1 .. n + 1 : Monday(order, i) \in Int
  <2>1. \A i \in 1 .. n + 1 : i \in 1 .. Len(order)
    BY <1>1
  <2> QED BY <1>1, <2>1, MondaysOf DEF EngineInv, Engine
<1>3. \A i \in 1 .. n + 1 : i \in 1 .. n \/ i = n + 1
  BY <1>1
<1>4. \A i \in 1 .. n : i \in 1 .. n + 1 /\ Monday(order, i) <= monday
  <2>1. \A i \in 1 .. n : i \in 1 .. n + 1 /\ i \in 1 .. Len(order) /\ i < n + 1
    BY <1>1
  <2> QED BY <1>1, <2>1 DEF Ordered
<1>5. /\ EngineInv(opened) /\ opened.series = e.series /\ opened.week = monday
      /\ \A k : k \in opened.touched <=>
            \E i \in 1 .. n : ~Excluded(order[i]) /\ Monday(order, i) = monday /\ k \in Fed(order[i])
      /\ \A r : r \in Emitted(opened.out) <=>
            \E i \in 1 .. n : ~Excluded(order[i]) /\ Monday(order, i) < monday /\ IsRow(order, i, r)
  <2>1. CASE monday > e.week
    <3>1. opened = Flush(e, monday)
      BY <2>1
    <3> HIDE DEF monday
    <3>2. /\ opened \in Engine /\ opened.series = e.series /\ opened.touched = {} /\ opened.week = monday
          /\ TableInv(Emitted(opened.out)) /\ \A r \in Emitted(opened.out) : r.asOf <= e.week
      BY <1>2, <3>1, FlushFacts
    <3>3. EngineInv(opened)
      <4>1. \A r \in Emitted(opened.out) : r.asOf \in Int
        BY <3>2 DEF TableInv, Snapshot
      <4>2. \A r \in Emitted(opened.out) : r.asOf < opened.week
        BY <1>2, <2>1, <3>2, <4>1
      <4> HIDE DEF opened
      <4> QED BY <3>2, <4>2 DEF EngineInv
    <3>4. \A i \in 1 .. n : ~Excluded(order[i]) => Monday(order, i) <= e.week
      BY DEF Follows
    <3>5. \A i \in 1 .. n : ~Excluded(order[i]) => Monday(order, i) < monday
      BY <1>2, <1>4, <2>1, <3>4
    <3>6. \A i \in n + 1 .. Len(order) : Monday(order, i) > e.week
      <4> TAKE i \in n + 1 .. Len(order)
      <4>1. i \in 1 .. Len(order) /\ (i = n + 1 \/ n + 1 < i)
        BY <1>1
      <4>2. Monday(order, i) \in Int
        BY <4>1, MondaysOf
      <4>3. n + 1 < i => monday <= Monday(order, i)
        BY <1>1, <4>1 DEF Ordered, monday
      <4>4. i = n + 1 => monday = Monday(order, i)
        BY DEF monday
      <4> QED BY <1>2, <2>1, <4>1, <4>2, <4>3, <4>4
    <3>7. \A r : r \in Emitted(opened.out) <=>
             \E i \in 1 .. n : ~Excluded(order[i]) /\ Monday(order, i) <= e.week /\ IsRow(order, i, r)
      <4> HIDE DEF opened
      <4> QED BY <1>1, <1>2, <3>1, <3>6, FlushFollows
    <3>8. \A i \in 1 .. n : ~Excluded(order[i]) => Monday(order, i) # monday
      BY <1>2, <1>4, <3>5
    <3> HIDE DEF opened
    <3> QED BY <3>2, <3>3, <3>4, <3>5, <3>7, <3>8
  <2>2. CASE ~(monday > e.week)
    <3>1. opened = e /\ monday = e.week
      BY <1>2, <2>2
    <3> HIDE DEF opened, monday
    <3> QED BY <3>1 DEF Follows
  <2> QED BY <2>1, <2>2
<1>6. x = Both(opened, m)
  BY DEF Add, Monday, Both
<1> HIDE DEF opened, x, monday, m
<1>7. /\ \A k \in SeriesKeys : StateOf(x.series, k) = Counted(Replayed(order)[n], m)[k]
      /\ \A k : k \in x.touched <=> k \in opened.touched \/ k \in Fed(m)
      /\ x.out = opened.out /\ x.week = monday
  <2>1. \A k \in SeriesKeys : StateOf(opened.series, k) = Replayed(order)[n][k]
    BY <1>5 DEF Follows
  <2> DEFINE t == Replayed(order)[n]
  <2> HIDE DEF t
  <2>2. \A k \in SeriesKeys : StateOf(opened.series, k) = t[k]
    BY <2>1 DEF t
  <2>3. /\ \A k \in SeriesKeys : StateOf(x.series, k) = Counted(t, m)[k]
        /\ \A k : k \in x.touched <=> k \in opened.touched \/ k \in Fed(m)
        /\ x.out = opened.out /\ x.week = opened.week
    <3>1. EngineInv(opened) /\ IsMatch(m)
      BY <1>1, <1>5
    <3>2. /\ \A k \in SeriesKeys : StateOf(Both(opened, m).series, k) = Counted(t, m)[k]
          /\ \A k : k \in Both(opened, m).touched <=> k \in opened.touched \/ k \in Fed(m)
          /\ Both(opened, m).out = opened.out /\ Both(opened, m).week = opened.week
      BY <2>2, <3>1, AddCounts
    <3> QED BY <1>6, <3>2
  <2> QED BY <1>5, <2>3 DEF t
<1>8. Replayed(order)[n + 1] = Counted(Replayed(order)[n], m)
  BY <1>1, ReplayedStep DEF m
<1>9. \A k \in SeriesKeys : StateOf(x.series, k) = Replayed(order)[n + 1][k]
  BY <1>7, <1>8
<1>10. \A i \in 1 .. n + 1 : ~Excluded(order[i]) => Monday(order, i) <= x.week
  BY <1>2, <1>3, <1>4, <1>7 DEF monday
<1>11. ASSUME NEW k
       PROVE  k \in x.touched <=> \E i \in 1 .. n + 1 :
                 ~Excluded(order[i]) /\ Monday(order, i) = x.week /\ k \in Fed(order[i])
  <2>1. k \in x.touched <=> k \in opened.touched \/ k \in Fed(m)
    BY <1>7
  <2>2. k \in opened.touched <=> \E i \in 1 .. n :
           ~Excluded(order[i]) /\ Monday(order, i) = monday /\ k \in Fed(order[i])
    BY <1>5
  <2>3. n + 1 \in 1 .. n + 1 /\ ~Excluded(order[n + 1]) /\ Monday(order, n + 1) = monday /\ order[n + 1] = m
    BY <1>1 DEF m, monday
  <2> QED BY <1>3, <1>4, <1>7, <2>1, <2>2, <2>3
<1>12. ASSUME NEW r
       PROVE  r \in Emitted(x.out) <=> \E i \in 1 .. n + 1 :
                 ~Excluded(order[i]) /\ Monday(order, i) < x.week /\ IsRow(order, i, r)
  <2>1. r \in Emitted(x.out) <=> \E i \in 1 .. n :
           ~Excluded(order[i]) /\ Monday(order, i) < monday /\ IsRow(order, i, r)
    BY <1>5, <1>7
  <2>2. ~(Monday(order, n + 1) < monday)
    BY <1>2 DEF monday
  <2> QED BY <1>3, <1>4, <1>7, <2>1, <2>2
<1> QED BY <1>9, <1>10, <1>11, <1>12 DEF Follows, x, m

\* What a run commits: the rows of every week.
LEMMA CommitFollows ==
    ASSUME NEW rows, NEW order, order = ReplayOrder(rows), Ordered(order),
           NEW e, EngineInv(e), Follows(e, order, Len(order))
    PROVE  CopyOut(Flush(e, e.week).out).copied = TableOf(rows)
<1> DEFINE n == Len(order)
           done == Emitted(Flush(e, e.week).out)
<1>1. n \in Nat /\ n \in 0 .. n /\ DOMAIN order = 1 .. n /\ e.week \in Int
  BY DEF Ordered, EngineInv, Engine
<1>2. \A i \in n + 1 .. n : FALSE
  BY <1>1
<1>3. \A r : r \in done <=>
         \E i \in 1 .. n : ~Excluded(order[i]) /\ Monday(order, i) <= e.week /\ IsRow(order, i, r)
  BY <1>1, <1>2, FlushFollows
<1>4. \A i \in 1 .. n : ~Excluded(order[i]) => Monday(order, i) <= e.week
  BY DEF Follows
<1>5. CopyOut(Flush(e, e.week).out).copied = done
  BY DEF CopyOut, Emitted
<1>6. TableOf(rows) = UNION {{RowOf(order, k, Monday(order, i)) : k \in Fed(order[i])} :
                             i \in {j \in DOMAIN order : ~Excluded(order[j])}}
  BY DEF TableOf, Monday
<1>7. \A r : r \in TableOf(rows) <=> \E i \in 1 .. n : ~Excluded(order[i]) /\ IsRow(order, i, r)
  BY <1>1, <1>6 DEF IsRow
<1> HIDE DEF done, n
<1>8. \A r : r \in done <=> r \in TableOf(rows)
  BY <1>3, <1>4, <1>7
<1> QED BY <1>5, <1>8

\* A run at its rows: those it read, of which it has the rest before it.
ReplayIs(r) ==
    /\ r.at = "truncated" => r.left = <<>> /\ r.engine = NewEngine
    /\ r.at = "replaying" =>
          LET order == ReplayOrder(r.from)
          IN /\ Ordered(order) /\ Len(r.left) <= Len(order)
             /\ \A i \in 1 .. Len(r.left) : r.left[i] = order[Len(order) - Len(r.left) + i]
             /\ Follows(r.engine, order, Len(order) - Len(r.left))
RatesInv == rate # Null => ReplayIs(rate)

\* Before any match nobody is rated.
LEMMA NewFollows ==
    ASSUME NEW order, Ordered(order)
    PROVE  Follows(NewEngine, order, 0)
<1>1. Replayed(order)[0] = Unrated
  BY ReplayedStep DEF Ordered
<1>2. \A k \in SeriesKeys : Unrated[k] = [elo |-> Base, matches |-> 0]
  BY DEF Unrated, SeriesKeys
<1>3. /\ NewEngine.series = <<>> /\ NewEngine.touched = {}
      /\ NewEngine.out = [buf |-> <<>>, copied |-> {}]
  BY DEF NewEngine
<1>4. \A k \in SeriesKeys : k \notin DOMAIN NewEngine.series
  BY <1>3 DEF SeriesKeys
<1>5. \A k \in SeriesKeys : StateOf(NewEngine.series, k) = Replayed(order)[0][k]
  BY <1>1, <1>2, <1>4 DEF StateOf
<1>6. Emitted(NewEngine.out) = {}
  BY <1>3 DEF Emitted, Range
<1>7. \A i \in 1 .. 0 : FALSE
  OBVIOUS
<1> QED BY <1>3, <1>5, <1>6, <1>7 DEF Follows

\* A run goes through its rows in turn, and commits when it is through.
LEMMA RatesStep ==
    ASSUME RatingsAreNumbers, SiteInv, RatesInv, [Next]_siteVars
    PROVE  /\ RatesInv'
           /\ ratings' # ratings => rate # Null /\ ratings' = TableOf(rate.from)
<1>1. CASE UNCHANGED <<rate, ratings>>
  BY <1>1 DEF RatesInv, ReplayIs
<1>2. CASE RateTruncates
  <2>1. rate' = [at |-> "truncated", from |-> {}, left |-> <<>>, engine |-> NewEngine]
        /\ UNCHANGED ratings
    BY <1>2 DEF RateTruncates
  <2> QED BY <2>1 DEF RatesInv, ReplayIs
<1>3. CASE RateReads
  <2> DEFINE order == ReplayOrder(matches)
  <2>1. /\ rate # Null /\ rate.at = "truncated" /\ UNCHANGED ratings
        /\ rate' = [rate EXCEPT !.at = "replaying", !.from = matches, !.left = order]
    BY <1>3 DEF RateReads
  <2>2. rate \in Run /\ rate.engine = NewEngine
    BY <2>1 DEF SiteInv, RunIs, RatesInv, ReplayIs
  <2>3. /\ rate'.at = "replaying" /\ rate'.from = matches /\ rate'.left = order
        /\ rate'.engine = NewEngine
    <3> HIDE DEF order
    <3> QED BY <2>1, <2>2 DEF Run
  <2>4. Ordered(order)
    BY ReplayFacts DEF SiteInv, DataInv
  <2>5. Follows(NewEngine, order, 0)
    BY <2>4, NewFollows
  <2>6. Len(order) \in Nat
    BY <2>4 DEF Ordered
  <2>7. order = ReplayOrder(rate'.from)
    BY <2>3
  <2> HIDE DEF order
  <2>8. Len(order) - Len(order) = 0 /\ Len(order) <= Len(order)
        /\ \A i \in 1 .. Len(order) : order[i] = order[Len(order) - Len(order) + i]
    BY <2>6
  <2>9. ReplayIs(rate')
    BY <2>3, <2>4, <2>5, <2>7, <2>8 DEF ReplayIs
  <2> QED BY <2>1, <2>9 DEF RatesInv
<1>4. CASE RateRow
  <2> DEFINE order == ReplayOrder(rate.from)
             m == Head(rate.left)
             n == Len(order) - Len(rate.left)
             x == IF Excluded(m) THEN rate.engine ELSE Add(rate.engine, m)
  <2>1. /\ rate # Null /\ rate.left # <<>> /\ UNCHANGED ratings
        /\ Excluded(m) \/ WeekOf(m.playedOn) >= rate.engine.week
        /\ rate' = [rate EXCEPT !.left = Tail(@), !.engine = x]
    BY <1>4 DEF RateRow
  <2>2. rate \in Run /\ EngineInv(rate.engine)
    BY <2>1 DEF SiteInv, RunIs
  <2>3. rate.at = "replaying"
    BY <2>1, <2>2 DEF RatesInv, ReplayIs, Run
  <2>4. /\ Ordered(order) /\ Len(rate.left) <= Len(order)
        /\ \A i \in 1 .. Len(rate.left) : rate.left[i] = order[n + i]
        /\ Follows(rate.engine, order, n)
    BY <2>1, <2>3 DEF RatesInv, ReplayIs
  <2>5. /\ rate'.at = rate.at /\ rate'.from = rate.from /\ rate'.left = Tail(rate.left)
        /\ rate'.engine = x
    <3> HIDE DEF x
    <3> QED BY <2>1, <2>2 DEF Run
  <2>6. /\ rate.left \in Seq(AnyMatch) /\ Len(order) \in Nat /\ Len(rate.left) \in Nat \ {0}
    <3>1. rate.left \in Seq(AnyMatch)
      BY <2>2 DEF Run
    <3>2. Len(rate.left) \in Nat \ {0}
      BY <2>1, <3>1
    <3> QED BY <2>4, <3>1, <3>2 DEF Ordered
  <2>7. order = ReplayOrder(rate'.from)
    BY <2>5
  <2> HIDE DEF order
  <2>8. n \in 0 .. Len(order) - 1 /\ m = order[n + 1]
    <3>1. m = rate.left[1] /\ 1 \in 1 .. Len(rate.left)
      BY <2>6
    <3>2. n \in 0 .. Len(order) - 1
      BY <2>4, <2>6
    <3> QED BY <2>4, <3>1, <3>2
  <2>9. Follows(x, order, n + 1)
    <3>1. CASE Excluded(m)
      BY <2>4, <2>8, <3>1, SkipFollows
    <3>2. CASE ~Excluded(m)
      <4>1. Monday(order, n + 1) >= rate.engine.week
        BY <2>1, <2>8, <3>2 DEF Monday
      <4>2. Follows(Add(rate.engine, order[n + 1]), order, n + 1)
        BY <2>2, <2>4, <2>8, <3>2, <4>1, AddFollows
      <4> QED BY <2>8, <3>2, <4>2
    <3> QED BY <3>1, <3>2
  <2>10. /\ Len(Tail(rate.left)) = Len(rate.left) - 1
         /\ \A i \in 1 .. Len(rate.left) - 1 : Tail(rate.left)[i] = rate.left[i + 1]
    BY <2>6
  <2>11. Len(order) - Len(rate'.left) = n + 1 /\ Len(rate'.left) <= Len(order)
    <3>1. Len(rate'.left) = Len(rate.left) - 1
      BY <2>5, <2>10
    <3>2. Len(rate.left) <= Len(order)
      BY <2>4
    <3> HIDE DEF m, x
    <3> QED BY <2>6, <3>1, <3>2
  <2>12. ASSUME NEW i \in 1 .. Len(rate'.left)
         PROVE  rate'.left[i] = order[(n + 1) + i]
    <3>1. i \in 1 .. Len(rate.left) - 1 /\ i + 1 \in 1 .. Len(rate.left) /\ n + (i + 1) = (n + 1) + i
      BY <2>5, <2>6, <2>8, <2>10
    <3> QED BY <2>4, <2>5, <2>10, <3>1
  <2> HIDE DEF n, m, x
  <2>13. ReplayIs(rate')
    <3>1. rate'.at # "truncated"
      BY <2>3, <2>5
    <3> QED BY <2>4, <2>5, <2>7, <2>9, <2>11, <2>12, <3>1 DEF ReplayIs
  <2> QED BY <2>1, <2>13 DEF RatesInv
<1>5. CASE RateDies
  BY <1>5 DEF RateDies, RatesInv
<1>6. CASE RateCommits
  <2> DEFINE order == ReplayOrder(rate.from)
  <2>1. /\ rate # Null /\ rate.at = "replaying" /\ rate.left = <<>> /\ rate' = Null
        /\ ratings' = CopyOut(Flush(rate.engine, rate.engine.week).out).copied
    BY <1>6 DEF RateCommits
  <2>2. EngineInv(rate.engine)
    BY <2>1 DEF SiteInv, RunIs
  <2>3. Ordered(order) /\ Follows(rate.engine, order, Len(order) - Len(rate.left))
    BY <2>1 DEF RatesInv, ReplayIs
  <2>4. Len(order) - Len(rate.left) = Len(order)
    <3>1. Len(rate.left) = 0
      BY <2>1
    <3>2. Len(order) \in Nat
      BY <2>3 DEF Ordered
    <3> QED BY <3>1, <3>2
  <2>5. ratings' = TableOf(rate.from)
    <3> HIDE DEF order
    <3>1. order = ReplayOrder(rate.from)
      BY DEF order
    <3> QED BY <2>1, <2>2, <2>3, <2>4, <3>1, CommitFollows
  <2> QED BY <2>1, <2>5 DEF RatesInv
<1>7. \/ UNCHANGED <<rate, ratings>>
      \/ RateTruncates \/ RateReads \/ RateRow \/ RateDies \/ RateCommits
  BY DEF Next, RatingJob, LoadCommits, LoadRefreshes, Ask, Statement, Respond, WalkStarts, WalkTakes,
         siteVars
<1> QED BY <1>1, <1>2, <1>3, <1>4, <1>5, <1>6, <1>7

\* "Run recomputes every rating from scratch": the table changes only to the replay of the
\* matches a run read, whole: of every series what it was worth after the last match of
\* each week it moved in, whatever is loaded, killed or cancelled meanwhile.
THEOREM CommittedRatingsAreTheReplay ==
    ASSUME RatingsAreNumbers
    PROVE  Spec => RatingsFollowReplay
<1>1. SiteInv /\ [Next]_siteVars => SiteInv'
  BY SiteStep
<1>2. SiteInv /\ RatesInv /\ [Next]_siteVars =>
         RatesInv' /\ (ratings' # ratings => rate # Null /\ ratings' = TableOf(rate.from))
  BY RatesStep
<1>3. Init => RatesInv
  BY DEF Init, RatingInit, RatesInv
<1> QED BY <1>1, <1>2, <1>3, SiteStarts, PTL DEF Spec, RatingsFollowReplay

=============================================================================
