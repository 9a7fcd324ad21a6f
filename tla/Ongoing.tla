-------------------------------- MODULE Ongoing --------------------------------
(* cmd/ongoing: this week's provisional results, two files of a mirror, each  *)
(* replaced in a transaction of its own by a job that runs every hour, and    *)
(* that an operator may also start by hand while another is running.          *)
EXTENDS SiteData

CONSTANTS
    Files,         \* the tours' files, a sequence
    Published,     \* file -> the versions its mirror publishes, in order
    Jobs           \* refreshers that may run at once

\* A version: the rows of the file that are kept, each of a tournament and a
\* number; whether one comes twice, which the table's key refuses; and whether
\* the mirror gave it an ETag. What has none is saved with NULL beside its rows.
KeyOf(row) == <<row.tourney, row.num>>
ASSUME OngoingAssumption ==
    /\ Files \in Seq(Range(Files)) /\ Files # <<>>
    /\ \A f \in Range(Files) :
        /\ Published[f] \in Seq(Range(Published[f])) /\ Published[f] # <<>>
        /\ \A v \in Range(Published[f]) : \A r, s \in v.rows :
              KeyOf(r) = KeyOf(s) /\ ~v.twice => r = s

VARIABLES
    mirror,        \* file -> version published
    week,          \* file -> [rows, tag, alone], committed
    refresh        \* job -> Null, or where its run stands

ongoingVars == <<mirror, week, refresh>>

Nothing == 0       \* no tag: the file was never saved, or came without an ETag
VersionOf(file, tag) == Published[file][tag]
TagOf(file, n) == IF VersionOf(file, n).tagged THEN n ELSE Nothing

OngoingInit ==
    /\ mirror = [f \in Range(Files) |-> 1]
    /\ week = [f \in Range(Files) |-> [rows |-> {}, tag |-> Nothing, alone |-> TRUE]]
    /\ refresh = [j \in Jobs |-> Null]

Publish(file) ==
    /\ mirror[file] < Len(Published[file])
    /\ mirror' = [mirror EXCEPT ![file] = @ + 1]
    /\ UNCHANGED <<week, refresh>>

\* A job takes the files in order, whatever became of the one before.
FileOf(j) == Files[refresh[j].next]
StartsAt(n) == [at |-> "asking", next |-> n, body |-> Nothing, doomed |-> {}, seen |-> Nothing,
                alone |-> TRUE]
After(j) == IF refresh[j].next = Len(Files) THEN Null
            ELSE StartsAt(refresh[j].next + 1)
RefreshStarts(j) ==
    /\ refresh[j] = Null
    /\ refresh' = [refresh EXCEPT ![j] = StartsAt(1)]
    /\ UNCHANGED <<mirror, week>>

\* GetOngoingFile: the validator the request will carry
ReadTag(j) ==
    /\ refresh[j] # Null /\ refresh[j].at = "asking"
    /\ refresh' = [refresh EXCEPT ![j].at = "fetching", ![j].seen = week[FileOf(j)].tag]
    /\ UNCHANGED <<mirror, week>>

\* Not modified: only checked_at is written. Otherwise the body is read, and a
\* fetch or a read that fails gives the file up.
Fetch(j) ==
    /\ refresh[j] # Null /\ refresh[j].at = "fetching"
    /\ \/ mirror[FileOf(j)] = refresh[j].seen /\ refresh' = [refresh EXCEPT ![j] = After(j)]
       \/ /\ mirror[FileOf(j)] # refresh[j].seen
          /\ refresh' = [refresh EXCEPT ![j].at = "replacing", ![j].body = mirror[FileOf(j)]]
    /\ UNCHANGED <<mirror, week>>
FetchFails(j) ==
    /\ refresh[j] # Null /\ refresh[j].at = "fetching"
    /\ refresh' = [refresh EXCEPT ![j] = After(j)]
    /\ UNCHANGED <<mirror, week>>

\* DeleteOngoingMatches deletes the rows committed when it starts. Ones that
\* another transaction has deleted make it wait, and it then passes over them:
\* doomed keeps those still there, and a row put in since is not one of them.
Delete(j) ==
    /\ refresh[j] # Null /\ refresh[j].at = "replacing"
    /\ refresh' = [refresh EXCEPT ![j].at = "deleting", ![j].doomed = week[FileOf(j)].rows,
                                  ![j].alone = TRUE]
    /\ UNCHANGED <<mirror, week>>
Locked(j) == \E k \in Jobs \ {j} :
    /\ refresh[k] # Null /\ refresh[k].at = "inserting" /\ FileOf(k) = FileOf(j)
    /\ refresh[k].doomed \cap refresh[j].doomed # {}
Deleted(j) ==
    /\ refresh[j] # Null /\ refresh[j].at = "deleting" /\ ~Locked(j)
    /\ refresh' = [refresh EXCEPT ![j].at = "inserting"]
    /\ UNCHANGED <<mirror, week>>

\* The inserts and the tag, committed together; a key already there fails them.
Left(j) == week[FileOf(j)].rows \ refresh[j].doomed
Taken(j) ==
    LET version == VersionOf(FileOf(j), refresh[j].body)
    IN \/ version.twice
       \/ {KeyOf(r) : r \in Left(j)} \cap {KeyOf(r) : r \in version.rows} # {}
Refused(j) == refresh[j].at = "inserting" /\ Taken(j)
ReplacedLate(j) == \* a plausible slip: the tag of the file as it is by now
    [rows |-> Left(j) \cup VersionOf(FileOf(j), refresh[j].body).rows,
     tag |-> TagOf(FileOf(j), mirror[FileOf(j)]), alone |-> refresh[j].alone]
Replaced(j) == \* alone: no other commit of the file came since the delete began
    [rows |-> Left(j) \cup VersionOf(FileOf(j), refresh[j].body).rows,
     tag |-> TagOf(FileOf(j), refresh[j].body), alone |-> refresh[j].alone]
Disturbed(j) == {k \in Jobs \ {j} : refresh[k] # Null /\ FileOf(k) = FileOf(j)}
Commit(j) ==
    /\ refresh[j] # Null /\ refresh[j].at = "inserting" /\ ~Taken(j)
    /\ week' = [week EXCEPT ![FileOf(j)] = Replaced(j)]
    /\ refresh' = [k \in Jobs |-> CASE k = j -> After(j)
                                    [] k \in Disturbed(j) ->
                                          [refresh[k] EXCEPT !.doomed = @ \cap Left(j), !.alone = FALSE]
                                    [] OTHER -> refresh[k]]
    /\ UNCHANGED mirror
RollBack(j) == \* refused, or the connection lost
    /\ refresh[j] # Null /\ refresh[j].at \in {"deleting", "inserting"}
    /\ refresh' = [refresh EXCEPT ![j] = After(j)]
    /\ UNCHANGED <<mirror, week>>
\* The pod is gone: what was not committed never was.
RefreshDies(j) ==
    /\ refresh[j] # Null
    /\ refresh' = [refresh EXCEPT ![j] = Null]
    /\ UNCHANGED <<mirror, week>>

-----------------------------------------------------------------------------
\* handleThisWeek: the events of the week, the biggest first, what is stale
\* left out. A row has its day, its round and its event's level and tour.
WeekRound == <<"R128", "R64", "R32", "R16", "RR", "QF", "SF", "F">>
Depth(round) == IF round \in Range(WeekRound) THEN CHOOSE i \in DOMAIN WeekRound : WeekRound[i] = round
                ELSE 0
LevelRank(level) ==
    CASE level = "G" -> 0 [] level = "F" -> 1 [] level \in {"M", "1000", "PM"} -> 2
      [] level \in {"500", "P"} -> 3 [] OTHER -> 4
buildThisWeek(rows, now, latest, stale) ==
    LET Results(e) == {r \in rows : r.tour = e.tour /\ r.tourney = e.tourney}
        Order(e) == InOrder(Results(e), [r \in Results(e) |-> <<-r.on, -Depth(r.round), -r.num>>])
        Deepest(e) == Max({Depth(r.round) : r \in Results(e)})
        events == {e \in {[tour |-> r.tour, tourney |-> r.tourney, level |-> r.level] : r \in rows} :
                      now - Max({r.on : r \in Results(e)}) <= stale}
        order == InOrder(events, [e \in events |-> <<LevelRank(e.level), e.tour, e.tourney>>])
    IN [i \in DOMAIN order |->
           [event |-> order[i], matches |-> Cardinality(Results(order[i])),
            last |-> Order(order[i])[1].on, round |-> Deepest(order[i]),
            champion |-> LET finals == {r \in Results(order[i]) : r.round = "F"}
                         IN IF finals = {} THEN Null ELSE (CHOOSE r \in finals : TRUE).winner,
            latest |-> Limited(Order(order[i]), latest)]]

\* "a reader sees the old week or the new one and never half": however the jobs
\* overlap, every row of the version a file's validator names is there, under a
\* key of its own, so that a file that has not moved is rightly left alone; and
\* no other row is, unless another job committed while this one was replacing.
\* A file without a validator is not left alone, and nothing is said of its rows.
OngoingIsOfItsValidator ==
    \A f \in Range(Files) :
        /\ \A r, s \in week[f].rows : KeyOf(r) = KeyOf(s) => r = s
        /\ week[f].tag # Nothing =>
              /\ VersionOf(f, week[f].tag).rows \subseteq week[f].rows
              /\ week[f].alone => week[f].rows = VersionOf(f, week[f].tag).rows
===============================================================================
