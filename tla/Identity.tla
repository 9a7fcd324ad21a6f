------------------------------ MODULE Identity ------------------------------
(***************************************************************************)
(* Players, their source ids and their slugs: how ingest finds the row a   *)
(* source id stands for (internal/ingest), and how the reconcile stage     *)
(* (internal/identity) folds rows of one person together.                  *)
(*                                                                         *)
(* A WriteBatch is one row here, and a WritePlayers one bio; of the two    *)
(* players of a row the winner is written first, where the code takes them  *)
(* in any order.  A name stands for the plain slug it makes.  A side of a   *)
(* match keeps the source id it was last written under: what the code keeps *)
(* of it is the age.  Rankings and charted figures move as sides do.        *)
(***************************************************************************)
EXTENDS Reconcile, FiniteSets, Sequences, Functions

CONSTANTS
    Tours,          \* in the order a run takes them, a sequence
    SourceIDs,
    Profile,        \* Profile[t][s]: name, country, year, born as the sources give them
    KeyOf,          \* KeyOf[name]: the folded name
    Upstream,       \* match rows: [tour, source, draw, winner, loser]
    Bios,           \* player table rows: <<tour, source id>>
    StubSources,    \* the tml-* sources, which have no player table
    MaxPlayer,      \* bound: the last id the players sequence gives out
    MaxKills        \* bound: runs that die

TourNames == Range(Tours)
Ids == TourNames \X SourceIDs

\* A row of one id against itself is rejected (row.go:214).  An override of an id
\* that no source gives has no effect.
ASSUME IdentityAssumption ==
    /\ Tours \in Seq(TourNames)
    /\ Numeric \subseteq SourceIDs
    /\ \A u \in Upstream : /\ u.tour \in TourNames /\ u.winner # u.loser
                            /\ {u.winner, u.loser} \subseteq SourceIDs
    /\ Bios \subseteq Ids
    /\ HandMerges \subseteq [tour : TourNames, duplicate : SourceIDs, canonical : SourceIDs]
    /\ MaxPlayer \in Nat /\ MaxKills \in Nat

VARIABLES
    players,  \* players[i]: tour, sid, slug, name, country, born
    matches,  \* [draw, source, winner, loser, won, lost]; the last two source ids
    aliases,  \* aliases[<<source, sid>>]: a player
    reviews,  \* identity_reviews: [source, sid, candidate]
    run,      \* Runner.Run: tours still to do, and the links of the one it is in
    lastId,
    kills,
    freed     \* history: freed[i], the slugs of rows folded into i

database == <<players, matches, aliases, reviews>>
vars == <<players, matches, aliases, reviews, run, lastId, kills, freed>>

Player == 1 .. MaxPlayer
UnknownSource == "unknown"
NoRun == [tours |-> << >>, loaded |-> FALSE, links |-> {}]
Idle == run.tours = << >>
Tour == Head(run.tours)

Init ==
    /\ players = << >> /\ matches = {} /\ aliases = << >> /\ reviews = {}
    /\ run = NoRun /\ lastId = 0 /\ kills = 0
    /\ freed = [i \in Player |-> {}]
With(f, k, v) == [j \in DOMAIN f \cup {k} |-> IF j = k THEN v ELSE f[j]]
Without(f, k) == [j \in DOMAIN f \ {k} |-> f[j]]
-----------------------------------------------------------------------------
(* Ingest.                                                                 *)

\* The rows the id s of tour t stands for: its alias goes first.  Of several
\* aliases the query takes any.
Aliased(t, s) ==
    {aliases[k] : k \in {k \in DOMAIN aliases : k[2] = s /\ players[aliases[k]].tour = t}}
OwnRow(t, s) == {i \in DOMAIN players : players[i].tour = t /\ players[i].sid = s}
Resolved(t, s) == IF Aliased(t, s) # {} THEN Aliased(t, s) ELSE OwnRow(t, s)

\* DisambiguateSlug: the name, the name and the tour, and from then on a number.
Slug(name, t, attempt) ==
    [name |-> name, tour |-> IF attempt = 0 THEN "" ELSE t, attempt |-> attempt]
PlainSlug(name) == Slug(name, "", 0)
Held(ps, slug) == \E i \in DOMAIN ps : ps[i].slug = slug
FreeSlug(ps, name, t) ==
    LET free == {n \in 0 .. MaxPlayer : ~Held(ps, Slug(name, t, n))}
    IN  Slug(name, t, CHOOSE n \in free : \A m \in free : n <= m)

\* Mutant: the slug of an existing row is made again.
WithNewSlug(ps, i, t, s, born) ==
    LET known == Profile[t][s]
        row == [tour |-> t, sid |-> s, slug |-> FreeSlug(ps, known.name, t),
                name |-> known.name, country |-> known.country, born |-> born]
    IN  IF i \in DOMAIN ps
        THEN With(ps, i, [row EXCEPT !.sid = ps[i].sid,
                                     !.born = IF born = NoDay THEN ps[i].born ELSE born])
        ELSE With(ps, i, row)

\* upsertPlayer of the id s onto the row i.  An existing row keeps its slug and
\* what the source leaves blank.
WithPlayer(ps, i, t, s, born) ==
    LET known == Profile[t][s]
    IN  IF i \in DOMAIN ps
        THEN [ps EXCEPT ![i].name = known.name,
                        ![i].country = IF known.country = NoCountry THEN @ ELSE known.country,
                        ![i].born = IF born = NoDay THEN @ ELSE born]
        ELSE With(ps, i, [tour |-> t, sid |-> s, slug |-> FreeSlug(ps, known.name, t),
                          name |-> known.name, country |-> known.country, born |-> born])

\* Where an id is written to, if `next' is the sequence's next value.
Targets(t, s, next) == IF Resolved(t, s) = {} THEN {next} ELSE Resolved(t, s)

\* WriteBatch of a match row: both players, then the match under its draw and its
\* pair, whichever of the two won when it was last read.
WriteMatch(u) ==
    /\ Idle
    /\ \E w \in Targets(u.tour, u.winner, lastId + 1) :
       \E l \in Targets(u.tour, u.loser, IF w > lastId THEN lastId + 2 ELSE lastId + 1) :
        /\ {w, l} \subseteq Player
        /\ lastId' = IF w > lastId \/ l > lastId THEN (IF w > l THEN w ELSE l) ELSE lastId
        /\ players' = WithPlayer(WithPlayer(players, w, u.tour, u.winner, NoDay),
                                 l, u.tour, u.loser, NoDay)
        /\ matches' = {m \in matches : m.draw # u.draw \/ {m.winner, m.loser} # {w, l}}
                \cup {[draw |-> u.draw, source |-> u.source, winner |-> w, loser |-> l,
                       won |-> u.winner, lost |-> u.loser]}
    /\ UNCHANGED <<aliases, reviews, run, kills, freed>>

\* WritePlayers: a row of a player table, which is where birthdays come from.
WriteBio(t, s) ==
    /\ Idle
    /\ \E i \in Targets(t, s, lastId + 1) :
        /\ i \in Player
        /\ lastId' = IF i > lastId THEN i ELSE lastId
        /\ players' = WithPlayer(players, i, t, s, Profile[t][s].born)
    /\ UNCHANGED <<matches, aliases, reviews, run, kills, freed>>
-----------------------------------------------------------------------------
(* The reconcile stage.                                                    *)

MatchesOf(i) == {m \in matches : i \in {m.winner, m.loser}}

\* The values a function takes most often.
MostFrequent(f) ==
    LET count(v) == Cardinality({x \in DOMAIN f : f[x] = v})
    IN  {v \in Range(f) : \A w \in Range(f) : count(w) <= count(v)}

\* The birth year the ages on match rows give, the lowest of the most frequent.
DerivedYear(i) ==
    LET t == players[i].tour
        year(m) == Profile[t][IF m.winner = i THEN m.won ELSE m.lost].year
        years == MostFrequent([m \in {m \in MatchesOf(i) : year(m) # NoYear} |-> year(m)])
    IN  IF years = {} THEN NoYear ELSE CHOOSE y \in years : \A z \in years : y <= z

\* LoadPlayers.
Loaded(t) ==
    {[id |-> i, sid |-> players[i].sid, key |-> KeyOf[players[i].name],
      country |-> players[i].country, born |-> players[i].born,
      year |-> DerivedYear(i), matches |-> Cardinality(MatchesOf(i)),
      matchOnly |-> /\ players[i].born = NoDay /\ MatchesOf(i) # {}
                    /\ \A m \in MatchesOf(i) : m.source \in StubSources]
        : i \in {i \in DOMAIN players : players[i].tour = t}}

\* sourceOf: the source of most of a player's matches.
SourcesOf(i) ==
    IF MatchesOf(i) = {} THEN {UnknownSource}
    ELSE MostFrequent([m \in MatchesOf(i) |-> m.source])

Start ==
    /\ Idle
    /\ run' = [NoRun EXCEPT !.tours = Tours]
    /\ UNCHANGED <<database, lastId, kills, freed>>

\* LoadPlayers, Reconcile and Apply: from here on the run acts on what it read.
Load ==
    /\ ~Idle /\ ~run.loaded
    /\ \E rows \in {Loaded(Tour)} : \E links \in Proposals(Tour, rows) :
        run' = [run EXCEPT !.loaded = TRUE, !.links = links]
    /\ UNCHANGED <<database, lastId, kills, freed>>

\* The links are taken one by one, in the order of their turns.
NextUp(m) == m \in run.links /\ \A n \in run.links : m.turn <= n.turn
Taken(m) == [run EXCEPT !.links = @ \ {m}]

Moved(i, m) == IF i = m.dup THEN m.canonical ELSE i

\* Mutant: only the winners of matches move.
AfterMoveOfWinners(x, m) == [x EXCEPT !.winner = Moved(@, m)]

AfterMove(x, m) == [x EXCEPT !.winner = Moved(@, m), !.loser = Moved(@, m)]

\* Mutant: two players may meet only once, in whatever draw.
PairsCollideInAnyDraw(m) ==
    \E x, y \in matches :
        /\ x # y
        /\ {Moved(x.winner, m), Moved(x.loser, m)} = {Moved(y.winner, m), Moved(y.loser, m)}

\* What makes the database refuse a merge: two matches of one draw come to have
\* the same pair (the index matches_draw_key), or the row to keep is gone, be it
\* that it is the duplicate itself.
PairsCollide(m) ==
    \E x, y \in matches :
        /\ x # y /\ x.draw = y.draw
        /\ {Moved(x.winner, m), Moved(x.loser, m)} = {Moved(y.winner, m), Moved(y.loser, m)}
Refused(m) ==
    \/ m.canonical \notin DOMAIN players
    \/ IsAuto(m) /\ (m.dup = m.canonical \/ PairsCollide(m))

\* Mutant: aliases that point at the duplicate go with it.
AliasesCascaded(m) ==
    [k \in {k \in DOMAIN aliases : aliases[k] # m.dup} |-> aliases[k]]

\* Aliases already pointing at the duplicate follow it.
AliasesMoved(m) == [k \in DOMAIN aliases |-> Moved(aliases[k], m)]

\* Mutant: the slug is left dead.
ReclaimedNever(ps, i) == ps

\* reclaimSlug: a player moves to its plain slug if nobody holds it.
Reclaimed(ps, i) ==
    IF Held(ps, PlainSlug(ps[i].name)) THEN ps ELSE [ps EXCEPT ![i].slug = PlainSlug(ps[i].name)]

Merge(m) ==
    /\ NextUp(m) /\ IsAuto(m) /\ ~Refused(m)
    /\ \E source \in SourcesOf(m.dup) :
        aliases' = With(AliasesMoved(m), <<source, m.dupSid>>, m.canonical)
    /\ matches' = {AfterMove(x, m) : x \in matches}
    /\ reviews' = {r \in reviews : r.sid # m.dupSid /\ r.candidate # m.dup}
    /\ players' = Reclaimed(Without(players, m.dup), m.canonical)
    /\ run' = Taken(m)
    /\ freed' = IF m.dup \in DOMAIN players
                THEN [freed EXCEPT ![m.canonical] =
                          @ \cup freed[m.dup] \cup {players[m.dup].slug}]
                ELSE freed
    /\ UNCHANGED <<lastId, kills>>

Queue(m) ==
    /\ NextUp(m) /\ ~IsAuto(m) /\ ~Refused(m)
    /\ \E source \in SourcesOf(m.dup) :
        reviews' = reviews \cup
            {[source |-> source, sid |-> m.dupSid, candidate |-> m.canonical]}
    /\ run' = Taken(m)
    /\ UNCHANGED <<players, matches, aliases, lastId, kills, freed>>

\* The transaction is rolled back and the stage ends with the error.
Fail(m) ==
    /\ NextUp(m) /\ Refused(m)
    /\ run' = NoRun
    /\ UNCHANGED <<database, lastId, kills, freed>>

\* ReclaimFreedSlugs, over the players an alias points at in the order of their
\* ids; then the next tour.
ReclaimedUpTo[i \in 0 .. MaxPlayer] ==
    IF i = 0 THEN players
    ELSE IF i \in DOMAIN players /\ players[i].tour = Tour /\ i \in Range(aliases)
    THEN Reclaimed(ReclaimedUpTo[i - 1], i)
    ELSE ReclaimedUpTo[i - 1]

FinishTour ==
    /\ ~Idle /\ run.loaded /\ run.links = {}
    /\ players' = ReclaimedUpTo[MaxPlayer]
    /\ run' = [NoRun EXCEPT !.tours = Tail(run.tours)]
    /\ UNCHANGED <<matches, aliases, reviews, lastId, kills, freed>>

\* The process dies between two transactions.
Kill ==
    /\ ~Idle /\ kills < MaxKills
    /\ run' = NoRun /\ kills' = kills + 1
    /\ UNCHANGED <<database, lastId, freed>>

RunStep ==
    \/ Load \/ FinishTour
    \/ \E m \in run.links : Merge(m) \/ Queue(m) \/ Fail(m)

Next ==
    \/ \E u \in Upstream : WriteMatch(u)
    \/ \E k \in Bios : WriteBio(k[1], k[2])
    \/ Start \/ RunStep \/ Kill

Spec == Init /\ [][Next]_vars

\* The CronJob starts a run every week, and the loop over the links is sequential.
FairSpec == Spec /\ WF_vars(Start) /\ WF_vars(RunStep)
-----------------------------------------------------------------------------
(* Properties.                                                             *)

\* "so a re-ingest resolves the duplicate id straight to the canonical row" (Merge):
\* an id a tour has shown stands for one person for good, and nothing but the merge
\* of two people, with all their ids, ever changes whom it stands for.
IdsOf(i) ==
    {<<players[i].tour, s>> :
        s \in {players[i].sid} \cup {k[2] : k \in {k \in DOMAIN aliases : aliases[k] = i}}}
PeopleKnown == {IdsOf(i) : i \in DOMAIN players}
AbstractPeople == INSTANCE People WITH people <- PeopleKnown
ImplementsPeople == AbstractPeople!Spec

\* "Without it every re-ingest would recreate the duplicate that identity
\* reconciliation had just folded away" (upsertPlayer): an id a tour has shown
\* always stands for somebody.
IdsStayKnown ==
    [][\A k \in Ids : Resolved(k[1], k[2]) # {} => Resolved(k[1], k[2])' # {}]_vars

\* "a re-ingest resolves the duplicate id straight to the canonical row" (Merge): an
\* id stands for the row it stood for, or for the row that one is folded into.  The one
\* id this may fail for is the number of the row that is folded away, when an alias of
\* that number is there already (of the other tour say) or the row is gone.
IdsFollowTheirRow ==
    [][\A k \in Ids :
        LET now == Resolved(k[1], k[2])
            after == Resolved(k[1], k[2])'
        IN  now = {} \/ after = now \/ \E m \in run.links :
                /\ Merge(m)
                /\ \/ after = {Moved(i, m) : i \in now}
                   \/ /\ k[2] = m.dupSid
                      /\ \/ m.dup \notin DOMAIN players
                         \/ \E n \in DOMAIN aliases : n[2] = m.dupSid]_vars

\* "Nothing may be left pointing at an id that no longer exists"
\* (TestMergeMovesTheEntireCareer): matches and reviews are of players that are there, and a
\* match that was moved never becomes a second of its draw and pair.
NothingIsStranded ==
    /\ \A m \in matches : {m.winner, m.loser} \subseteq DOMAIN players
    /\ \A r \in reviews : r.candidate \in DOMAIN players
    /\ \A x, y \in matches :
        x.draw = y.draw /\ {x.winner, x.loser} = {y.winner, y.loser} => x = y

\* The career goes where the ids go: each side of a match is the player that the
\* source id it was written under stands for, and no other.
CareersFollowIds ==
    /\ NothingIsStranded
    /\ \A m \in matches :
        /\ m.winner # m.loser
        /\ Resolved(players[m.winner].tour, m.won) = {m.winner}
        /\ Resolved(players[m.loser].tour, m.lost) = {m.loser}

\* "the alternative is a player permanently parked on taylor-fritz-atp while
\* /players/taylor-fritz 404s" (reclaimSlug), of names with one spelling: the plain slug
\* of every player's name is somebody's, and no slug is two players'.
PlainSlugsAreLive ==
    /\ \A i \in DOMAIN players : Held(players, PlainSlug(players[i].name))
    /\ \A i, j \in DOMAIN players : i # j => players[i].slug # players[j].slug

\* However names are spelled, a plain slug goes dead only as the player who held it, or
\* the one he is folded into, is by now called something else.
PlainSlugsDieByRespelling ==
    [][\A i \in DOMAIN players :
        LET slug == players[i].slug
        IN  slug = PlainSlug(slug.name) /\ ~Held(players', slug) =>
                \E j \in DOMAIN players' :
                    /\ j = i \/ \E m \in run.links : m.dup = i /\ m.canonical = j
                    /\ players[j].name # slug.name]_vars

\* "The exception is narrow: the slug being claimed was held by the row deleted moments
\* ago" (reclaimSlug), "only a slug the merge itself freed may be taken"
\* (TestMergeLeavesASlugAnotherPlayerHolds): a player's slug moves only to one a row
\* folded into it had.
SlugsMoveOnlyToFreed ==
    [][\A i \in DOMAIN players \cap DOMAIN players' :
        players'[i].slug = players[i].slug \/ players'[i].slug \in freed'[i]]_vars

\* "Only players carrying an alias are considered, which is to say only players a merge
\* has touched" (ReclaimFreedSlugs): nobody else's slug ever moves, and it moves to the
\* plain slug of the player's name, which nobody who stays where he is holds.
OnlyMergedSlugsMove ==
    [][\A i \in DOMAIN players \cap DOMAIN players' :
        players'[i].slug # players[i].slug =>
            /\ i \in Range(aliases')
            /\ players'[i].slug = PlainSlug(players'[i].name)
            /\ \A j \in DOMAIN players' \ {i} : players'[j].slug # players'[i].slug]_vars

\* "Two equally good candidates is exactly the case that must not be resolved by
\* picking one" (reconcileGroup).  What the code makes sure of is less: of the rows a
\* pass has read, a stub that no human has decided on is merged although another backed
\* row fits it as well, and is not to become the same person, only if that row was
\* dropped from the candidates for one of its birthday (foldSameSource) that fits the
\* stub less well, or that a human has told from it.
IsRival(p, kept, stub, links) ==
    /\ p # kept /\ p.key = stub.key /\ Score(p, stub) >= Score(kept, stub)
    /\ ~ \E n \in links : n.dup = p.id /\ n.canonical = kept.id
MergedOnItsOwn(m) == m.turn = 1 /\ IsAuto(m) /\ ~Merged(Tour, m.dupSid, m.canonicalSid)
OnlyFoldsHideARival ==
    [][Load =>
        LET rows == Loaded(Tour)
        IN  \A m \in run'.links : MergedOnItsOwn(m) =>
                \A stub, kept \in rows : stub.id = m.dup /\ kept.id = m.canonical =>
                    \A p \in Backed(rows) : IsRival(p, kept, stub, run'.links) =>
                        LET keeper == Keeper(p, Backed(rows))
                        IN  /\ p \in FoldedAway(Backed(rows))
                            /\ \/ Score(keeper, stub) < Score(p, stub)
                               \/ Separated(Tour, p.sid, keeper.sid)]_vars

\* "if the same match or ranking date arrived from both sources, the canonical row
\* already has it and the duplicate's copy is redundant rather than a conflict to
\* resolve" (Merge): runs that die or not, again and again a run finds in each tour
\* that nothing is left to merge.
FindsNothing(t) ==
    /\ ~Idle /\ Tour = t /\ ~run.loaded /\ run'.loaded
    /\ \A m \in run'.links : ~IsAuto(m)
Settles == \A t \in TourNames : []<><<FindsNothing(t)>>_vars

\* It comes unless the runs end, again and again, at a pair of rows that both have the
\* same match.
BothHold(m) ==
    \E x, y \in matches :
        /\ x.draw = y.draw /\ m.dup \in {x.winner, x.loser} /\ m.canonical \in {y.winner, y.loser}
        /\ {x.winner, x.loser} \ {m.dup} = {y.winner, y.loser} \ {m.canonical}
SettlesUnlessBothHold ==
    \/ Settles
    \/ []<>(\E m \in run.links : NextUp(m) /\ IsAuto(m) /\ BothHold(m))
=============================================================================
