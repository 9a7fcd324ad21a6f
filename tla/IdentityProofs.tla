---------------------------- MODULE IdentityProofs ----------------------------
(***************************************************************************)
(* What ingest and reconciliation keep true of players, their ids, their   *)
(* slugs and their matches, whatever the rows, the spellings, the          *)
(* overrides and the runs that die.                                        *)
(***************************************************************************)
EXTENDS Identity, SetLemmas, SequenceTheorems

Names == {Profile[t][s].name : t \in TourNames, s \in SourceIDs}
Countries == {Profile[t][s].country : t \in TourNames, s \in SourceIDs} \cup {NoCountry}
Birthdays == {Profile[t][s].born : t \in TourNames, s \in SourceIDs} \cup {NoDay}
Slugs == [name : Names, tour : TourNames \cup {""}, attempt : 0 .. MaxPlayer]
PlayerRow == [tour : TourNames, sid : SourceIDs, slug : Slugs,
              name : Names, country : Countries, born : Birthdays]
Sources == {u.source : u \in Upstream} \cup {UnknownSource}
MatchRow == [draw : {u.draw : u \in Upstream}, source : Sources, winner : Player, loser : Player,
             won : SourceIDs, lost : SourceIDs]

TypeInv ==
    /\ lastId \in 0 .. MaxPlayer
    /\ players \in [DOMAIN players -> PlayerRow] /\ DOMAIN players \subseteq 1 .. lastId
    /\ matches \subseteq MatchRow /\ IsFiniteSet(matches)
    /\ aliases \in [DOMAIN aliases -> DOMAIN players]
    /\ DOMAIN aliases \subseteq Sources \X SourceIDs
    /\ run.tours \in Seq(TourNames)
    /\ run = [tours |-> run.tours, loaded |-> run.loaded, links |-> run.links]
    /\ freed \in [Player -> SUBSET Slugs]

\* The keys of a table of players.
Rows(ps) == ps \in [DOMAIN ps -> PlayerRow] /\ DOMAIN ps \subseteq Player
KeysOf(ps) ==
    \A i, j \in DOMAIN ps : i # j =>
        /\ ps[i].slug # ps[j].slug
        /\ ps[i].tour # ps[j].tour \/ ps[i].sid # ps[j].sid
KeysHold == KeysOf(players)

\* A link is of rows of its tour, by their ids, as long as they are there.
Names2(id, sid) == id \in DOMAIN players => players[id].tour = Tour /\ players[id].sid = sid
LinkInv ==
    /\ Idle => run.links = {}
    /\ \A m \in run.links :
        /\ m.dup \in Player /\ m.dupSid \in SourceIDs /\ Names2(m.dup, m.dupSid)
        /\ m.canonical \in Player /\ m.canonicalSid \in SourceIDs
        /\ Names2(m.canonical, m.canonicalSid)

BaseInv == TypeInv /\ KeysHold /\ LinkInv
-----------------------------------------------------------------------------
(* Slugs.                                                                  *)

\* DisambiguateSlug finds a slug nobody holds, the plain one if it is free: there
\* are more of them than players.
LEMMA FreeSlugFacts ==
    ASSUME NEW ps, DOMAIN ps \subseteq Player, NEW name \in Names, NEW t \in TourNames
    PROVE  /\ FreeSlug(ps, name, t) \in Slugs
           /\ ~Held(ps, FreeSlug(ps, name, t)) /\ FreeSlug(ps, name, t).name = name
           /\ ~Held(ps, PlainSlug(name)) => FreeSlug(ps, name, t) = PlainSlug(name)
<1> DEFINE free == {n \in 0 .. MaxPlayer : ~Held(ps, Slug(name, t, n))}
<1>1. MaxPlayer \in Nat
  BY IdentityAssumption
<1>2. free # {}
  <2> SUFFICES ASSUME free = {} PROVE FALSE
    OBVIOUS
  <2> DEFINE holder == [n \in 0 .. MaxPlayer |->
                          CHOOSE i \in DOMAIN ps : ps[i].slug = Slug(name, t, n)]
  <2>1. ASSUME NEW n \in 0 .. MaxPlayer
        PROVE  holder[n] \in DOMAIN ps /\ ps[holder[n]].slug = Slug(name, t, n)
    BY DEF Held
  <2>2. holder \in [0 .. MaxPlayer -> Player]
    BY <2>1
  <2>3. /\ IsFiniteSet(0 .. MaxPlayer) /\ Cardinality(0 .. MaxPlayer) = MaxPlayer + 1
        /\ IsFiniteSet(Player) /\ Cardinality(Player) = MaxPlayer
    BY <1>1, FS_Interval DEF Player
  <2>4. Cardinality(Player) < Cardinality(0 .. MaxPlayer)
    BY <1>1, <2>3
  <2> HIDE DEF holder
  <2>5. PICK n, m \in 0 .. MaxPlayer : n # m /\ holder[n] = holder[m]
    <3> DEFINE numbers == 0 .. MaxPlayer
    <3>1. /\ IsFiniteSet(numbers) /\ IsFiniteSet(Player) /\ holder \in [numbers -> Player]
          /\ Cardinality(Player) < Cardinality(numbers)
      BY <2>2, <2>3, <2>4
    <3> HIDE DEF numbers
    <3>2. \E n, m \in numbers : n # m /\ holder[n] = holder[m]
      BY <3>1, FS_PigeonHole
    <3> QED BY <3>2 DEF numbers
  <2>6. Slug(name, t, n) = Slug(name, t, m)
    BY <2>1, <2>5
  <2>7. Slug(name, t, n).attempt = n /\ Slug(name, t, m).attempt = m
    BY DEF Slug
  <2> QED BY <2>5, <2>6, <2>7
<1> DEFINE least(n) == n \in free /\ \A m \in free : n <= m
<1>3. \E n : least(n)
  <2>1. free \subseteq Nat
    BY <1>1
  <2> HIDE DEF free
  <2> QED BY <1>2, <2>1, LeastNumber
<1>4. /\ FreeSlug(ps, name, t) = Slug(name, t, CHOOSE n \in free : \A m \in free : n <= m)
      /\ least(CHOOSE n \in free : \A m \in free : n <= m)
  <2>1. FreeSlug(ps, name, t) = Slug(name, t, CHOOSE n \in free : \A m \in free : n <= m)
    BY DEF FreeSlug
  <2> QED BY <1>3, <2>1
<1>5. PICK n : least(n) /\ FreeSlug(ps, name, t) = Slug(name, t, n)
  BY <1>4
<1>6. Slug(name, t, n) \in Slugs /\ Slug(name, t, n).name = name
  BY <1>5, <1>1 DEF Slug, Slugs
<1>7. ~Held(ps, PlainSlug(name)) => n = 0
  <2>1. Slug(name, t, 0) = PlainSlug(name)
    BY DEF Slug, PlainSlug
  <2> QED BY <1>1, <1>5, <2>1
<1>8. Slug(name, t, 0) = PlainSlug(name)
  BY DEF Slug, PlainSlug
<1> QED BY <1>5, <1>6, <1>7, <1>8

-----------------------------------------------------------------------------
(* Ingest: rows are added, and nothing but names and blanks changes.       *)

\* Nobody of tour t has the source id s of his own.
Unknown(ps, t, s) == \A j \in DOMAIN ps : ps[j].tour # t \/ ps[j].sid # s

\* upsertPlayer keeps everybody's slug and ids, and gives a new row a slug of its own.
LEMMA WithPlayerFacts ==
    ASSUME NEW ps, Rows(ps), NEW i \in Player, NEW t \in TourNames, NEW s \in SourceIDs,
           NEW born \in Birthdays
    PROVE  LET qs == WithPlayer(ps, i, t, s, born) IN
           /\ Rows(qs) /\ DOMAIN qs = DOMAIN ps \cup {i}
           /\ \A j \in DOMAIN ps : /\ qs[j].tour = ps[j].tour /\ qs[j].sid = ps[j].sid
                                   /\ qs[j].slug = ps[j].slug
           /\ \A j \in DOMAIN ps \ {i} : qs[j] = ps[j]
           /\ qs[i].name = Profile[t][s].name
           /\ i \notin DOMAIN ps =>
                /\ qs[i].tour = t /\ qs[i].sid = s /\ qs[i].slug.name = qs[i].name
                /\ ~Held(ps, qs[i].slug)
                /\ ~Held(ps, PlainSlug(qs[i].name)) => qs[i].slug = PlainSlug(qs[i].name)
           /\ KeysOf(ps) /\ (i \in DOMAIN ps \/ Unknown(ps, t, s)) => KeysOf(qs)
<1> DEFINE known == Profile[t][s]
           qs == WithPlayer(ps, i, t, s, born)
<1>1. known.name \in Names /\ known.country \in Countries
  BY DEF Names, Countries
<1>2. CASE i \in DOMAIN ps
  <2> DEFINE country == IF known.country = NoCountry THEN ps[i].country ELSE known.country
             day == IF born = NoDay THEN ps[i].born ELSE born
             row == [ps[i] EXCEPT !.name = known.name, !.country = country, !.born = day]
  <2>1. ps[i] \in PlayerRow
    BY <1>2 DEF Rows
  <2>2. country \in Countries /\ day \in Birthdays
    BY <1>1, <2>1 DEF PlayerRow
  <2>3. /\ row \in PlayerRow /\ row.name = known.name
        /\ row.tour = ps[i].tour /\ row.sid = ps[i].sid /\ row.slug = ps[i].slug
    <3> HIDE DEF country, day, known
    <3> QED BY <1>1, <2>1, <2>2 DEF PlayerRow
  <2>4. qs = [ps EXCEPT ![i] = row]
    BY <1>2, <2>1 DEF WithPlayer, PlayerRow, Rows
  <2>5. DOMAIN qs = DOMAIN ps /\ qs[i] = row /\ \A j \in DOMAIN ps \ {i} : qs[j] = ps[j]
    <3> HIDE DEF row
    <3> QED BY <1>2, <2>4 DEF Rows
  <2>6. Rows(qs)
    <3> HIDE DEF row, qs
    <3>1. qs \in [DOMAIN ps -> PlayerRow]
      <4>1. qs = [ps EXCEPT ![i] = row]
        BY <2>4
      <4> QED BY <2>3, <4>1 DEF Rows
    <3> QED BY <2>5, <3>1 DEF Rows
  <2> HIDE DEF row, qs, known
  <2>7. \A j \in DOMAIN ps : qs[j].tour = ps[j].tour /\ qs[j].sid = ps[j].sid
                             /\ qs[j].slug = ps[j].slug
    BY <2>3, <2>5
  <2>8. KeysOf(ps) => KeysOf(qs)
    BY <2>5, <2>7 DEF KeysOf
  <2>9. DOMAIN qs = DOMAIN ps \cup {i} /\ qs[i].name = known.name
    BY <1>2, <2>3, <2>5
  <2> QED BY <1>2, <2>5, <2>6, <2>7, <2>8, <2>9 DEF qs, known
<1>3. CASE i \notin DOMAIN ps
  <2> DEFINE free == FreeSlug(ps, known.name, t)
             row == [tour |-> t, sid |-> s, slug |-> free,
                     name |-> known.name, country |-> known.country, born |-> born]
  <2>1. /\ free \in Slugs /\ ~Held(ps, free) /\ free.name = known.name
        /\ ~Held(ps, PlainSlug(known.name)) => free = PlainSlug(known.name)
    BY <1>1, FreeSlugFacts DEF Rows
  <2>2. /\ row \in PlayerRow /\ row.name = known.name /\ row.tour = t /\ row.sid = s
        /\ row.slug = free
    <3> HIDE DEF free, known
    <3> QED BY <1>1, <2>1 DEF PlayerRow
  <2>3. qs = With(ps, i, row)
    BY <1>3 DEF WithPlayer
  <2>4. /\ qs = [j \in DOMAIN ps \cup {i} |-> IF j = i THEN row ELSE ps[j]]
        /\ DOMAIN qs = DOMAIN ps \cup {i}
    BY <2>3 DEF With
  <2>5. qs[i] = row /\ \A j \in DOMAIN ps : qs[j] = ps[j]
    <3> HIDE DEF row, qs
    <3> QED BY <1>3, <2>4
  <2>6. Rows(qs)
    <3> HIDE DEF row, qs
    <3>1. \A j \in DOMAIN qs : qs[j] \in PlayerRow
      BY <2>2, <2>4, <2>5 DEF Rows
    <3>2. qs = [j \in DOMAIN qs |-> qs[j]]
      BY <2>4
    <3> QED BY <2>4, <3>1, <3>2 DEF Rows
  <2> HIDE DEF row, qs, known, free
  <2>7. KeysOf(ps) /\ Unknown(ps, t, s) => KeysOf(qs)
    BY <2>1, <2>2, <2>4, <2>5 DEF KeysOf, Unknown, Held
  <2> QED BY <1>3, <2>1, <2>2, <2>4, <2>5, <2>6, <2>7 DEF qs, known
<1> QED BY <1>2, <1>3

\* Of which: whose rows there are.
LEMMA WithPlayerIds ==
    ASSUME NEW ps, Rows(ps), NEW i \in Player, NEW t \in TourNames, NEW s \in SourceIDs,
           NEW born \in Birthdays, NEW qs, qs = WithPlayer(ps, i, t, s, born)
    PROVE  /\ Rows(qs) /\ \A j : j \in DOMAIN qs <=> j \in DOMAIN ps \/ j = i
           /\ \A j \in DOMAIN ps : qs[j].tour = ps[j].tour /\ qs[j].sid = ps[j].sid
           /\ i \notin DOMAIN ps => qs[i].tour = t /\ qs[i].sid = s
<1>1. /\ Rows(qs) /\ DOMAIN qs = DOMAIN ps \cup {i}
      /\ \A j \in DOMAIN ps : /\ qs[j].tour = ps[j].tour /\ qs[j].sid = ps[j].sid
                              /\ qs[j].slug = ps[j].slug
      /\ \A j \in DOMAIN ps \ {i} : qs[j] = ps[j]
      /\ qs[i].name = Profile[t][s].name
      /\ i \notin DOMAIN ps =>
            /\ qs[i].tour = t /\ qs[i].sid = s /\ qs[i].slug.name = qs[i].name
            /\ ~Held(ps, qs[i].slug)
            /\ ~Held(ps, PlainSlug(qs[i].name)) => qs[i].slug = PlainSlug(qs[i].name)
      /\ KeysOf(ps) /\ (i \in DOMAIN ps \/ Unknown(ps, t, s)) => KeysOf(qs)
  <2> DEFINE rs == WithPlayer(ps, i, t, s, born)
  <2>1. /\ Rows(rs) /\ DOMAIN rs = DOMAIN ps \cup {i}
        /\ \A j \in DOMAIN ps : /\ rs[j].tour = ps[j].tour /\ rs[j].sid = ps[j].sid
                                /\ rs[j].slug = ps[j].slug
        /\ \A j \in DOMAIN ps \ {i} : rs[j] = ps[j]
        /\ rs[i].name = Profile[t][s].name
        /\ i \notin DOMAIN ps =>
              /\ rs[i].tour = t /\ rs[i].sid = s /\ rs[i].slug.name = rs[i].name
              /\ ~Held(ps, rs[i].slug)
              /\ ~Held(ps, PlainSlug(rs[i].name)) => rs[i].slug = PlainSlug(rs[i].name)
        /\ KeysOf(ps) /\ (i \in DOMAIN ps \/ Unknown(ps, t, s)) => KeysOf(rs)
    BY WithPlayerFacts
  <2> QED BY <2>1
<1> QED BY <1>1

\* What an id stands for is a row of its tour.
LEMMA ResolvedRows ==
    ASSUME TypeInv, NEW t, NEW s, NEW i \in Resolved(t, s)
    PROVE  i \in DOMAIN players /\ i \in Player /\ players[i].tour = t
<1>1. i \in Aliased(t, s) \/ i \in OwnRow(t, s)
  BY DEF Resolved
<1>2. \A k \in DOMAIN aliases : aliases[k] \in DOMAIN players
  BY DEF TypeInv
<1>3. i \in DOMAIN players /\ players[i].tour = t
  BY <1>1, <1>2 DEF Aliased, OwnRow
<1> QED BY <1>3, IdentityAssumption DEF TypeInv, Player

\* Players as a row of a source leaves them: nobody goes, ids and slugs stay, a name
\* is one that an id of the row gives, and a new row is of an id nobody had.
Grown(qs) ==
    /\ Rows(qs) /\ KeysOf(qs) /\ DOMAIN players \subseteq DOMAIN qs
    /\ \A j \in DOMAIN players :
        /\ qs[j].tour = players[j].tour /\ qs[j].sid = players[j].sid
        /\ qs[j].slug = players[j].slug
        /\ \/ qs[j].name = players[j].name
           \/ \E s \in SourceIDs : /\ j \in Resolved(players[j].tour, s)
                                   /\ qs[j].name = Profile[players[j].tour][s].name
    /\ \A j \in DOMAIN qs \ DOMAIN players :
        /\ Resolved(qs[j].tour, qs[j].sid) = {}
        /\ qs[j].name = Profile[qs[j].tour][qs[j].sid].name
        /\ qs[j].slug.name = qs[j].name /\ Held(qs, PlainSlug(qs[j].name))

\* One upsertPlayer of a WriteBatch or a WritePlayers.
LEMMA WriteOneGrows ==
    ASSUME BaseInv, NEW ps, Grown(ps), NEW t \in TourNames, NEW s \in SourceIDs,
           NEW i \in Player, NEW born \in Birthdays,
           \/ i \in Resolved(t, s)
           \/ Resolved(t, s) = {} /\ i \notin DOMAIN ps /\ Unknown(ps, t, s)
    PROVE  Grown(WithPlayer(ps, i, t, s, born))
<1> DEFINE qs == WithPlayer(ps, i, t, s, born)
<1>1. /\ Rows(qs) /\ DOMAIN qs = DOMAIN ps \cup {i}
      /\ \A j \in DOMAIN ps : /\ qs[j].tour = ps[j].tour /\ qs[j].sid = ps[j].sid
                              /\ qs[j].slug = ps[j].slug
      /\ \A j \in DOMAIN ps \ {i} : qs[j] = ps[j]
      /\ qs[i].name = Profile[t][s].name
      /\ i \notin DOMAIN ps =>
            /\ qs[i].tour = t /\ qs[i].sid = s /\ qs[i].slug.name = qs[i].name
            /\ ~Held(ps, qs[i].slug)
            /\ ~Held(ps, PlainSlug(qs[i].name)) => qs[i].slug = PlainSlug(qs[i].name)
      /\ KeysOf(ps) /\ (i \in DOMAIN ps \/ Unknown(ps, t, s)) => KeysOf(qs)
  BY WithPlayerFacts DEF Grown
<1>2. i \in Resolved(t, s) => i \in DOMAIN players /\ players[i].tour = t
  BY ResolvedRows DEF BaseInv
<1>3. \A slug : Held(ps, slug) => Held(qs, slug)
  <2> HIDE DEF qs
  <2> QED BY <1>1 DEF Held
<1> HIDE DEF qs
<1>4. Rows(qs) /\ KeysOf(qs) /\ DOMAIN players \subseteq DOMAIN qs
  BY <1>1, <1>2 DEF Grown
<1>5. ASSUME NEW j \in DOMAIN players
      PROVE  /\ qs[j].tour = players[j].tour /\ qs[j].sid = players[j].sid
             /\ qs[j].slug = players[j].slug
             /\ \/ qs[j].name = players[j].name
                \/ \E r \in SourceIDs : /\ j \in Resolved(players[j].tour, r)
                                        /\ qs[j].name = Profile[players[j].tour][r].name
  BY <1>1, <1>2 DEF Grown
<1>6. ASSUME NEW j \in DOMAIN qs \ DOMAIN players
      PROVE  /\ Resolved(qs[j].tour, qs[j].sid) = {}
             /\ qs[j].name = Profile[qs[j].tour][qs[j].sid].name
             /\ qs[j].slug.name = qs[j].name /\ Held(qs, PlainSlug(qs[j].name))
  <2>1. CASE j # i
    <3>1. j \in DOMAIN ps \ DOMAIN players /\ qs[j] = ps[j]
      BY <1>1, <2>1
    <3>2. /\ Resolved(ps[j].tour, ps[j].sid) = {}
          /\ ps[j].name = Profile[ps[j].tour][ps[j].sid].name
          /\ ps[j].slug.name = ps[j].name /\ Held(ps, PlainSlug(ps[j].name))
      BY <3>1 DEF Grown
    <3> QED BY <1>3, <3>1, <3>2
  <2>2. CASE j = i
    <3>1. Held(qs, qs[i].slug)
      BY <1>1 DEF Held
    <3> QED BY <1>1, <1>2, <1>3, <2>2, <3>1
  <2> QED BY <2>1, <2>2
<1> QED BY <1>4, <1>5, <1>6 DEF Grown, qs

\* Nothing written, nothing grown.
LEMMA NothingGrows ==
    ASSUME BaseInv
    PROVE  Grown(players)
<1>1. Rows(players)
  BY IdentityAssumption DEF BaseInv, TypeInv, Rows, Player
<1> QED BY <1>1 DEF BaseInv, KeysHold, Grown

\* An id that stands for nobody is nobody's own.
LEMMA NobodysOwn ==
    ASSUME NEW t, NEW s, Resolved(t, s) = {}
    PROVE  Unknown(players, t, s)
BY DEF Resolved, OwnRow, Unknown

\* A row of a player table.
LEMMA BioGrows ==
    ASSUME BaseInv, NEW t, NEW s, <<t, s>> \in Bios, WriteBio(t, s)
    PROVE  /\ Grown(players') /\ DOMAIN players' \subseteq 1 .. lastId' /\ lastId' \in 0 .. MaxPlayer
           /\ UNCHANGED <<matches, aliases, run, freed>>
<1>1. t \in TourNames /\ s \in SourceIDs
  BY IdentityAssumption DEF Ids
<1>2. PICK i \in Targets(t, s, lastId + 1) :
        /\ i \in Player /\ lastId' = (IF i > lastId THEN i ELSE lastId)
        /\ players' = WithPlayer(players, i, t, s, Profile[t][s].born)
  BY DEF WriteBio
<1>3. /\ lastId \in 0 .. MaxPlayer /\ DOMAIN players \subseteq 1 .. lastId /\ MaxPlayer \in Nat
      /\ Rows(players)
  BY IdentityAssumption, NothingGrows DEF BaseInv, TypeInv, Grown
<1>4. Profile[t][s].born \in Birthdays
  BY <1>1 DEF Birthdays
<1>5. \/ i \in Resolved(t, s)
      \/ Resolved(t, s) = {} /\ i \notin DOMAIN players /\ Unknown(players, t, s)
  <2>1. CASE Resolved(t, s) # {}
    BY <1>2, <2>1 DEF Targets
  <2>2. CASE Resolved(t, s) = {}
    <3>1. i = lastId + 1
      BY <1>2, <2>2 DEF Targets
    <3>2. lastId + 1 \notin DOMAIN players
      BY <1>3
    <3>3. Unknown(players, t, s)
      BY <2>2, NobodysOwn
    <3> QED BY <2>2, <3>1, <3>2, <3>3
  <2> QED BY <2>1, <2>2
<1>6. Grown(players')
  BY <1>1, <1>2, <1>4, <1>5, NothingGrows, WriteOneGrows
<1>7. \A j : j \in DOMAIN players' <=> j \in DOMAIN players \/ j = i
  <2>1. /\ Rows(players) /\ i \in Player /\ t \in TourNames /\ s \in SourceIDs
        /\ Profile[t][s].born \in Birthdays
        /\ players' = WithPlayer(players, i, t, s, Profile[t][s].born)
    BY <1>1, <1>2, <1>3, <1>4
  <2> QED BY <2>1, WithPlayerIds
<1>8. DOMAIN players' \subseteq 1 .. lastId' /\ lastId' \in 0 .. MaxPlayer
  BY <1>2, <1>3, <1>7 DEF Player
<1> QED BY <1>6, <1>8 DEF WriteBio

\* A match row: who its two sides are, and whom they become.
LEMMA MatchGrows ==
    ASSUME BaseInv, NEW u \in Upstream, WriteMatch(u)
    PROVE  /\ Grown(players') /\ DOMAIN players' \subseteq 1 .. lastId' /\ lastId' \in 0 .. MaxPlayer
           /\ UNCHANGED <<aliases, reviews, run, freed>>
           /\ \E w, l \in Player :
                /\ w \in DOMAIN players' /\ players'[w].tour = u.tour
                /\ l \in DOMAIN players' /\ players'[l].tour = u.tour
                /\ \/ w \in Resolved(u.tour, u.winner)
                   \/ Resolved(u.tour, u.winner) = {} /\ w \notin DOMAIN players
                      /\ players'[w].sid = u.winner
                /\ \/ l \in Resolved(u.tour, u.loser)
                   \/ Resolved(u.tour, u.loser) = {} /\ l \notin DOMAIN players
                      /\ players'[l].sid = u.loser
                /\ DOMAIN players' = DOMAIN players \cup {w, l}
                /\ matches' =
                        {m \in matches : m.draw # u.draw \/ {m.winner, m.loser} # {w, l}}
                        \cup {[draw |-> u.draw, source |-> u.source, winner |-> w, loser |-> l,
                               won |-> u.winner, lost |-> u.loser]}
<1> DEFINE t == u.tour
<1>1. t \in TourNames /\ u.winner \in SourceIDs /\ u.loser \in SourceIDs /\ u.winner # u.loser
  BY IdentityAssumption
<1>2. PICK w \in Targets(t, u.winner, lastId + 1) :
      \E l \in Targets(t, u.loser, IF w > lastId THEN lastId + 2 ELSE lastId + 1) :
        /\ {w, l} \subseteq Player
        /\ lastId' = IF w > lastId \/ l > lastId THEN (IF w > l THEN w ELSE l) ELSE lastId
        /\ players' = WithPlayer(WithPlayer(players, w, t, u.winner, NoDay),
                                 l, t, u.loser, NoDay)
        /\ matches' = {m \in matches : m.draw # u.draw \/ {m.winner, m.loser} # {w, l}}
                \cup {[draw |-> u.draw, source |-> u.source, winner |-> w, loser |-> l,
                       won |-> u.winner, lost |-> u.loser]}
  BY DEF WriteMatch
<1>3. PICK l \in Targets(t, u.loser, IF w > lastId THEN lastId + 2 ELSE lastId + 1) :
        /\ {w, l} \subseteq Player
        /\ lastId' = IF w > lastId \/ l > lastId THEN (IF w > l THEN w ELSE l) ELSE lastId
        /\ players' = WithPlayer(WithPlayer(players, w, t, u.winner, NoDay),
                                 l, t, u.loser, NoDay)
        /\ matches' = {m \in matches : m.draw # u.draw \/ {m.winner, m.loser} # {w, l}}
                \cup {[draw |-> u.draw, source |-> u.source, winner |-> w, loser |-> l,
                       won |-> u.winner, lost |-> u.loser]}
  BY <1>2
<1>4. /\ lastId \in 0 .. MaxPlayer /\ DOMAIN players \subseteq 1 .. lastId /\ MaxPlayer \in Nat
      /\ Rows(players) /\ NoDay \in Birthdays /\ w \in Player /\ l \in Player
  BY <1>3, IdentityAssumption, NothingGrows DEF BaseInv, TypeInv, Grown, Birthdays
<1> DEFINE ps == WithPlayer(players, w, t, u.winner, NoDay)
<1>5. \/ w \in Resolved(t, u.winner) /\ w \in DOMAIN players /\ players[w].tour = t
      \/ Resolved(t, u.winner) = {} /\ w = lastId + 1
  BY ResolvedRows DEF Targets, BaseInv
<1>6. \/ l \in Resolved(t, u.loser) /\ l \in DOMAIN players /\ players[l].tour = t
      \/ Resolved(t, u.loser) = {} /\ l = (IF w > lastId THEN lastId + 2 ELSE lastId + 1)
  BY ResolvedRows DEF Targets, BaseInv
<1>7. lastId + 1 \notin DOMAIN players /\ (w \in DOMAIN players => ~(w > lastId))
      /\ (l \in DOMAIN players => ~(l > lastId))
  BY <1>4
<1>8. Resolved(t, u.winner) = {} => Unknown(players, t, u.winner)
  BY NobodysOwn
<1>9. Resolved(t, u.loser) = {} => Unknown(players, t, u.loser)
  BY NobodysOwn
<1>10. Grown(ps)
  BY <1>1, <1>4, <1>5, <1>7, <1>8, NothingGrows, WriteOneGrows
<1>11. /\ Rows(ps) /\ \A j : j \in DOMAIN ps <=> j \in DOMAIN players \/ j = w
       /\ \A j \in DOMAIN players : ps[j].tour = players[j].tour /\ ps[j].sid = players[j].sid
       /\ w \notin DOMAIN players => ps[w].tour = t /\ ps[w].sid = u.winner
  <2>1. /\ Rows(players) /\ w \in Player /\ t \in TourNames /\ u.winner \in SourceIDs
        /\ NoDay \in Birthdays /\ ps = WithPlayer(players, w, t, u.winner, NoDay)
    BY <1>1, <1>4
  <2> HIDE DEF ps
  <2> QED BY <2>1, WithPlayerIds
<1> HIDE DEF ps
<1>12. Resolved(t, u.loser) = {} => l \notin DOMAIN ps /\ Unknown(ps, t, u.loser)
  <2> SUFFICES ASSUME Resolved(t, u.loser) = {}
               PROVE  l \notin DOMAIN ps /\ Unknown(ps, t, u.loser)
    OBVIOUS
  <2>1. l = (IF w > lastId THEN lastId + 2 ELSE lastId + 1)
    BY <1>6
  <2>2. l # w /\ l \notin DOMAIN players
    BY <1>4, <1>5, <1>7, <2>1
  <2>3. Unknown(ps, t, u.loser)
    BY <1>1, <1>5, <1>9, <1>11 DEF Unknown
  <2> QED BY <1>11, <2>2, <2>3
<1>13. /\ players' = WithPlayer(ps, l, t, u.loser, NoDay)
       /\ Grown(players')
  <2>1. players' = WithPlayer(ps, l, t, u.loser, NoDay)
    BY <1>3 DEF ps
  <2>2. \/ l \in Resolved(t, u.loser)
        \/ Resolved(t, u.loser) = {} /\ l \notin DOMAIN ps /\ Unknown(ps, t, u.loser)
    <3>1. CASE Resolved(t, u.loser) = {}
      BY <1>12, <3>1
    <3>2. CASE Resolved(t, u.loser) # {}
      BY <1>6, <3>2
    <3> QED BY <3>1, <3>2
  <2> QED BY <1>1, <1>4, <1>10, <2>1, <2>2, WriteOneGrows
<1>14. /\ \A j : j \in DOMAIN players' <=> j \in DOMAIN ps \/ j = l
       /\ \A j \in DOMAIN ps : players'[j].tour = ps[j].tour /\ players'[j].sid = ps[j].sid
       /\ l \notin DOMAIN ps => players'[l].tour = t /\ players'[l].sid = u.loser
  <2>1. /\ Rows(ps) /\ l \in Player /\ t \in TourNames /\ u.loser \in SourceIDs
        /\ NoDay \in Birthdays /\ players' = WithPlayer(ps, l, t, u.loser, NoDay)
    BY <1>1, <1>4, <1>11, <1>13
  <2> QED BY <2>1, WithPlayerIds
<1>15. DOMAIN players' \subseteq 1 .. lastId' /\ lastId' \in 0 .. MaxPlayer
  BY <1>3, <1>4, <1>5, <1>6, <1>7, <1>11, <1>14 DEF Player
<1>16. /\ w \in DOMAIN players' /\ players'[w].tour = t
       /\ l \in DOMAIN players' /\ players'[l].tour = t
       /\ \/ w \in Resolved(t, u.winner)
          \/ Resolved(t, u.winner) = {} /\ w \notin DOMAIN players /\ players'[w].sid = u.winner
       /\ \/ l \in Resolved(t, u.loser)
          \/ Resolved(t, u.loser) = {} /\ l \notin DOMAIN players /\ players'[l].sid = u.loser
       /\ DOMAIN players' = DOMAIN players \cup {w, l}
  BY <1>5, <1>6, <1>7, <1>11, <1>12, <1>14
<1> QED BY <1>3, <1>4, <1>13, <1>15, <1>16 DEF WriteMatch
-----------------------------------------------------------------------------
(* Slugs that are reclaimed.                                               *)

\* Players whose slugs alone may have moved, and none while the plain slug of every
\* name is held.
Slugged(ps, qs) ==
    /\ Rows(qs) /\ DOMAIN qs = DOMAIN ps /\ (KeysOf(ps) => KeysOf(qs))
    /\ \A j \in DOMAIN ps : /\ qs[j].tour = ps[j].tour /\ qs[j].sid = ps[j].sid
                            /\ qs[j].name = ps[j].name
                            /\ qs[j].slug \in {ps[j].slug, PlainSlug(ps[j].name)}
    /\ (\A j \in DOMAIN ps : Held(ps, PlainSlug(ps[j].name))) => qs = ps

\* reclaimSlug of one row.
LEMMA ReclaimedFacts ==
    ASSUME NEW ps, Rows(ps), NEW i \in DOMAIN ps
    PROVE  /\ Slugged(ps, Reclaimed(ps, i))
           /\ \A j \in DOMAIN ps \ {i} : Reclaimed(ps, i)[j] = ps[j]
           /\ \/ Reclaimed(ps, i) = ps
              \/ Reclaimed(ps, i)[i].slug = PlainSlug(ps[i].name)
           /\ Held(Reclaimed(ps, i), PlainSlug(ps[i].name))
<1> DEFINE plain == PlainSlug(ps[i].name)
<1>1. CASE Held(ps, plain)
  <2>1. Reclaimed(ps, i) = ps
    BY <1>1 DEF Reclaimed
  <2> QED BY <1>1, <2>1 DEF Slugged
<1>2. CASE ~Held(ps, plain)
  <2> DEFINE row == [ps[i] EXCEPT !.slug = plain]
             qs == Reclaimed(ps, i)
  <2>1. ps[i] \in PlayerRow
    BY DEF Rows
  <2>2. qs = [ps EXCEPT ![i] = row]
    BY <1>2, <2>1 DEF Reclaimed, PlayerRow
  <2>3. plain \in Slugs
    <3>1. ps[i].name \in Names /\ 0 \in 0 .. MaxPlayer
      BY <2>1, IdentityAssumption DEF PlayerRow
    <3> QED BY <3>1 DEF PlainSlug, Slug, Slugs
  <2>4. /\ row \in PlayerRow /\ row.slug = plain /\ row.tour = ps[i].tour
        /\ row.sid = ps[i].sid /\ row.name = ps[i].name
    <3> HIDE DEF plain
    <3> QED BY <2>1, <2>3 DEF PlayerRow
  <2> HIDE DEF row, qs
  <2>5. /\ DOMAIN qs = DOMAIN ps /\ Rows(qs) /\ qs[i] = row
        /\ \A j \in DOMAIN ps \ {i} : qs[j] = ps[j]
    BY <2>2, <2>4 DEF Rows
  <2>6. KeysOf(ps) => KeysOf(qs)
    <3> HIDE DEF plain
    <3> QED BY <1>2, <2>4, <2>5 DEF KeysOf, Held
  <2>7. ~ \A j \in DOMAIN ps : Held(ps, PlainSlug(ps[j].name))
    BY <1>2
  <2>8. Slugged(ps, qs)
    BY <2>4, <2>5, <2>6, <2>7 DEF Slugged
  <2>9. Held(qs, plain)
    BY <2>4, <2>5 DEF Held
  <2> QED BY <2>4, <2>5, <2>8, <2>9 DEF qs
<1> QED BY <1>1, <1>2

\* One after the other.
LEMMA SluggedAgain ==
    ASSUME NEW ps, NEW qs, NEW rs, Slugged(ps, qs), Slugged(qs, rs)
    PROVE  Slugged(ps, rs)
BY DEF Slugged

\* What the loop of ReclaimFreedSlugs does with the row i.
Step(ps, i) ==
    IF i \in DOMAIN players /\ players[i].tour = Tour /\ i \in Range(aliases)
    THEN Reclaimed(ps, i) ELSE ps

\* The recursion of the model has a solution.
LEMMA ReclaimedUpToStep ==
    /\ ReclaimedUpTo[0] = players
    /\ \A i \in 1 .. MaxPlayer : ReclaimedUpTo[i] = Step(ReclaimedUpTo[i - 1], i)
<1> DEFINE Solves(n, f) ==
               /\ f[0] = players
               /\ \A i \in 1 .. n : f[i] = Step(f[i - 1], i)
           Bad == {n \in Nat : ~ \E f : Solves(n, f)}
<1>1. Bad = {}
  <2> SUFFICES ASSUME Bad # {} PROVE FALSE
    OBVIOUS
  <2>1. PICK n \in Bad : \A x \in Bad : n <= x
    <3>1. Bad \subseteq Nat
      OBVIOUS
    <3> HIDE DEF Bad
    <3> QED BY <3>1, LeastNumber
  <2>2. n # 0
    <3>1. Solves(0, [i \in {0} |-> players])
      OBVIOUS
    <3> QED BY <3>1
  <2>3. PICK f : Solves(n - 1, f)
    <3>1. n \in Nat /\ n - 1 \in Nat /\ ~(n <= n - 1)
      BY <2>2
    <3>2. n - 1 \notin Bad
      <4> HIDE DEF Bad
      <4> QED BY <2>1, <3>1
    <3> QED BY <3>1, <3>2
  <2> DEFINE g == [i \in 0 .. n |-> IF i = n THEN Step(f[n - 1], n) ELSE f[i]]
  <2>4. Solves(n, g)
    <3>1. g[0] = players
      BY <2>2, <2>3
    <3>2. ASSUME NEW i \in 1 .. n
          PROVE  g[i] = Step(g[i - 1], i)
      <4>1. i - 1 \in 0 .. n /\ i - 1 # n /\ i \in 0 .. n
        OBVIOUS
      <4>2. g[i - 1] = f[i - 1]
        BY <4>1
      <4>3. CASE i = n
        BY <4>1, <4>2, <4>3
      <4>4. CASE i # n
        <5>1. i \in 1 .. (n - 1)
          BY <4>4
        <5> QED BY <2>3, <4>1, <4>2, <4>4, <5>1
      <4> QED BY <4>3, <4>4
    <3> HIDE DEF g
    <3> QED BY <3>1, <3>2
  <2> QED BY <2>4
<1>2. PICK f : Solves(MaxPlayer, f)
  BY <1>1, IdentityAssumption
<1> DEFINE body(i, x) ==
        IF i = 0 THEN players
        ELSE IF i \in DOMAIN players /\ players[i].tour = Tour /\ i \in Range(aliases)
        THEN Reclaimed(x[i - 1], i) ELSE x[i - 1]
           g == [i \in 0 .. MaxPlayer |-> f[i]]
<1>3. MaxPlayer \in Nat
  BY IdentityAssumption
<1>4. g = [i \in 0 .. MaxPlayer |-> body(i, g)]
  <2>1. ASSUME NEW i \in 0 .. MaxPlayer
        PROVE  g[i] = body(i, g)
    <3>1. CASE i = 0
      BY <1>2, <1>3, <3>1
    <3>2. CASE i # 0
      <4>1. i \in 1 .. MaxPlayer /\ i - 1 \in 0 .. MaxPlayer
        BY <1>3, <3>2
      <4>2. f[i] = Step(f[i - 1], i)
        BY <1>2, <4>1
      <4> QED BY <3>2, <4>1, <4>2 DEF Step
    <3> QED BY <3>1, <3>2
  <2> HIDE DEF body
  <2> QED BY <2>1
<1>5. ReclaimedUpTo = [i \in 0 .. MaxPlayer |-> body(i, ReclaimedUpTo)]
  <2>1. ReclaimedUpTo = CHOOSE x : x = [i \in 0 .. MaxPlayer |-> body(i, x)]
    BY DEF ReclaimedUpTo
  <2> HIDE DEF body, g
  <2> QED BY <1>4, <2>1
<1>6. ReclaimedUpTo[0] = players
  BY <1>3, <1>5
<1>7. ASSUME NEW i \in 1 .. MaxPlayer
      PROVE  ReclaimedUpTo[i] = Step(ReclaimedUpTo[i - 1], i)
  <2>1. i \in 0 .. MaxPlayer /\ i # 0
    BY <1>3
  <2> QED BY <1>5, <2>1 DEF Step
<1> QED BY <1>6, <1>7

\* ReclaimFreedSlugs moves slugs alone, and those of players that carry an alias.
SluggedByAlias(qs) ==
    /\ Slugged(players, qs)
    /\ \A j \in DOMAIN players : j \notin Range(aliases) => qs[j].slug = players[j].slug

LEMMA FinishSlugs ==
    ASSUME Rows(players)
    PROVE  SluggedByAlias(ReclaimedUpTo[MaxPlayer])
<1> DEFINE Bad == {n \in 0 .. MaxPlayer : ~SluggedByAlias(ReclaimedUpTo[n])}
<1>1. MaxPlayer \in Nat
  BY IdentityAssumption
<1>2. Bad = {}
  <2> SUFFICES ASSUME Bad # {} PROVE FALSE
    OBVIOUS
  <2>1. PICK n \in Bad : \A x \in Bad : n <= x
    <3>1. Bad \subseteq Nat
      BY <1>1
    <3> HIDE DEF Bad
    <3> QED BY <3>1, LeastNumber
  <2>2. n # 0
    <3>1. SluggedByAlias(players)
      BY DEF SluggedByAlias, Slugged
    <3> QED BY <3>1, ReclaimedUpToStep
  <2>3. n - 1 \in 0 .. MaxPlayer /\ n \in 1 .. MaxPlayer /\ n - 1 < n
    BY <1>1, <2>2
  <2>4. SluggedByAlias(ReclaimedUpTo[n - 1])
    BY <2>1, <2>3
  <2>5. ReclaimedUpTo[n] = Step(ReclaimedUpTo[n - 1], n)
    BY <2>3, ReclaimedUpToStep
  <2>6. CASE ReclaimedUpTo[n] = ReclaimedUpTo[n - 1]
    BY <2>4, <2>6
  <2>7. CASE /\ ReclaimedUpTo[n] = Reclaimed(ReclaimedUpTo[n - 1], n)
             /\ n \in DOMAIN players /\ n \in Range(aliases)
    <3>1. Rows(ReclaimedUpTo[n - 1]) /\ n \in DOMAIN ReclaimedUpTo[n - 1]
      BY <2>4, <2>7 DEF SluggedByAlias, Slugged
    <3>2. /\ Slugged(ReclaimedUpTo[n - 1], ReclaimedUpTo[n])
          /\ \A j \in DOMAIN ReclaimedUpTo[n - 1] \ {n} :
                ReclaimedUpTo[n][j] = ReclaimedUpTo[n - 1][j]
      BY <2>7, <3>1, ReclaimedFacts
    <3>3. Slugged(players, ReclaimedUpTo[n])
      BY <2>4, <3>2, SluggedAgain DEF SluggedByAlias
    <3>4. DOMAIN ReclaimedUpTo[n - 1] = DOMAIN players
      BY <2>4 DEF SluggedByAlias, Slugged
    <3>5. \A j \in DOMAIN players :
            j \notin Range(aliases) => ReclaimedUpTo[n][j].slug = players[j].slug
      BY <2>4, <2>7, <3>2, <3>4 DEF SluggedByAlias
    <3> QED BY <3>3, <3>5 DEF SluggedByAlias
  <2>8. \/ ReclaimedUpTo[n] = ReclaimedUpTo[n - 1]
        \/ /\ ReclaimedUpTo[n] = Reclaimed(ReclaimedUpTo[n - 1], n)
           /\ n \in DOMAIN players /\ n \in Range(aliases)
    BY <2>5 DEF Step
  <2>9. SluggedByAlias(ReclaimedUpTo[n])
    BY <2>6, <2>7, <2>8
  <2> QED BY <2>1, <2>9
<1> QED BY <1>1, <1>2
-----------------------------------------------------------------------------
(* What a pass proposes.                                                   *)

\* The rows a pass reads can be counted and told apart.
Countable(rows) ==
    /\ IsFiniteSet(rows)
    /\ \A p \in rows : p.matches \in Nat /\ p.id \in Nat
    /\ \A p, q \in rows : p.id = q.id => p = q

LEMMA LoadedFacts ==
    ASSUME TypeInv, NEW t
    PROVE  /\ Countable(Loaded(t))
           /\ \A p \in Loaded(t) :
                /\ p.id \in DOMAIN players /\ players[p.id].tour = t
                /\ p.sid = players[p.id].sid /\ p.key = KeyOf[players[p.id].name]
<1> DEFINE here == {i \in DOMAIN players : players[i].tour = t}
           row(i) == [id |-> i, sid |-> players[i].sid, key |-> KeyOf[players[i].name],
                      country |-> players[i].country, born |-> players[i].born,
                      year |-> DerivedYear(i), matches |-> Cardinality(MatchesOf(i)),
                      matchOnly |-> /\ players[i].born = NoDay /\ MatchesOf(i) # {}
                                    /\ \A m \in MatchesOf(i) : m.source \in StubSources]
<1>1. Loaded(t) = {row(i) : i \in here}
  BY DEF Loaded
<1>2. IsFiniteSet(here) /\ here \subseteq Nat
  <2>1. here \subseteq Player /\ IsFiniteSet(Player) /\ Player \subseteq Nat
    BY IdentityAssumption, FS_Interval DEF TypeInv, Player
  <2> QED BY <2>1, FS_Subset
<1>3. \A i \in here : /\ row(i).id = i /\ row(i).matches = Cardinality(MatchesOf(i))
                      /\ row(i).sid = players[i].sid /\ row(i).key = KeyOf[players[i].name]
  OBVIOUS
<1>4. \A i : Cardinality(MatchesOf(i)) \in Nat
  <2> TAKE i
  <2>1. MatchesOf(i) \subseteq matches /\ IsFiniteSet(matches)
    BY DEF MatchesOf, TypeInv
  <2> QED BY <2>1, FS_Subset, FS_CardinalityType
<1> HIDE DEF row
<1>5. IsFiniteSet(Loaded(t))
  <2> DEFINE f == [i \in here |-> row(i)]
  <2>1. f \in Surjection(here, Loaded(t))
    <3> HIDE DEF here
    <3> QED BY <1>1 DEF Surjection
  <2> HIDE DEF here, f
  <2> QED BY <1>2, <2>1, FS_Surjection
<1> QED BY <1>1, <1>2, <1>3, <1>4, <1>5 DEF Countable

\* foldSameSource keeps the longest career: there is one.
LEMMA KeeperFacts ==
    ASSUME NEW rows, Countable(rows), NEW p \in rows, p.born # NoDay
    PROVE  /\ Keeper(p, rows) \in SameBirthday(p, rows)
           /\ \A q \in SameBirthday(p, rows) \ {Keeper(p, rows)} : LongerCareer(Keeper(p, rows), q)
<1> DEFINE same == SameBirthday(p, rows)
           longer == {xy \in same \X same : LongerCareer(xy[1], xy[2])}
<1>1. p \in same /\ same \subseteq rows
  BY DEF SameBirthday
<1>2. IsFiniteSet(same)
  BY <1>1, FS_Subset DEF Countable
<1>3. \A x \in same : x.matches \in Nat /\ x.id \in Nat
  BY <1>1 DEF Countable
<1>4. \A x, y \in same : x # y => x.id # y.id
  BY <1>1 DEF Countable
<1> HIDE DEF same
<1>5. \A x, y \in same : <<x, y>> \in longer <=> LongerCareer(x, y)
  OBVIOUS
<1> HIDE DEF longer
<1>6. \A x, y \in same : x # y => <<x, y>> \in longer \/ <<y, x>> \in longer
  BY <1>3, <1>4, <1>5 DEF LongerCareer
<1>7. \A x, y, z \in same : <<x, y>> \in longer /\ <<y, z>> \in longer => <<x, z>> \in longer
  BY <1>3, <1>5 DEF LongerCareer
<1>8. \E x \in same : \A y \in same \ {x} : <<x, y>> \in longer
  BY <1>1, <1>2, <1>6, <1>7, FirstOfOrder
<1>9. \E x \in same : \A y \in same \ {x} : LongerCareer(x, y)
  BY <1>5, <1>8
<1> QED BY <1>9 DEF same, Keeper

\* A link is of two of the rows that were read, namesakes or named by an override.
LEMMA ProposedLinks ==
    ASSUME NEW t, NEW rows, Countable(rows), NEW links \in Proposals(t, rows), NEW m \in links
    PROVE  \E p, q \in rows :
            /\ m.dup = p.id /\ m.dupSid = p.sid /\ m.canonical = q.id /\ m.canonicalSid = q.sid
            /\ \/ p.key = q.key
               \/ \E o \in HandMerges : o.tour = t /\ o.duplicate = p.sid /\ o.canonical = q.sid
<1> DEFINE Of(l, p, q) == /\ l.dup = p.id /\ l.dupSid = p.sid
                          /\ l.canonical = q.id /\ l.canonicalSid = q.sid
<1>1. \A p, q, c, n : Of(Link(p, q, c, n), p, q)
  BY DEF Link
<1>2. PICK proposed \in Reconciled(rows) : links = Applied(t, rows, proposed)
  BY DEF Proposals
<1>3. ASSUME NEW l \in proposed
      PROVE  /\ \E p, q \in rows : Of(l, p, q) /\ p.key = q.key
             /\ \A c : Of([l EXCEPT !.confidence = c], [id |-> l.dup, sid |-> l.dupSid],
                                                     [id |-> l.canonical, sid |-> l.canonicalSid])
  <2> DEFINE kept == Candidates(rows)
  <2>1. PICK f \in [LinkedStubs(rows) -> kept] :
            /\ \A s \in LinkedStubs(rows) : f[s] \in Best(s, kept)
            /\ proposed = FoldLinks(Backed(rows)) \cup
                           {StubLink(s, f[s], kept) : s \in LinkedStubs(rows)}
    BY <1>2 DEF Reconciled
  <2>2. Backed(rows) \subseteq rows /\ kept \subseteq rows /\ LinkedStubs(rows) \subseteq rows
    BY DEF Backed, Candidates, LinkedStubs
  <2>3. \/ l \in FoldLinks(Backed(rows))
        \/ \E s \in LinkedStubs(rows) : l = StubLink(s, f[s], kept)
    BY <2>1
  <2>4. \E p, q \in rows : \E c, n : l = Link(p, q, c, n) /\ p.key = q.key
    <3>1. CASE l \in FoldLinks(Backed(rows))
      <4>1. PICK p \in FoldedAway(Backed(rows)) :
              l = Link(p, Keeper(p, Backed(rows)), Score(Keeper(p, Backed(rows)), p), 2)
        BY <3>1 DEF FoldLinks
      <4>2. p \in Backed(rows) /\ p.born # NoDay
        BY <4>1 DEF FoldedAway
      <4>3. Countable(Backed(rows))
        BY <2>2, FS_Subset DEF Countable
      <4>4. Keeper(p, Backed(rows)) \in SameBirthday(p, Backed(rows))
        BY <4>2, <4>3, KeeperFacts
      <4>5. Keeper(p, Backed(rows)) \in rows /\ Keeper(p, Backed(rows)).key = p.key
        BY <2>2, <4>4 DEF SameBirthday
      <4> QED BY <2>2, <4>1, <4>2, <4>5
    <3>2. CASE \E s \in LinkedStubs(rows) : l = StubLink(s, f[s], kept)
      <4>1. PICK s \in LinkedStubs(rows) : l = StubLink(s, f[s], kept)
        BY <3>2
      <4>2. f[s] \in kept /\ f[s].key = s.key
        BY <2>1, <4>1 DEF Best
      <4>3. \E c, n : StubLink(s, f[s], kept) = Link(s, f[s], c, n)
        BY DEF StubLink
      <4> QED BY <2>2, <4>1, <4>2, <4>3
    <3> QED BY <2>3, <3>1, <3>2
  <2>5. PICK p, q \in rows : \E c, n : l = Link(p, q, c, n) /\ p.key = q.key
    BY <2>4
  <2>6. Of(l, p, q)
    BY <1>1, <2>5
  <2>7. ASSUME NEW d
        PROVE  Of([l EXCEPT !.confidence = d], [id |-> l.dup, sid |-> l.dupSid],
                                               [id |-> l.canonical, sid |-> l.canonicalSid])
    BY <2>5 DEF Link
  <2> QED BY <2>5, <2>6, <2>7
<1> DEFINE named == {pq \in rows \X rows : \E o \in HandMerges :
                        o.tour = t /\ pq[1].sid = o.duplicate /\ pq[2].sid = o.canonical}
<1>4. \/ \E l \in proposed : \E c : m = [l EXCEPT !.confidence = c]
      \/ \E pq \in named : m = Link(pq[1], pq[2], 100, 3)
  BY <1>2 DEF Applied
<1>5. CASE \E l \in proposed : \E c : m = [l EXCEPT !.confidence = c]
  BY <1>3, <1>5
<1>6. CASE \E pq \in named : m = Link(pq[1], pq[2], 100, 3)
  BY <1>1, <1>6
<1> QED BY <1>4, <1>5, <1>6
-----------------------------------------------------------------------------
(* Types, keys and links, whatever the data.                               *)

LEMMA RowsOfPlayers ==
    ASSUME TypeInv
    PROVE  Rows(players) /\ DOMAIN players \subseteq Player /\ MaxPlayer \in Nat
BY IdentityAssumption DEF TypeInv, Rows, Player

LEMMA InitBase == Init => BaseInv
<1> SUFFICES ASSUME Init PROVE BaseInv
  OBVIOUS
<1>1. MaxPlayer \in Nat
  BY IdentityAssumption
<1>2. TypeInv
  <2>1. /\ players \in [DOMAIN players -> PlayerRow] /\ DOMAIN players \subseteq 1 .. lastId
        /\ aliases \in [DOMAIN aliases -> DOMAIN players]
        /\ DOMAIN aliases \subseteq Sources \X SourceIDs
    BY DEF Init
  <2>2. matches \subseteq MatchRow /\ IsFiniteSet(matches)
    BY FS_EmptySet DEF Init
  <2>3. /\ run.tours \in Seq(TourNames)
        /\ run = [tours |-> run.tours, loaded |-> run.loaded, links |-> run.links]
    BY DEF Init, NoRun
  <2>4. lastId \in 0 .. MaxPlayer /\ freed \in [Player -> SUBSET Slugs]
    BY <1>1 DEF Init
  <2> QED BY <2>1, <2>2, <2>3, <2>4 DEF TypeInv
<1> QED BY <1>2 DEF Init, BaseInv, KeysHold, KeysOf, LinkInv, NoRun

\* What a source says of rows of the table matches.
LEMMA SourceFacts ==
    ASSUME TypeInv, NEW i, NEW source \in SourcesOf(i)
    PROVE  source \in Sources
<1>1. CASE MatchesOf(i) = {}
  BY <1>1 DEF SourcesOf, Sources
<1>2. CASE MatchesOf(i) # {}
  <2>1. source \in Range([m \in MatchesOf(i) |-> m.source])
    BY <1>2 DEF SourcesOf, MostFrequent
  <2>2. PICK m \in MatchesOf(i) : source = m.source
    BY <2>1 DEF Range
  <2>3. m \in MatchRow
    BY <2>2 DEF MatchesOf, TypeInv
  <2> QED BY <2>2, <2>3 DEF MatchRow
<1> QED BY <1>1, <1>2

LEMMA BioBase ==
    ASSUME BaseInv, NEW t, NEW s, <<t, s>> \in Bios, WriteBio(t, s)
    PROVE  BaseInv'
<1>1. /\ Grown(players') /\ DOMAIN players' \subseteq 1 .. lastId' /\ lastId' \in 0 .. MaxPlayer
      /\ UNCHANGED <<matches, aliases, run, freed>>
  BY BioGrows
<1>2. TypeInv'
  <2>1. players' \in [DOMAIN players' -> PlayerRow] /\ DOMAIN players \subseteq DOMAIN players'
    BY <1>1 DEF Grown, Rows
  <2>2. aliases' \in [DOMAIN aliases' -> DOMAIN players']
    BY <1>1, <2>1 DEF BaseInv, TypeInv
  <2> QED BY <1>1, <2>1, <2>2 DEF BaseInv, TypeInv
<1>3. KeysHold'
  BY <1>1 DEF Grown, KeysHold, KeysOf
<1>4. Idle
  BY DEF WriteBio
<1> QED BY <1>1, <1>2, <1>3, <1>4 DEF BaseInv, LinkInv, Idle

LEMMA MatchBase ==
    ASSUME BaseInv, NEW u \in Upstream, WriteMatch(u)
    PROVE  BaseInv'
<1>1. /\ Grown(players') /\ DOMAIN players' \subseteq 1 .. lastId' /\ lastId' \in 0 .. MaxPlayer
      /\ UNCHANGED <<aliases, reviews, run, freed>>
  BY MatchGrows
<1>2. PICK w, l \in Player :
        matches' = {m \in matches : m.draw # u.draw \/ {m.winner, m.loser} # {w, l}}
                   \cup {[draw |-> u.draw, source |-> u.source, winner |-> w, loser |-> l,
                          won |-> u.winner, lost |-> u.loser]}
  <2> HIDE DEF Player
  <2>1. \E w, l \in Player :
          matches' = {m \in matches : m.draw # u.draw \/ {m.winner, m.loser} # {w, l}}
                     \cup {[draw |-> u.draw, source |-> u.source, winner |-> w, loser |-> l,
                            won |-> u.winner, lost |-> u.loser]}
    BY MatchGrows
  <2> QED BY <2>1
<1> DEFINE kept == {m \in matches : m.draw # u.draw \/ {m.winner, m.loser} # {w, l}}
           new == [draw |-> u.draw, source |-> u.source, winner |-> w, loser |-> l,
                   won |-> u.winner, lost |-> u.loser]
<1>3. matches' \subseteq MatchRow /\ IsFiniteSet(matches')
  <2>1. new \in MatchRow
    BY IdentityAssumption DEF MatchRow, Sources
  <2>2. kept \subseteq matches /\ matches \subseteq MatchRow /\ IsFiniteSet(matches)
    BY DEF BaseInv, TypeInv
  <2>3. matches' = kept \cup {new}
    BY <1>2
  <2> HIDE DEF kept, new
  <2>4. IsFiniteSet(kept)
    BY <2>2, FS_Subset
  <2> QED BY <2>1, <2>2, <2>3, <2>4, FS_AddElement
<1>4. TypeInv'
  <2>1. players' \in [DOMAIN players' -> PlayerRow] /\ DOMAIN players \subseteq DOMAIN players'
    BY <1>1 DEF Grown, Rows
  <2>2. aliases' \in [DOMAIN aliases' -> DOMAIN players']
    BY <1>1, <2>1 DEF BaseInv, TypeInv
  <2> QED BY <1>1, <1>3, <2>1, <2>2 DEF BaseInv, TypeInv
<1>5. KeysHold'
  BY <1>1 DEF Grown, KeysHold, KeysOf
<1>6. Idle
  BY DEF WriteMatch
<1> QED BY <1>1, <1>4, <1>5, <1>6 DEF BaseInv, LinkInv, Idle

\* The rows of a link that is read: of one tour, by their ids.
LEMMA LoadedLinks ==
    ASSUME BaseInv, Load, NEW m \in run'.links
    PROVE  /\ m.dup \in DOMAIN players /\ m.canonical \in DOMAIN players
           /\ players[m.dup].tour = Tour /\ players[m.canonical].tour = Tour
           /\ m.dupSid = players[m.dup].sid /\ m.canonicalSid = players[m.canonical].sid
           /\ \/ KeyOf[players[m.dup].name] = KeyOf[players[m.canonical].name]
              \/ \E o \in HandMerges :
                    o.tour = Tour /\ o.duplicate = m.dupSid /\ o.canonical = m.canonicalSid
<1>1. run'.links \in Proposals(Tour, Loaded(Tour))
  BY DEF Load, BaseInv, TypeInv
<1>2. /\ Countable(Loaded(Tour))
      /\ \A p \in Loaded(Tour) :
            /\ p.id \in DOMAIN players /\ players[p.id].tour = Tour
            /\ p.sid = players[p.id].sid /\ p.key = KeyOf[players[p.id].name]
  BY LoadedFacts DEF BaseInv
<1>3. PICK p, q \in Loaded(Tour) :
        /\ m.dup = p.id /\ m.dupSid = p.sid /\ m.canonical = q.id /\ m.canonicalSid = q.sid
        /\ \/ p.key = q.key
           \/ \E o \in HandMerges : o.tour = Tour /\ o.duplicate = p.sid /\ o.canonical = q.sid
  BY <1>1, <1>2, ProposedLinks
<1> QED BY <1>2, <1>3

LEMMA LoadBase == BaseInv /\ Load => BaseInv'
<1> SUFFICES ASSUME BaseInv, Load PROVE BaseInv'
  OBVIOUS
<1>1. /\ UNCHANGED <<players, matches, aliases, lastId, freed>> /\ ~Idle
      /\ \E links : run' = [run EXCEPT !.loaded = TRUE, !.links = links]
  BY DEF Load, database
<1>2. /\ run'.tours = run.tours
      /\ run' = [tours |-> run'.tours, loaded |-> run'.loaded, links |-> run'.links]
  BY <1>1 DEF BaseInv, TypeInv
<1>3. TypeInv' /\ KeysHold' /\ ~Idle' /\ Tour' = Tour
  BY <1>1, <1>2 DEF BaseInv, TypeInv, KeysHold, KeysOf, Idle, Tour
<1>4. \A i \in DOMAIN players : i \in Player /\ players[i].sid \in SourceIDs
  BY RowsOfPlayers DEF BaseInv, Rows, PlayerRow
<1>5. LinkInv'
  BY <1>1, <1>3, <1>4, LoadedLinks DEF LinkInv, Names2
<1> QED BY <1>3, <1>5 DEF BaseInv

\* A run that begins, or ends early.
LEMMA NoLinksBase ==
    ASSUME BaseInv, UNCHANGED <<players, matches, aliases, lastId, freed>>,
           NEW tours \in Seq(TourNames), run' = [NoRun EXCEPT !.tours = tours]
    PROVE  BaseInv'
<1>1. /\ run'.tours = tours /\ run'.links = {}
      /\ run' = [tours |-> run'.tours, loaded |-> run'.loaded, links |-> run'.links]
  BY DEF NoRun
<1> QED BY <1>1 DEF BaseInv, TypeInv, KeysHold, KeysOf, LinkInv

\* A link that is dealt with leaves the others.
LEMMA TakenBase ==
    ASSUME BaseInv, NEW m \in run.links, run' = Taken(m),
           \A i \in DOMAIN players' : /\ i \in DOMAIN players
                                     /\ players'[i].tour = players[i].tour
                                     /\ players'[i].sid = players[i].sid
    PROVE  /\ run'.tours \in Seq(TourNames) /\ LinkInv' /\ Tour' = Tour /\ ~Idle
           /\ run' = [tours |-> run'.tours, loaded |-> run'.loaded, links |-> run'.links]
           /\ run'.links \subseteq run.links
<1>1. /\ run'.tours = run.tours /\ run'.links = run.links \ {m}
      /\ run' = [tours |-> run'.tours, loaded |-> run'.loaded, links |-> run'.links]
  BY DEF BaseInv, TypeInv, Taken
<1>2. ~Idle /\ ~Idle' /\ Tour' = Tour /\ run.tours \in Seq(TourNames)
  BY <1>1 DEF BaseInv, LinkInv, TypeInv, Idle, Tour
<1>3. LinkInv'
  BY <1>1, <1>2 DEF BaseInv, LinkInv, Names2
<1> QED BY <1>1, <1>2, <1>3

LEMMA QueueBase ==
    ASSUME BaseInv, NEW m \in run.links, Queue(m)
    PROVE  BaseInv'
<1>1. UNCHANGED <<players, matches, aliases, lastId, freed>> /\ run' = Taken(m)
  BY DEF Queue
<1>2. /\ run'.tours \in Seq(TourNames) /\ LinkInv'
      /\ run' = [tours |-> run'.tours, loaded |-> run'.loaded, links |-> run'.links]
  BY <1>1, TakenBase
<1> QED BY <1>1, <1>2 DEF BaseInv, TypeInv, KeysHold, KeysOf

\* The row folded away is gone, and the others keep all but their slugs.
LEMMA MergeRows ==
    ASSUME BaseInv, NEW m \in run.links, Merge(m)
    PROVE  LET ps == Without(players, m.dup) IN
           /\ m.canonical \in DOMAIN players /\ m.dup # m.canonical
           /\ \A j : j \in DOMAIN ps <=> j \in DOMAIN players /\ j # m.dup
           /\ \A j \in DOMAIN ps : ps[j] = players[j]
           /\ players' = Reclaimed(ps, m.canonical) /\ m.canonical \in DOMAIN ps
           /\ Rows(ps) /\ KeysOf(ps) /\ Slugged(ps, players')
<1> DEFINE ps == Without(players, m.dup)
<1>1. ~Refused(m) /\ IsAuto(m) /\ players' = Reclaimed(ps, m.canonical)
  BY DEF Merge
<1>2. m.canonical \in DOMAIN players /\ m.dup # m.canonical
  BY <1>1 DEF Refused
<1>3. /\ \A j : j \in DOMAIN ps <=> j \in DOMAIN players /\ j # m.dup
      /\ \A j \in DOMAIN ps : ps[j] = players[j]
      /\ ps = [j \in DOMAIN ps |-> ps[j]]
  BY DEF Without
<1>4. Rows(players) /\ KeysOf(players)
  BY RowsOfPlayers DEF BaseInv, KeysHold
<1> HIDE DEF ps
<1>5. Rows(ps) /\ KeysOf(ps)
  BY <1>3, <1>4 DEF Rows, KeysOf
<1>6. Slugged(ps, players')
  BY <1>1, <1>2, <1>3, <1>5, ReclaimedFacts
<1> QED BY <1>1, <1>2, <1>3, <1>5, <1>6 DEF ps

LEMMA MergeBase ==
    ASSUME BaseInv, NEW m \in run.links, Merge(m)
    PROVE  BaseInv'
<1> DEFINE ps == Without(players, m.dup)
<1>1. /\ m.canonical \in DOMAIN players /\ m.dup # m.canonical
      /\ \A j : j \in DOMAIN ps <=> j \in DOMAIN players /\ j # m.dup
      /\ \A j \in DOMAIN ps : ps[j] = players[j]
      /\ players' = Reclaimed(ps, m.canonical) /\ m.canonical \in DOMAIN ps
      /\ Rows(ps) /\ KeysOf(ps) /\ Slugged(ps, players')
  BY MergeRows
<1> HIDE DEF ps
<1>2. /\ Rows(players') /\ KeysOf(players') /\ DOMAIN players' = DOMAIN ps
      /\ \A j \in DOMAIN ps : players'[j].tour = ps[j].tour /\ players'[j].sid = ps[j].sid
  BY <1>1 DEF Slugged
<1>3. \A j : j \in DOMAIN players' <=> j \in DOMAIN players /\ j # m.dup
  BY <1>1, <1>2
<1>4. /\ run'.tours \in Seq(TourNames) /\ LinkInv'
      /\ run' = [tours |-> run'.tours, loaded |-> run'.loaded, links |-> run'.links]
  <2>1. run' = Taken(m)
    BY DEF Merge
  <2>2. \A j \in DOMAIN players' : /\ j \in DOMAIN players
                                  /\ players'[j].tour = players[j].tour
                                  /\ players'[j].sid = players[j].sid
    BY <1>1, <1>2, <1>3
  <2> QED BY <2>1, <2>2, TakenBase
<1>5. m.dup \in Player /\ m.canonical \in Player /\ m.dupSid \in SourceIDs
  BY DEF BaseInv, LinkInv
<1>6. matches' \subseteq MatchRow /\ IsFiniteSet(matches')
  <2> DEFINE f == [x \in matches |-> AfterMove(x, m)]
  <2>1. matches' = {AfterMove(x, m) : x \in matches}
    BY DEF Merge
  <2>2. IsFiniteSet(matches) /\ matches \subseteq MatchRow
    BY DEF BaseInv, TypeInv
  <2>3. f \in Surjection(matches, matches')
    BY <2>1 DEF Surjection
  <2>4. ASSUME NEW x \in matches
        PROVE  AfterMove(x, m) \in MatchRow
    <3>1. x \in MatchRow
      BY <2>2
    <3>2. x.winner \in Player /\ x.loser \in Player
      BY <3>1 DEF MatchRow
    <3>3. Moved(x.winner, m) \in Player /\ Moved(x.loser, m) \in Player
      BY <1>5, <3>2 DEF Moved
    <3>4. AfterMove(x, m) = [x EXCEPT !.winner = Moved(x.winner, m), !.loser = Moved(x.loser, m)]
      BY <3>1 DEF AfterMove, MatchRow
    <3> QED BY <3>1, <3>3, <3>4 DEF MatchRow
  <2> HIDE DEF f
  <2>5. IsFiniteSet(matches')
    BY <2>2, <2>3, FS_Surjection
  <2> QED BY <2>1, <2>4, <2>5
<1>7. aliases' \in [DOMAIN aliases' -> DOMAIN players'] /\ DOMAIN aliases' \subseteq Sources \X SourceIDs
  <2>1. PICK source \in SourcesOf(m.dup) :
          aliases' = With(AliasesMoved(m), <<source, m.dupSid>>, m.canonical)
    BY DEF Merge
  <2>2. source \in Sources
    BY <2>1, SourceFacts DEF BaseInv
  <2> DEFINE key == <<source, m.dupSid>>
  <2>3. aliases' = [k \in DOMAIN aliases \cup {key} |->
                        IF k = key THEN m.canonical ELSE Moved(aliases[k], m)]
    BY <2>1 DEF With, AliasesMoved
  <2>4. key \in Sources \X SourceIDs /\ DOMAIN aliases \subseteq Sources \X SourceIDs
    BY <1>5, <2>2 DEF BaseInv, TypeInv
  <2>5. \A k \in DOMAIN aliases : aliases[k] \in DOMAIN players
    BY DEF BaseInv, TypeInv
  <2> HIDE DEF key
  <2>6. \A k \in DOMAIN aliases : Moved(aliases[k], m) \in DOMAIN players'
    BY <1>1, <1>3, <2>5 DEF Moved
  <2>7. m.canonical \in DOMAIN players'
    BY <1>1, <1>3
  <2> QED BY <2>3, <2>4, <2>6, <2>7
<1>8. freed' \in [Player -> SUBSET Slugs]
  <2>1. freed \in [Player -> SUBSET Slugs]
    BY DEF BaseInv, TypeInv
  <2>2. CASE m.dup \in DOMAIN players
    <3>1. players[m.dup].slug \in Slugs
      BY <2>2, RowsOfPlayers DEF BaseInv, Rows, PlayerRow
    <3>2. freed' = [freed EXCEPT ![m.canonical] = @ \cup freed[m.dup] \cup {players[m.dup].slug}]
      BY <2>2 DEF Merge
    <3> QED BY <1>5, <2>1, <3>1, <3>2
  <2>3. CASE m.dup \notin DOMAIN players
    BY <2>1, <2>3 DEF Merge
  <2> QED BY <2>2, <2>3
<1>9. /\ lastId' \in 0 .. MaxPlayer /\ DOMAIN players' \subseteq 1 .. lastId'
      /\ players' \in [DOMAIN players' -> PlayerRow]
  BY <1>2, <1>3 DEF Merge, Rows, BaseInv, TypeInv
<1> QED BY <1>2, <1>4, <1>6, <1>7, <1>8, <1>9 DEF BaseInv, TypeInv, KeysHold, KeysOf

\* The end of a tour.
LEMMA FinishRows ==
    ASSUME BaseInv, FinishTour
    PROVE  SluggedByAlias(players') /\ Slugged(players, players') /\ DOMAIN players' = DOMAIN players
<1>1. Rows(players) /\ players' = ReclaimedUpTo[MaxPlayer]
  BY RowsOfPlayers DEF BaseInv, FinishTour
<1> QED BY <1>1, FinishSlugs DEF SluggedByAlias, Slugged

LEMMA FinishBase == BaseInv /\ FinishTour => BaseInv'
<1> SUFFICES ASSUME BaseInv, FinishTour PROVE BaseInv'
  OBVIOUS
<1>1. /\ Slugged(players, players') /\ DOMAIN players' = DOMAIN players /\ Rows(players')
      /\ KeysOf(players')
  BY FinishRows DEF Slugged, BaseInv, KeysHold
<1>2. UNCHANGED <<matches, aliases, lastId, freed>>
  BY DEF FinishTour
<1>3. /\ run'.tours \in Seq(TourNames) /\ run'.links = {}
      /\ run' = [tours |-> run'.tours, loaded |-> run'.loaded, links |-> run'.links]
  <2>1. run' = [NoRun EXCEPT !.tours = Tail(run.tours)] /\ run.tours # << >>
    BY DEF FinishTour, Idle
  <2>2. Tail(run.tours) \in Seq(TourNames)
    BY <2>1 DEF BaseInv, TypeInv
  <2> QED BY <2>1, <2>2 DEF NoRun
<1>4. aliases' \in [DOMAIN aliases' -> DOMAIN players'] /\ DOMAIN aliases' \subseteq Sources \X SourceIDs
  BY <1>1, <1>2 DEF BaseInv, TypeInv
<1>5. players' \in [DOMAIN players' -> PlayerRow] /\ DOMAIN players' \subseteq 1 .. lastId'
  BY <1>1, <1>2 DEF BaseInv, TypeInv, Rows
<1> QED BY <1>1, <1>2, <1>3, <1>4, <1>5 DEF BaseInv, TypeInv, KeysHold, KeysOf, LinkInv

LEMMA NextBase == BaseInv /\ [Next]_vars => BaseInv'
<1> SUFFICES ASSUME BaseInv, [Next]_vars PROVE BaseInv'
  OBVIOUS
<1>1. CASE \E u \in Upstream : WriteMatch(u)
  BY <1>1, MatchBase
<1>2. CASE \E k \in Bios : WriteBio(k[1], k[2])
  <2>1. PICK k \in Bios : WriteBio(k[1], k[2])
    BY <1>2
  <2>2. <<k[1], k[2]>> \in Bios
    BY IdentityAssumption DEF Ids
  <2> QED BY <2>1, <2>2, BioBase
<1>3. CASE Start
  BY <1>3, NoLinksBase, IdentityAssumption DEF Start, database
<1>4. CASE Load
  BY <1>4, LoadBase
<1>5. CASE FinishTour
  BY <1>5, FinishBase
<1>6. CASE \E m \in run.links : Merge(m)
  BY <1>6, MergeBase
<1>7. CASE \E m \in run.links : Queue(m)
  BY <1>7, QueueBase
<1>8. CASE (\E m \in run.links : Fail(m)) \/ Kill
  <2>1. UNCHANGED <<players, matches, aliases, lastId, freed>> /\ run' = NoRun
    BY <1>8 DEF Fail, Kill, database
  <2>2. NoRun = [NoRun EXCEPT !.tours = << >>] /\ << >> \in Seq(TourNames)
    BY DEF NoRun
  <2> QED BY <2>1, <2>2, NoLinksBase
<1>9. CASE UNCHANGED vars
  BY <1>9 DEF vars, BaseInv, TypeInv, KeysHold, KeysOf, LinkInv, Names2, Idle, Tour
<1> QED BY <1>1, <1>2, <1>3, <1>4, <1>5, <1>6, <1>7, <1>8, <1>9 DEF Next, RunStep

\* Whatever the rows and the overrides, an id of a tour is one player's own at most, no
\* slug is two players', every alias points at a player that is there, and a link that is
\* still to be taken is of rows of its tour.
THEOREM SpecBase == Spec => []BaseInv
<1>1. Init => BaseInv
  BY InitBase
<1>2. BaseInv /\ [Next]_vars => BaseInv'
  BY NextBase
<1> QED BY <1>1, <1>2, PTL DEF Spec
-----------------------------------------------------------------------------
(* Whom an id stands for.                                                  *)

\* IdsFollowTheirRow, of one id and one step.
Follows(t, s) ==
    LET now == Resolved(t, s)
        after == Resolved(t, s)'
    IN  now = {} \/ after = now \/ \E m \in run.links :
            /\ Merge(m)
            /\ \/ after = {Moved(i, m) : i \in now}
               \/ /\ s = m.dupSid
                  /\ \/ m.dup \notin DOMAIN players
                     \/ \E n \in DOMAIN aliases : n[2] = m.dupSid

\* A row of a source: who is there keeps his ids, and who is new has an id nobody had.
LEMMA GrownFollows ==
    ASSUME BaseInv, Grown(players'), UNCHANGED aliases, NEW t, NEW s
    PROVE  Follows(t, s)
<1> SUFFICES ASSUME Resolved(t, s) # {} PROVE Resolved(t, s)' = Resolved(t, s)
  BY DEF Follows
<1>1. \A k \in DOMAIN aliases : aliases[k] \in DOMAIN players
  BY DEF BaseInv, TypeInv
<1>2. /\ \A j \in DOMAIN players : /\ j \in DOMAIN players'
                                   /\ players'[j].tour = players[j].tour
                                   /\ players'[j].sid = players[j].sid
      /\ \A j \in DOMAIN players' \ DOMAIN players :
            Resolved(players'[j].tour, players'[j].sid) = {}
  BY DEF Grown
<1>3. Aliased(t, s)' = Aliased(t, s)
  BY <1>1, <1>2 DEF Aliased
<1>4. OwnRow(t, s)' = OwnRow(t, s)
  <2>1. ASSUME NEW j \in DOMAIN players' \ DOMAIN players
        PROVE  ~(players'[j].tour = t /\ players'[j].sid = s)
    BY <1>2
  <2> QED BY <1>2, <2>1 DEF OwnRow
<1> QED BY <1>3, <1>4 DEF Resolved

\* Nothing moves but slugs.
LEMMA SluggedFollows ==
    ASSUME UNCHANGED aliases, BaseInv, Slugged(players, players'), NEW t, NEW s
    PROVE  Follows(t, s)
<1>1. \A k \in DOMAIN aliases : aliases[k] \in DOMAIN players
  BY DEF BaseInv, TypeInv
<1>2. /\ DOMAIN players' = DOMAIN players
      /\ \A j \in DOMAIN players : /\ players'[j].tour = players[j].tour
                                   /\ players'[j].sid = players[j].sid
  BY DEF Slugged
<1>3. Aliased(t, s)' = Aliased(t, s) /\ OwnRow(t, s)' = OwnRow(t, s)
  BY <1>1, <1>2 DEF Aliased, OwnRow
<1> QED BY <1>3 DEF Resolved, Follows

\* A merge takes what stood for the row folded away to the row that is kept.
LEMMA MergeFollows ==
    ASSUME BaseInv, NEW m \in run.links, Merge(m), NEW t, NEW s
    PROVE  Follows(t, s)
<1> DEFINE ps == Without(players, m.dup)
<1>1. /\ m.canonical \in DOMAIN players /\ m.dup # m.canonical
      /\ \A j : j \in DOMAIN ps <=> j \in DOMAIN players /\ j # m.dup
      /\ \A j \in DOMAIN ps : ps[j] = players[j]
      /\ Slugged(ps, players')
  BY MergeRows
<1> HIDE DEF ps
<1>2. /\ \A j : j \in DOMAIN players' <=> j \in DOMAIN players /\ j # m.dup
      /\ \A j \in DOMAIN players' : /\ players'[j].tour = players[j].tour
                                   /\ players'[j].sid = players[j].sid
  BY <1>1 DEF Slugged
<1>3. /\ players[m.canonical].tour = Tour
      /\ m.dup \in DOMAIN players => players[m.dup].tour = Tour /\ players[m.dup].sid = m.dupSid
  BY <1>1 DEF BaseInv, LinkInv, Names2
<1>4. \A k \in DOMAIN aliases : aliases[k] \in DOMAIN players
  BY DEF BaseInv, TypeInv
<1>5. PICK source \in SourcesOf(m.dup) :
        aliases' = With(AliasesMoved(m), <<source, m.dupSid>>, m.canonical)
  BY DEF Merge
<1> DEFINE key == <<source, m.dupSid>>
<1>6. /\ DOMAIN aliases' = DOMAIN aliases \cup {key} /\ aliases'[key] = m.canonical
      /\ \A k \in DOMAIN aliases \ {key} : aliases'[k] = Moved(aliases[k], m)
      /\ key[2] = m.dupSid
  BY <1>5 DEF With, AliasesMoved
<1> HIDE DEF key
<1>7. CASE s # m.dupSid
  <2>1. ASSUME NEW k \in DOMAIN aliases, k[2] = s
        PROVE  /\ k \in DOMAIN aliases' /\ aliases'[k] = Moved(aliases[k], m)
               /\ aliases'[k] \in DOMAIN players'
               /\ players'[aliases'[k]].tour = players[aliases[k]].tour
    <3>1. k # key
      BY <1>6, <1>7, <2>1
    <3>2. k \in DOMAIN aliases' /\ aliases'[k] = Moved(aliases[k], m)
      BY <1>6, <3>1
    <3>3. CASE aliases[k] = m.dup
      <4>1. m.dup \in DOMAIN players
        BY <1>4, <3>3
      <4> QED BY <1>1, <1>2, <1>3, <3>2, <3>3, <4>1 DEF Moved
    <3>4. CASE aliases[k] # m.dup
      BY <1>2, <1>4, <3>2, <3>4 DEF Moved
    <3> QED BY <3>2, <3>3, <3>4
  <2>2. \A k \in DOMAIN aliases' : k[2] = s => k \in DOMAIN aliases
    BY <1>6, <1>7
  <2>3. Aliased(t, s)' = {Moved(i, m) : i \in Aliased(t, s)}
    BY <2>1, <2>2 DEF Aliased
  <2>4. OwnRow(t, s)' = {Moved(i, m) : i \in OwnRow(t, s)}
    <3>1. m.dup \notin OwnRow(t, s)
      BY <1>3, <1>7 DEF OwnRow
    <3>2. \A i \in OwnRow(t, s) : Moved(i, m) = i
      BY <3>1 DEF Moved
    <3>3. OwnRow(t, s)' = OwnRow(t, s)
      BY <1>2, <3>1 DEF OwnRow
    <3> QED BY <3>2, <3>3
  <2>5. Resolved(t, s)' = {Moved(i, m) : i \in Resolved(t, s)}
    BY <2>3, <2>4 DEF Resolved
  <2> QED BY <2>5 DEF Follows
<1>8. CASE s = m.dupSid /\ m.dup \in DOMAIN players /\ \A n \in DOMAIN aliases : n[2] # m.dupSid
  <2>1. Aliased(t, s) = {}
    BY <1>8 DEF Aliased
  <2>2. Resolved(t, s) = OwnRow(t, s)
    BY <2>1 DEF Resolved
  <2>3. Aliased(t, s)' = IF t = Tour THEN {m.canonical} ELSE {}
    <3>1. \A k \in DOMAIN aliases' : k[2] = s <=> k = key
      BY <1>6, <1>8
    <3>2. players'[m.canonical].tour = Tour
      BY <1>1, <1>2, <1>3
    <3> QED BY <1>6, <3>1, <3>2 DEF Aliased
  <2>4. CASE t = Tour
    <3>1. OwnRow(t, s) = {m.dup}
      BY <1>3, <1>8, <2>4 DEF OwnRow, BaseInv, KeysHold, KeysOf
    <3>2. Resolved(t, s)' = {m.canonical}
      BY <2>3, <2>4 DEF Resolved
    <3>3. Resolved(t, s)' = {Moved(i, m) : i \in Resolved(t, s)}
      BY <2>2, <3>1, <3>2 DEF Moved
    <3> QED BY <3>3 DEF Follows
  <2>5. CASE t # Tour
    <3>1. OwnRow(t, s)' = OwnRow(t, s)
      BY <1>2, <1>3, <2>5 DEF OwnRow
    <3>2. Resolved(t, s)' = Resolved(t, s)
      BY <2>2, <2>3, <2>5, <3>1 DEF Resolved
    <3> QED BY <3>2 DEF Follows
  <2> QED BY <2>4, <2>5
<1>9. CASE s = m.dupSid /\ (m.dup \notin DOMAIN players \/ \E n \in DOMAIN aliases : n[2] = m.dupSid)
  BY <1>9 DEF Follows
<1> QED BY <1>7, <1>8, <1>9

LEMMA NextFollows ==
    ASSUME BaseInv, [Next]_vars, NEW t, NEW s
    PROVE  Follows(t, s)
<1>1. CASE \E u \in Upstream : WriteMatch(u)
  BY <1>1, MatchGrows, GrownFollows
<1>2. CASE \E k \in Bios : WriteBio(k[1], k[2])
  <2>1. PICK k \in Bios : WriteBio(k[1], k[2])
    BY <1>2
  <2>2. <<k[1], k[2]>> \in Bios
    BY IdentityAssumption DEF Ids
  <2> QED BY <2>1, <2>2, BioGrows, GrownFollows
<1>3. CASE FinishTour
  BY <1>3, FinishRows, SluggedFollows DEF FinishTour
<1>4. CASE \E m \in run.links : Merge(m)
  BY <1>4, MergeFollows
<1>5. CASE UNCHANGED <<players, aliases>>
  BY <1>5 DEF Follows, Resolved, Aliased, OwnRow
<1>6. CASE Start \/ Load \/ (\E m \in run.links : Queue(m) \/ Fail(m)) \/ Kill \/ UNCHANGED vars
  BY <1>5, <1>6 DEF Start, Load, Queue, Fail, Kill, database, vars
<1> QED BY <1>1, <1>2, <1>3, <1>4, <1>6 DEF Next, RunStep

\* Merge: "a re-ingest resolves the duplicate id straight to the canonical row".  An id
\* goes on standing for the row it stood for, or for the one that row is folded into;
\* the number of the row that is folded away does unless the row is gone already, or
\* there is an alias of that number.
THEOREM SpecIdsFollowTheirRow == Spec => IdsFollowTheirRow
<1>1. BaseInv /\ [Next]_vars => [\A k \in Ids : Follows(k[1], k[2])]_vars
  BY NextFollows
<1>2. IdsFollowTheirRow <=> [][\A k \in Ids : Follows(k[1], k[2])]_vars
  BY DEF IdsFollowTheirRow, Follows
<1> QED BY <1>1, <1>2, SpecBase, PTL DEF Spec
-----------------------------------------------------------------------------
(* What is left behind by a merge.                                         *)

LEMMA MatchStrands ==
    ASSUME BaseInv, NothingIsStranded, NEW u \in Upstream, WriteMatch(u)
    PROVE  NothingIsStranded'
<1>1. Grown(players') /\ UNCHANGED <<aliases, reviews>>
  BY MatchGrows
<1>2. \A j \in DOMAIN players : j \in DOMAIN players'
  BY <1>1 DEF Grown
<1>3. PICK w, l \in Player :
        /\ w \in DOMAIN players' /\ l \in DOMAIN players'
        /\ matches' =
                {m \in matches : m.draw # u.draw \/ {m.winner, m.loser} # {w, l}}
                \cup {[draw |-> u.draw, source |-> u.source, winner |-> w, loser |-> l,
                       won |-> u.winner, lost |-> u.loser]}
  <2> HIDE DEF Player
  <2> QED BY MatchGrows
<1> DEFINE new == [draw |-> u.draw, source |-> u.source, winner |-> w, loser |-> l,
                   won |-> u.winner, lost |-> u.loser]
<1>4. new.draw = u.draw /\ new.winner = w /\ new.loser = l
  OBVIOUS
<1>5. /\ \A m \in matches' : m = new \/ m \in matches
      /\ \A m \in matches' \ {new} : m.draw # u.draw \/ {m.winner, m.loser} # {w, l}
  BY <1>3
<1> HIDE DEF new
<1>6. \A x, y \in matches' :
        x.draw = y.draw /\ {x.winner, x.loser} = {y.winner, y.loser} => x = y
  BY <1>4, <1>5 DEF NothingIsStranded
<1>7. \A m \in matches' : m.winner \in DOMAIN players' /\ m.loser \in DOMAIN players'
  BY <1>2, <1>3, <1>4, <1>5 DEF NothingIsStranded
<1> QED BY <1>1, <1>2, <1>6, <1>7 DEF NothingIsStranded

\* A merge that would make two matches of one is refused.
LEMMA MergeStrands ==
    ASSUME BaseInv, NothingIsStranded, NEW m \in run.links, Merge(m)
    PROVE  NothingIsStranded'
<1> DEFINE ps == Without(players, m.dup)
<1>1. /\ m.canonical \in DOMAIN players /\ m.dup # m.canonical
      /\ \A j : j \in DOMAIN ps <=> j \in DOMAIN players /\ j # m.dup
      /\ Slugged(ps, players')
  BY MergeRows
<1> HIDE DEF ps
<1>2. \A j : j \in DOMAIN players' <=> j \in DOMAIN players /\ j # m.dup
  BY <1>1 DEF Slugged
<1>3. \A i \in DOMAIN players : Moved(i, m) \in DOMAIN players'
  BY <1>1, <1>2 DEF Moved
<1>4. /\ matches' = {AfterMove(x, m) : x \in matches} /\ ~PairsCollide(m)
      /\ reviews' = {r \in reviews : r.sid # m.dupSid /\ r.candidate # m.dup}
  BY DEF Merge, Refused
<1>5. ASSUME NEW x \in matches
      PROVE  /\ AfterMove(x, m).draw = x.draw
             /\ AfterMove(x, m).winner = Moved(x.winner, m)
             /\ AfterMove(x, m).loser = Moved(x.loser, m)
  <2>1. x \in MatchRow
    BY DEF BaseInv, TypeInv
  <2> QED BY <2>1 DEF AfterMove, MatchRow
<1>6. \A x, y \in matches' :
        x.draw = y.draw /\ {x.winner, x.loser} = {y.winner, y.loser} => x = y
  <2> SUFFICES ASSUME NEW x \in matches', NEW y \in matches', x.draw = y.draw,
                      {x.winner, x.loser} = {y.winner, y.loser}
               PROVE  x = y
    OBVIOUS
  <2>1. PICK a, b \in matches : x = AfterMove(a, m) /\ y = AfterMove(b, m)
    BY <1>4
  <2>2. /\ a.draw = b.draw
        /\ {Moved(a.winner, m), Moved(a.loser, m)} = {Moved(b.winner, m), Moved(b.loser, m)}
    BY <1>5, <2>1
  <2> QED BY <1>4, <2>1, <2>2 DEF PairsCollide
<1>7. \A x \in matches' : {x.winner, x.loser} \subseteq DOMAIN players'
  <2> SUFFICES ASSUME NEW a \in matches
               PROVE  {AfterMove(a, m).winner, AfterMove(a, m).loser} \subseteq DOMAIN players'
    BY <1>4
  <2>1. a.winner \in DOMAIN players /\ a.loser \in DOMAIN players
    BY DEF NothingIsStranded
  <2> QED BY <1>3, <1>5, <2>1
<1>8. \A r \in reviews' : r.candidate \in DOMAIN players'
  BY <1>2, <1>4 DEF NothingIsStranded
<1> QED BY <1>6, <1>7, <1>8 DEF NothingIsStranded

LEMMA NextStrands == BaseInv /\ NothingIsStranded /\ [Next]_vars => NothingIsStranded'
<1> SUFFICES ASSUME BaseInv, NothingIsStranded, [Next]_vars PROVE NothingIsStranded'
  OBVIOUS
<1>1. CASE \E u \in Upstream : WriteMatch(u)
  BY <1>1, MatchStrands
<1>2. CASE \E k \in Bios : WriteBio(k[1], k[2])
  <2>1. PICK k \in Bios : WriteBio(k[1], k[2])
    BY <1>2
  <2>2. <<k[1], k[2]>> \in Bios
    BY IdentityAssumption DEF Ids
  <2>3. Grown(players') /\ UNCHANGED matches
    BY <2>1, <2>2, BioGrows
  <2>4. UNCHANGED reviews
    BY <2>1 DEF WriteBio
  <2> QED BY <2>3, <2>4 DEF Grown, NothingIsStranded
<1>3. CASE FinishTour
  <2>1. DOMAIN players' = DOMAIN players /\ UNCHANGED <<matches, reviews>>
    BY <1>3, FinishRows DEF FinishTour
  <2> QED BY <2>1 DEF NothingIsStranded
<1>4. CASE \E m \in run.links : Merge(m)
  BY <1>4, MergeStrands
<1>5. CASE \E m \in run.links : Queue(m)
  <2>1. PICK m \in run.links : Queue(m)
    BY <1>5
  <2>2. /\ UNCHANGED <<players, matches>> /\ m.canonical \in DOMAIN players
        /\ \A r \in reviews' : r \in reviews \/ r.candidate = m.canonical
    BY <2>1 DEF Queue, Refused
  <2> QED BY <2>2 DEF NothingIsStranded
<1>6. CASE UNCHANGED database
  BY <1>6 DEF database, NothingIsStranded
<1>7. CASE Start \/ Load \/ (\E m \in run.links : Fail(m)) \/ Kill \/ UNCHANGED vars
  BY <1>6, <1>7 DEF Start, Load, Fail, Kill, database, vars
<1> QED BY <1>1, <1>2, <1>3, <1>4, <1>5, <1>7 DEF Next, RunStep

\* Merge: whatever is merged, by hand or not, and wherever a run dies, no match and no
\* review is of a player that is gone, and no match becomes a second of its draw and pair.
THEOREM SpecNothingIsStranded == Spec => []NothingIsStranded
<1>1. Init => NothingIsStranded
  BY DEF Init, NothingIsStranded
<1> QED BY <1>1, NextStrands, SpecBase, PTL DEF Spec
-----------------------------------------------------------------------------
(* Where slugs move, and where they die.                                   *)

\* OnlyMergedSlugsMove and PlainSlugsDieByRespelling, of one step.
MergedAlone ==
    \A i \in DOMAIN players \cap DOMAIN players' :
        players'[i].slug # players[i].slug =>
            /\ i \in Range(aliases')
            /\ players'[i].slug = PlainSlug(players'[i].name)
            /\ \A j \in DOMAIN players' \ {i} : players'[j].slug # players'[i].slug
DeadByName ==
    \A i \in DOMAIN players :
        LET slug == players[i].slug
        IN  slug = PlainSlug(slug.name) /\ ~Held(players', slug) =>
                \E j \in DOMAIN players' :
                    /\ j = i \/ \E m \in run.links : m.dup = i /\ m.canonical = j
                    /\ players[j].name # slug.name

\* Nobody's slug moves and nobody goes.
LEMMA SlugsStill ==
    ASSUME \A j \in DOMAIN players : j \in DOMAIN players' /\ players'[j].slug = players[j].slug
    PROVE  MergedAlone /\ DeadByName
BY DEF MergedAlone, DeadByName, Held

\* The loop over players that carry an alias.
LEMMA FinishMoves ==
    ASSUME BaseInv, FinishTour
    PROVE  MergedAlone /\ DeadByName
<1>1. /\ SluggedByAlias(players') /\ Slugged(players, players')
      /\ DOMAIN players' = DOMAIN players /\ UNCHANGED aliases
  BY FinishRows DEF FinishTour
<1>2. \A j \in DOMAIN players :
        /\ players'[j].name = players[j].name
        /\ players'[j].slug \in {players[j].slug, PlainSlug(players[j].name)}
        /\ j \notin Range(aliases) => players'[j].slug = players[j].slug
  BY <1>1 DEF SluggedByAlias, Slugged
<1>3. KeysOf(players')
  BY <1>1 DEF Slugged, BaseInv, KeysHold
<1>4. MergedAlone
  BY <1>1, <1>2, <1>3 DEF MergedAlone, KeysOf
<1>5. DeadByName
  <2> SUFFICES ASSUME NEW i \in DOMAIN players, players[i].slug = PlainSlug(players[i].slug.name),
                      ~Held(players', players[i].slug)
               PROVE  players[i].name # players[i].slug.name
    BY <1>1 DEF DeadByName
  <2>1. players'[i].slug # players[i].slug
    BY <1>1 DEF Held
  <2> QED BY <1>2, <2>1
<1> QED BY <1>4, <1>5

\* The row that is kept is the only one whose slug moves.
LEMMA MergeMoves ==
    ASSUME BaseInv, NEW m \in run.links, Merge(m)
    PROVE  MergedAlone /\ DeadByName
<1> DEFINE ps == Without(players, m.dup)
<1>1. /\ m.canonical \in DOMAIN players /\ m.dup # m.canonical
      /\ \A j : j \in DOMAIN ps <=> j \in DOMAIN players /\ j # m.dup
      /\ \A j \in DOMAIN ps : ps[j] = players[j]
      /\ players' = Reclaimed(ps, m.canonical) /\ m.canonical \in DOMAIN ps
      /\ Rows(ps) /\ KeysOf(ps) /\ Slugged(ps, players')
  BY MergeRows
<1> HIDE DEF ps
<1>2. /\ \A j \in DOMAIN ps \ {m.canonical} : players'[j] = ps[j]
      /\ Held(players', PlainSlug(ps[m.canonical].name))
  BY <1>1, ReclaimedFacts
<1>3. /\ DOMAIN players' = DOMAIN ps /\ KeysOf(players')
      /\ \A j \in DOMAIN ps : /\ players'[j].name = ps[j].name
                              /\ players'[j].slug \in {ps[j].slug, PlainSlug(ps[j].name)}
  BY <1>1 DEF Slugged
<1>4. m.canonical \in Range(aliases')
  <2>1. PICK source \in SourcesOf(m.dup) :
          aliases' = With(AliasesMoved(m), <<source, m.dupSid>>, m.canonical)
    BY DEF Merge
  <2>2. /\ <<source, m.dupSid>> \in DOMAIN aliases'
        /\ aliases'[<<source, m.dupSid>>] = m.canonical
    BY <2>1 DEF With
  <2> QED BY <2>2 DEF Range
<1>5. MergedAlone
  BY <1>1, <1>2, <1>3, <1>4 DEF MergedAlone, KeysOf
<1>6. DeadByName
  <2> SUFFICES ASSUME NEW i \in DOMAIN players, players[i].slug = PlainSlug(players[i].slug.name),
                      ~Held(players', players[i].slug)
               PROVE  \E j \in DOMAIN players' :
                        /\ j = i \/ \E n \in run.links : n.dup = i /\ n.canonical = j
                        /\ players[j].name # players[i].slug.name
    BY DEF DeadByName
  <2>1. CASE i = m.dup
    BY <1>1, <1>2, <1>3, <2>1
  <2>2. CASE i # m.dup
    <3>1. i \in DOMAIN players' /\ ps[i] = players[i] /\ i \in DOMAIN ps
      BY <1>1, <1>3, <2>2
    <3>2. players'[i].slug # players[i].slug
      BY <3>1 DEF Held
    <3> QED BY <1>3, <3>1, <3>2
  <2> QED BY <2>1, <2>2
<1> QED BY <1>5, <1>6

LEMMA NextMoves == BaseInv /\ [Next]_vars => MergedAlone /\ DeadByName
<1> SUFFICES ASSUME BaseInv, [Next]_vars PROVE MergedAlone /\ DeadByName
  OBVIOUS
<1>1. CASE \E u \in Upstream : WriteMatch(u)
  BY <1>1, MatchGrows, SlugsStill DEF Grown
<1>2. CASE \E k \in Bios : WriteBio(k[1], k[2])
  <2>1. PICK k \in Bios : WriteBio(k[1], k[2])
    BY <1>2
  <2>2. <<k[1], k[2]>> \in Bios
    BY IdentityAssumption DEF Ids
  <2> QED BY <2>1, <2>2, BioGrows, SlugsStill DEF Grown
<1>3. CASE FinishTour
  BY <1>3, FinishMoves
<1>4. CASE \E m \in run.links : Merge(m)
  BY <1>4, MergeMoves
<1>5. CASE Start \/ Load \/ (\E m \in run.links : Queue(m) \/ Fail(m)) \/ Kill \/ UNCHANGED vars
  BY <1>5, SlugsStill DEF Start, Load, Queue, Fail, Kill, database, vars
<1> QED BY <1>1, <1>2, <1>3, <1>4, <1>5 DEF Next, RunStep

\* ReclaimFreedSlugs: whatever names are spelled like, only the slug of a player that
\* carries an alias ever moves, to the plain slug of his name, which nobody else holds.
THEOREM SpecOnlyMergedSlugsMove == Spec => OnlyMergedSlugsMove
<1>1. BaseInv /\ [Next]_vars => [MergedAlone]_vars
  BY NextMoves
<1>2. OnlyMergedSlugsMove <=> [][MergedAlone]_vars
  BY DEF OnlyMergedSlugsMove, MergedAlone
<1> QED BY <1>1, <1>2, SpecBase, PTL DEF Spec

\* reclaimSlug: however names are spelled and whatever runs die, a plain slug goes dead
\* only as the player who held it, or the one he is folded into, is by now called
\* something else.
THEOREM SpecPlainSlugsDieByRespelling == Spec => PlainSlugsDieByRespelling
<1>1. BaseInv /\ [Next]_vars => [DeadByName]_vars
  BY NextMoves
<1>2. PlainSlugsDieByRespelling <=> [][DeadByName]_vars
  BY DEF PlainSlugsDieByRespelling, DeadByName
<1> QED BY <1>1, <1>2, SpecBase, PTL DEF Spec
-----------------------------------------------------------------------------
(* Which rows are merged without a human.                                  *)

Scores == {0, 40, 60, 70, 90, 100}

LEMMA ScoreType == ASSUME NEW a, NEW b PROVE Score(a, b) \in Scores
<1>1. ScoreByYear(a, b) \in Scores
  <2>1. YearsApart(a, b) = 0 => YearsApart(a, b) # 1
    OBVIOUS
  <2> QED BY <2>1 DEF ScoreByYear, Scores
<1> QED BY <1>1 DEF Score, Scores

\* The row kept of a birthday is its own keeper: it is not folded away.
LEMMA KeeperStays ==
    ASSUME NEW rows, Countable(rows), NEW p \in rows, p.born # NoDay
    PROVE  /\ Keeper(p, rows) \in rows /\ Keeper(p, rows).key = p.key
           /\ Keeper(p, rows) \notin FoldedAway(rows)
<1> DEFINE k == Keeper(p, rows)
<1>1. k \in SameBirthday(p, rows)
  BY KeeperFacts
<1>2. k \in rows /\ k.key = p.key /\ k.born = p.born
  BY <1>1 DEF SameBirthday
<1>3. SameBirthday(k, rows) = SameBirthday(p, rows)
  <2> HIDE DEF k
  <2> QED BY <1>2 DEF SameBirthday
<1>4. Keeper(k, rows) = k
  <2>1. Keeper(k, rows) = CHOOSE x \in SameBirthday(p, rows) :
                              \A q \in SameBirthday(p, rows) \ {x} : LongerCareer(x, q)
    BY <1>3 DEF Keeper
  <2>2. k = CHOOSE x \in SameBirthday(p, rows) :
                \A q \in SameBirthday(p, rows) \ {x} : LongerCareer(x, q)
    BY DEF Keeper
  <2> HIDE DEF k
  <2> QED BY <2>1, <2>2
<1> HIDE DEF k
<1>5. k \notin FoldedAway(rows)
  BY <1>4 DEF FoldedAway
<1> QED BY <1>2, <1>5 DEF k

\* bestTwo: a stub that is to be merged fits one candidate better than any other; and
\* every fold that nobody has told apart is among the links.
LEMMA StubsHaveOneBest ==
    ASSUME NEW t, NEW rows, Countable(rows), NEW links \in Proposals(t, rows)
    PROVE  /\ \A m \in links :
                m.turn = 1 /\ IsAuto(m) /\ ~Merged(t, m.dupSid, m.canonicalSid) =>
                    \E s \in rows, k \in Candidates(rows) :
                        /\ m.dup = s.id /\ m.canonical = k.id
                        /\ \A p \in Candidates(rows) \ {k} :
                            p.key = s.key => Score(p, s) < Score(k, s)
           /\ \A p \in FoldedAway(Backed(rows)) :
                ~Separated(t, p.sid, Keeper(p, Backed(rows)).sid) =>
                    \E n \in links : n.dup = p.id /\ n.canonical = Keeper(p, Backed(rows)).id
<1> DEFINE kept == Candidates(rows)
<1>1. PICK proposed \in Reconciled(rows) : links = Applied(t, rows, proposed)
  BY DEF Proposals
<1>2. PICK f \in [LinkedStubs(rows) -> kept] :
        /\ \A s \in LinkedStubs(rows) : f[s] \in Best(s, kept)
        /\ proposed = FoldLinks(Backed(rows)) \cup
                       {StubLink(s, f[s], kept) : s \in LinkedStubs(rows)}
  BY <1>1 DEF Reconciled
<1> DEFINE decided(l) == [l EXCEPT !.confidence =
                            IF Merged(t, l.dupSid, l.canonicalSid) THEN 100 ELSE @]
           open == {l \in proposed : ~Separated(t, l.dupSid, l.canonicalSid)}
<1>3. /\ \A m \in links : (\E l \in open : m = decided(l)) \/ (\E p, q : m = Link(p, q, 100, 3))
      /\ \A l \in open : decided(l) \in links
  BY <1>1 DEF Applied
<1>4. \A p, q, c, n : LET l == Link(p, q, c, n) IN
        /\ l.dup = p.id /\ l.dupSid = p.sid /\ l.canonical = q.id /\ l.canonicalSid = q.sid
        /\ l.turn = n /\ l.confidence = c
        /\ decided(l).dup = p.id /\ decided(l).dupSid = p.sid
        /\ decided(l).canonical = q.id /\ decided(l).canonicalSid = q.sid
        /\ decided(l).turn = n
        /\ ~Merged(t, p.sid, q.sid) => decided(l).confidence = c
  BY DEF Link
<1> HIDE DEF decided
<1>5. ASSUME NEW m \in links, m.turn = 1, IsAuto(m), ~Merged(t, m.dupSid, m.canonicalSid)
      PROVE  \E s \in rows, k \in kept :
                /\ m.dup = s.id /\ m.canonical = k.id
                /\ \A p \in kept \ {k} : p.key = s.key => Score(p, s) < Score(k, s)
  <2>1. PICK l \in open : m = decided(l)
    <3>1. ~ \E p, q : m = Link(p, q, 100, 3)
      BY <1>4, <1>5
    <3> QED BY <1>3, <3>1
  <2>2. PICK s \in LinkedStubs(rows) : l = StubLink(s, f[s], kept)
    <3>1. l \notin FoldLinks(Backed(rows))
      BY <1>4, <1>5, <2>1 DEF FoldLinks
    <3> QED BY <1>2, <2>1, <3>1
  <2> DEFINE k == f[s]
             confidence == IF Best(s, kept) = {k} THEN Score(k, s) ELSE ReviewFloor
  <2>3. l = Link(s, k, confidence, 1)
    BY <2>2 DEF StubLink
  <2>4. k \in kept /\ s \in rows /\ k.key = s.key
    <3>1. k \in Best(s, kept)
      BY <1>2
    <3> QED BY <3>1 DEF LinkedStubs, Best
  <2> HIDE DEF k, confidence, kept
  <2>5. m.dup = s.id /\ m.canonical = k.id /\ m.confidence = confidence
    BY <1>4, <1>5, <2>1, <2>3
  <2>6. Best(s, kept) = {k}
    BY <1>5, <2>5 DEF IsAuto, AutoLink, ReviewFloor, confidence
  <2>7. ASSUME NEW p \in kept \ {k}, p.key = s.key
        PROVE  Score(p, s) < Score(k, s)
    <3>1. p \notin Best(s, kept) /\ k \in Best(s, kept)
      BY <2>6
    <3>2. PICK q \in kept : q.key = s.key /\ ~(Score(q, s) <= Score(p, s))
      BY <2>7, <3>1 DEF Best
    <3>3. Score(q, s) <= Score(k, s)
      BY <3>1, <3>2 DEF Best
    <3>4. Score(q, s) \in Int /\ Score(p, s) \in Int /\ Score(k, s) \in Int
      <4>1. Scores \subseteq Int
        BY DEF Scores
      <4> QED BY <4>1, ScoreType
    <3> QED BY <3>2, <3>3, <3>4
  <2> QED BY <2>4, <2>5, <2>7
<1>6. ASSUME NEW p \in FoldedAway(Backed(rows)), ~Separated(t, p.sid, Keeper(p, Backed(rows)).sid)
      PROVE  \E n \in links : n.dup = p.id /\ n.canonical = Keeper(p, Backed(rows)).id
  <2> DEFINE k == Keeper(p, Backed(rows))
             l == Link(p, k, Score(k, p), 2)
  <2>1. l \in proposed
    BY <1>2 DEF FoldLinks
  <2> HIDE DEF k, l
  <2>2. l.dupSid = p.sid /\ l.canonicalSid = k.sid
    BY <1>4 DEF l
  <2>3. l \in open
    BY <1>6, <2>1, <2>2 DEF k
  <2>4. decided(l) \in links /\ decided(l).dup = p.id /\ decided(l).canonical = k.id
    BY <1>3, <1>4, <2>3 DEF l
  <2> QED BY <2>4 DEF k
<1> QED BY <1>5, <1>6

LEMMA LoadHidesOnlyFolds ==
    ASSUME TypeInv, Load, NEW rows, rows = Loaded(Tour),
           NEW m \in run'.links, MergedOnItsOwn(m),
           NEW stub \in rows, NEW kept \in rows, stub.id = m.dup, kept.id = m.canonical,
           NEW p \in Backed(rows), IsRival(p, kept, stub, run'.links)
    PROVE  LET keeper == Keeper(p, Backed(rows))
           IN  /\ p \in FoldedAway(Backed(rows))
               /\ \/ Score(keeper, stub) < Score(p, stub)
                  \/ Separated(Tour, p.sid, keeper.sid)
<1>1. run'.links \in Proposals(Tour, rows)
  BY DEF Load, TypeInv
<1>2. Countable(rows)
  BY LoadedFacts
<1>3. PICK s \in rows, k \in Candidates(rows) :
        /\ m.dup = s.id /\ m.canonical = k.id
        /\ \A q \in Candidates(rows) \ {k} : q.key = s.key => Score(q, s) < Score(k, s)
  BY <1>1, <1>2, StubsHaveOneBest DEF MergedOnItsOwn
<1>4. s = stub /\ k = kept
  BY <1>2, <1>3 DEF Countable, Candidates, Backed
<1>5. /\ p # kept /\ p.key = stub.key /\ Score(p, stub) >= Score(kept, stub)
      /\ ~ \E n \in run'.links : n.dup = p.id /\ n.canonical = kept.id
  BY DEF IsRival
<1>6. \A a, b : Score(a, b) \in Int
  <2>1. Scores \subseteq Int
    BY DEF Scores
  <2> QED BY <2>1, ScoreType
<1>7. p \in FoldedAway(Backed(rows)) /\ p.born # NoDay
  <2>1. p \notin Candidates(rows)
    BY <1>3, <1>4, <1>5, <1>6
  <2> QED BY <2>1 DEF Candidates, FoldedAway
<1> DEFINE q == Keeper(p, Backed(rows))
<1>8. SUFFICES ASSUME ~Separated(Tour, p.sid, q.sid) PROVE Score(q, stub) < Score(p, stub)
  BY <1>7
<1>9. \E n \in run'.links : n.dup = p.id /\ n.canonical = q.id
  BY <1>1, <1>2, <1>7, <1>8, StubsHaveOneBest
<1>10. q \in Candidates(rows) /\ q.key = p.key
  <2>1. Countable(Backed(rows))
    BY <1>2, FS_Subset DEF Countable, Backed
  <2> QED BY <1>7, <2>1, KeeperStays DEF Candidates
<1> HIDE DEF q
<1>11. q # kept
  BY <1>5, <1>9
<1>12. Score(q, stub) < Score(kept, stub)
  BY <1>3, <1>4, <1>5, <1>10, <1>11
<1> QED BY <1>5, <1>6, <1>12

\* reconcileGroup: a stub that no human has decided on is merged although another backed
\* row fits it as well, and is not to become the same person, only if foldSameSource has
\* dropped that row for one that fits the stub less well, or that a human has told from it.
THEOREM SpecOnlyFoldsHideARival == Spec => OnlyFoldsHideARival
<1> DEFINE Hidden ==
        Load =>
            LET rows == Loaded(Tour)
            IN  \A m \in run'.links : MergedOnItsOwn(m) =>
                    \A stub, kept \in rows : stub.id = m.dup /\ kept.id = m.canonical =>
                        \A p \in Backed(rows) : IsRival(p, kept, stub, run'.links) =>
                            LET keeper == Keeper(p, Backed(rows))
                            IN  /\ p \in FoldedAway(Backed(rows))
                                /\ \/ Score(keeper, stub) < Score(p, stub)
                                   \/ Separated(Tour, p.sid, keeper.sid)
<1>1. BaseInv => Hidden
  <2> SUFFICES ASSUME BaseInv, Load PROVE Hidden
    OBVIOUS
  <2>1. TypeInv
    BY DEF BaseInv
  <2> DEFINE rows == Loaded(Tour)
  <2> SUFFICES ASSUME NEW m \in run'.links, MergedOnItsOwn(m),
                      NEW stub \in rows, NEW kept \in rows,
                      stub.id = m.dup, kept.id = m.canonical,
                      NEW p \in Backed(rows), IsRival(p, kept, stub, run'.links)
               PROVE  LET keeper == Keeper(p, Backed(rows))
                      IN  /\ p \in FoldedAway(Backed(rows))
                          /\ \/ Score(keeper, stub) < Score(p, stub)
                             \/ Separated(Tour, p.sid, keeper.sid)
    OBVIOUS
  <2> HIDE DEF Hidden
  <2> QED BY <2>1, LoadHidesOnlyFolds
<1> QED BY <1>1, SpecBase, PTL DEF OnlyFoldsHideARival
=============================================================================
