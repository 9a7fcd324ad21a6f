------------------------------- MODULE Events -------------------------------
(***************************************************************************)
(* What an event is across seasons (internal/events): every tournaments    *)
(* row is placed on one, by an override, the tour's number, its name or    *)
(* its team competition, and the events keep the slugs they once got.      *)
(*                                                                         *)
(* A name is [words, edition]: Normalise keeps the words and drops the     *)
(* edition number and the Challenger suffix. Words, and the numbers of the *)
(* tours, are numbers in the order of the strings they stand for; none is  *)
(* another with more after it.                                             *)
(***************************************************************************)
EXTENDS MatchStore

CONSTANTS
    TourOf,             \* the tour of a draw
    IdShape,            \* the source id of a draw: [kind, value]; kind number, code or none
    StartOf,            \* the day a draw started
    IdRank,             \* the order of the draws' ids
    OverrideTo,         \* <<tour, "id" | "number" | "code", value>> :> number, a partial function
    PinnedName,         \* <<tour, number>> :> name, a partial function
    CompetitionAliases  \* words of a renamed team competition :> its words now

\* Seasons and days are counted, no two rows have one id, a number is one, and a name's
\* words are the number of a string.
ASSUME EventsAssumption ==
    /\ IsFiniteSet(Draws)
    /\ {SeasonOf, StartOf, IdRank} \subseteq [Draws -> Nat]
    /\ \A d, e \in Draws : IdRank[d] = IdRank[e] => d = e
    /\ FallbackTier \in [Sources -> Tiers]
    /\ {LegacyName.words} \cup {r.name.words : r \in FileRows} \subseteq Nat
    /\ \A d \in Draws : IdShape[d].kind = "number" => IdShape[d].value \in Nat
    /\ Range(OverrideTo) \cup Range(CompetitionAliases) \subseteq Nat

VARIABLES
    events,   \* events[<<tour, key>>]: [slug, name, first, last], a partial function
    eventOf   \* tournaments.event_id and event_link: [draw, event, link], or Null

eventVars == <<events, eventOf>>

wtaNumbersFrom == 2016

EventsInit == events = [e \in {} |-> Null] /\ eventOf = [d \in Draws |-> Null]

-----------------------------------------------------------------------------
(* Resolve: a function of the rows and the overrides.                      *)
Rows == {d \in Draws : tournaments[d] # Null}
Words(d) == tournaments[d].name.words

Competition(words) ==
    IF words \in DOMAIN CompetitionAliases THEN CompetitionAliases[words] ELSE words

NumberKey(n) == <<"number", n>>
\* Mutant: every edition of a name is the same event.
NameKeyAlone(tier, words, ordinal) == <<"name", tier, words, 1>>

NameKey(tier, words, ordinal) == <<"name", tier, words, ordinal>>
TeamKey(comp) == <<"team", comp>>

\* rawKeyOf: an old WTA number is no number of the WTA's.
RawKey(d) ==
    IF IdShape[d].kind = "number" /\ TourOf[d] # "atp" /\ SeasonOf[d] < wtaNumbersFrom
    THEN [kind |-> "none", value |-> Null] ELSE IdShape[d]

\* index.target: the id before the number or the code.
Selectors(d) == <<<<TourOf[d], "id", d>>, <<TourOf[d], RawKey(d).kind, RawKey(d).value>>>>
Overridden(d) == {i \in {1, 2} : Selectors(d)[i] \in DOMAIN OverrideTo}
Target(d) == OverrideTo[Selectors(d)[Min(Overridden(d))]]

IsTeam(d) == tournaments[d].level = "D"
Numbered == {d \in Rows : ~IsTeam(d) /\ (Overridden(d) # {} \/ RawKey(d).kind = "number")}
NumberOf(d) == IF Overridden(d) # {} THEN Target(d) ELSE RawKey(d).value
Named == {d \in Rows : ~IsTeam(d)} \ Numbered

SameName(d, e) ==
    TourOf[d] = TourOf[e] /\ tournaments[d].tier = tournaments[e].tier /\ Words(d) = Words(e)

\* ordinalsWithinSeason: calendar order, ties by id.
EarlierInSeason(e, d) ==
    \/ StartOf[e] < StartOf[d]
    \/ StartOf[e] = StartOf[d] /\ IdRank[e] < IdRank[d]
Ordinal(d) ==
    1 + Cardinality({e \in Named : /\ SameName(d, e) /\ SeasonOf[e] = SeasonOf[d]
                                   /\ EarlierInSeason(e, d)})

\* namesUnder: the numbers that carry a name.
NumbersUnder(d) == {NumberOf(e) : e \in {n \in Numbered : SameName(d, n)}}
Bridged(d) == d \in Named /\ Ordinal(d) = 1 /\ Cardinality(NumbersUnder(d)) = 1

LinkOf(d) ==
    CASE IsTeam(d)               -> "team"
      [] d \in Numbered          -> IF Overridden(d) # {} THEN "override" ELSE "number"
      [] Bridged(d)              -> "bridged"
      [] OTHER                   -> "name"
KeyOf(d) ==
    CASE LinkOf(d) = "team"      -> TeamKey(Competition(Words(d)))
      [] d \in Numbered          -> NumberKey(NumberOf(d))
      [] LinkOf(d) = "bridged"   -> NumberKey(CHOOSE n \in NumbersUnder(d) : TRUE)
      [] OTHER                   -> NameKey(tournaments[d].tier, Words(d), Ordinal(d))
Placed == {[draw |-> d, event |-> <<TourOf[d], KeyOf(d)>>, link |-> LinkOf(d)] : d \in Rows}

\* The editions of an event, and the last of them.
Editions(placed, e) == {p \in placed : p.event = e}
Latest(editions) ==
    CHOOSE p \in editions : \A q \in editions \ {p} :
        \/ SeasonOf[q.draw] < SeasonOf[p.draw]
        \/ SeasonOf[q.draw] = SeasonOf[p.draw] /\ EarlierInSeason(q.draw, p.draw)

\* displayName: the latest edition's, numbered by the run and not by the row.
DisplayName(editions) ==
    LET last == Latest(editions)
        key == last.event[2]
    IN CASE last.link = "team" -> [words |-> Competition(Words(last.draw)), edition |-> 0]
         [] last.link = "name" -> [words |-> Words(last.draw),
                                   edition |-> IF key[4] > 1 THEN key[4] ELSE 0]
         [] OTHER              -> tournaments[last.draw].name
Pinned(e) == e[2][1] = "number" /\ <<e[1], e[2][2]>> \in DOMAIN PinnedName

\* The events of the rows, before they have slugs.
EventRow(e, editions) ==
    [event |-> e, editions |-> Cardinality(editions),
     name |-> IF Pinned(e) THEN PinnedName[<<e[1], e[2][2]>>] ELSE DisplayName(editions),
     first |-> Min({SeasonOf[p.draw] : p \in editions}),
     last |-> Max({SeasonOf[p.draw] : p \in editions})]
Resolved(placed) == {EventRow(e, Editions(placed, e)) : e \in {p.event : p \in placed}}

-----------------------------------------------------------------------------
(* Write: slugs are kept, new ones minted in an order that favours the     *)
(* event still on the calendar.                                            *)
TierWord(t) == CASE t = "challenger" -> 1 [] t = "futures" -> 2 [] t = "itf" -> 3 [] OTHER -> 4
\* The keys in the order of their strings.
KeyRank(k) ==
    CASE k[1] = "name"   -> <<1, TierWord(k[2]), k[3], k[4]>>
      [] k[1] = "number" -> <<2, k[2], 0, 0>>
      [] OTHER           -> <<3, k[2], 0, 0>>
MintRank(r) ==
    LET key == KeyRank(r.event[2]) IN <<-r.last, -r.editions, key[1], key[2], key[3], key[4]>>
MintedBefore(x, y) ==
    \E i \in 1 .. 6 : /\ MintRank(x)[i] < MintRank(y)[i]
                      /\ \A j \in 1 .. i - 1 : MintRank(x)[j] = MintRank(y)[j]

\* Mutant: the name and the tour, whoever has them.
MintPlain(r, new) == [name |-> r.name, tour |-> r.event[1], serial |-> 1]

\* mint: name and tour, then the first serial nobody has. Each new event of that
\* name and tour that comes before has taken one.
Mint(r, new) ==
    LET slug(n) == [name |-> r.name, tour |-> r.event[1], serial |-> n]
        free == {n \in 1 .. Cardinality(DOMAIN events) + Cardinality(new) :
                    \A e \in DOMAIN events : events[e].slug # slug(n)}
        before == {q \in new : /\ q.name = r.name /\ q.event[1] = r.event[1]
                               /\ MintedBefore(q, r)}
    IN slug(CHOOSE n \in free : Cardinality({m \in free : m < n}) = Cardinality(before))

\* Mutant: no event is known by its key.
KnownToNone(rows) == {}

Known(rows) == {r \in rows : r.event \in DOMAIN events}

\* Existing events keep their slug, the rest get one in turn; those that no row
\* points at go.
Stored(r, rows) ==
    [slug |-> IF r \in Known(rows) THEN events[r.event].slug ELSE Mint(r, rows \ Known(rows)),
     name |-> r.name, first |-> r.first, last |-> r.last]
Written(placed) ==
    LET rows == Resolved(placed) IN
    [e \in {r.event : r \in rows} |-> Stored(CHOOSE r \in rows : r.event = e, rows)]
Linked(placed) ==
    [d \in Draws |-> IF d \in Rows THEN CHOOSE p \in placed : p.draw = d ELSE Null]

\* Run: read every row, resolve, write in one transaction.
DeriveEvents ==
    /\ LET placed == Placed IN events' = Written(placed) /\ eventOf' = Linked(placed)
    /\ UNCHANGED matchVars
=============================================================================
