----------------------------- MODULE MCIdentity -----------------------------
(* Dan Martin has two ids in one source, with one birthday, and a third in  *)
(* the other id space; a woman has the same numbers for ids.                *)
EXTENDS Identity, TLC

Known(name, country, year, born) ==
    [name |-> name, country |-> country, year |-> year, born |-> born]
Row(tour, source, draw, winner, loser) ==
    [tour |-> tour, source |-> source, draw |-> draw, winner |-> winner, loser |-> loser]

MCSourceIDs == {"202297", "209399", "100001", "M0C2"}
MCNumeric == MCSourceIDs \ {"M0C2"}
MCStubSources == {"tml-atp", "tml-wta"}
ATP == <<"atp">>
BothTours == <<"atp", "wta">>

Dan == Known("dan-martin", "CAN", 1999, [year |-> 1999, day |-> 129])
Ann == Known("ann-smith", "CAN", 2001, [year |-> 2001, day |-> 7])
Opponent == Known("some-opponent", "FRA", NoYear, NoDay)
Rival == Known("some-rival", "FRA", NoYear, NoDay)
MCProfile ==
    [atp |-> [s \in MCSourceIDs |-> IF s = "100001" THEN Opponent ELSE Dan],
     wta |-> [s \in MCSourceIDs |-> IF s = "100001" THEN Rival ELSE Ann]]

MCKeyOf == [n \in {"dan-martin", "martin-dan", "ann-smith", "some-opponent", "some-rival"} |->
                IF n = "martin-dan" THEN "dan-martin" ELSE n]

Backed1 == Row("atp", "sackmann-atp", 1, "209399", "100001")
Backed3 == Row("atp", "sackmann-atp", 3, "202297", "100001")
Stub4 == Row("atp", "tml-atp", 4, "100001", "M0C2")
Woman7 == Row("wta", "tml-wta", 7, "202297", "100001")
\* The match of Backed1, in the other source.
Again1 == Row("atp", "tml-atp", 1, "M0C2", "100001")

EveryRow == {Backed1, Stub4, Again1, Woman7}
EveryBio == {<<"atp", "202297">>, <<"atp", "209399">>, <<"wta", "209399">>}
MenOnly == {Backed1, Backed3, Stub4, Again1}
MenBios == {<<"atp", "202297">>, <<"atp", "209399">>}
NoRows == {}
FourBios == MenBios \cup {<<"wta", "202297">>, <<"wta", "209399">>}

\* A human has named the row the stub belongs to, or told it from that row.
StubJoined == {[tour |-> "atp", duplicate |-> "M0C2", canonical |-> "202297"]}
StubApart == {[tour |-> "atp", pair |-> {"M0C2", "202297"}]}

\* One source writes "Martin, Dan".
Spellings ==
    [MCProfile EXCEPT !["atp"] = [@ EXCEPT !["209399"] = [Dan EXCEPT !.name = "martin-dan"]]]
=============================================================================
