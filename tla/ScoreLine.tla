----------------------------- MODULE ScoreLine -----------------------------
(***************************************************************************)
(* The score parser (internal/score). A raw score is a sequence of the     *)
(* fields strings.Fields cuts it into; a field is a record that says what  *)
(* kind of text it is, not its characters:                                 *)
(*   set     "6-4", "7-6(5)", "7-6(8-6)": games w-l, tiebreak tw-tl or 0   *)
(*   joined  "6-36-3": two sets run together, as the sequence sets         *)
(*   super   "[10-7]": a match tiebreak                                    *)
(*   open    "6-": half a set, the rest in the next field or lost          *)
(*   number  "2", points "(4)", below ten: what a stray space cut off      *)
(*   marker  RET, W/O, DEF, ABD, UNK                                       *)
(*   unsure  "?-?";  word  "May-00": text that never was a score           *)
(*   prose   "Played and unfinished": everything from here on is dropped   *)
(*   broken  "7-6(5", "150-3": looks like a set and is none                *)
(***************************************************************************)
EXTENDS Integers, Sequences, SequencesExt

Outcomes == {"complete", "retired", "walkover", "defaulted", "abandoned", "unknown"}

\* A field of one kind, and a set without and with tiebreak points.
Field(kind) == [kind |-> kind, w |-> 0, l |-> 0, tw |-> 0, tl |-> 0]
Games(w, l) == [Field("set") EXCEPT !.w = w, !.l = l]
Marker(outcome) == [kind |-> "marker", out |-> outcome]
Half(kind, n) == [Field(kind) EXCEPT !.w = n]
Joined(s, t) == [kind |-> "joined", sets |-> <<s, t>>]

\* "7-6(5)" records the loser's points only: first to seven, win by two.
impliedTiebreakWinner(loser) == IF loser + 2 > 7 THEN loser + 2 ELSE 7
WithPoints(s, points) ==
    [s EXCEPT !.tw = impliedTiebreakWinner(points), !.tl = points]

IsSet(f) == f.kind \in {"set", "joined", "super"}
\* looksLikeSet: starts like a set, so failing to read it is an error.
LooksLikeSet(f) == IsSet(f) \/ f.kind \in {"open", "broken"}

HasPoints(s) == s.tw > 0 \/ s.tl > 0

-----------------------------------------------------------------------------
(* normalise: the prose is cut, markers and doubtful fields are taken out. *)
BeforeProse(raw) ==
    LET at == {i \in DOMAIN raw : raw[i].kind = "prose"} IN
    IF at = {} THEN raw ELSE SubSeq(raw, 1, Min(at) - 1)

Outcome(raw) ==
    LET text    == BeforeProse(raw)
        start   == IF text = raw THEN "complete" ELSE "abandoned"
        step(o, f) == CASE f.kind = "marker" -> f.out
                        [] f.kind = "unsure" /\ o = "complete" -> "unknown"
                        [] OTHER -> o
    IN FoldLeft(step, start, text)

Kept(raw) == SelectSeq(BeforeProse(raw), LAMBDA f : f.kind \notin {"marker", "unsure"})

(* healSpacing. A half set takes the next field whatever it is: a number     *)
(* makes it a set, another half is cut short again, "6-" before "6-36-3"     *)
(* reads as 6-6 and 36-3, anything else cannot be read. Points in brackets   *)
(* belong to the field before them, and there to its last set.               *)
Glued(half, f) ==
    CASE f.kind = "number" -> Games(half.w, f.w)
      [] f.kind = "open"   -> half
      [] f.kind = "joined" -> Joined(Games(half.w, f.sets[1].w),
                                     Games(10 * f.sets[1].l + f.sets[2].w, f.sets[2].l))
      [] OTHER             -> Field("broken")
Bracketed(f, points) ==
    CASE f.kind = "set" /\ ~HasPoints(f)             -> WithPoints(f, points)
      [] f.kind = "joined" /\ ~HasPoints(f.sets[2])  -> Joined(f.sets[1], WithPoints(f.sets[2], points))
      [] LooksLikeSet(f)                             -> Field("broken")
      [] OTHER                                       -> f
Healed(fields) ==
    LET step(acc, f) ==
        CASE acc.half # <<>>  -> [out |-> Append(acc.out, Glued(acc.half[1], f)), half |-> <<>>]
          [] f.kind = "points" /\ acc.out # <<>> ->
                [acc EXCEPT !.out[Len(acc.out)] = Bracketed(@, f.w)]
          [] f.kind = "open"  -> [acc EXCEPT !.half = <<f>>]
          [] OTHER            -> [acc EXCEPT !.out = Append(@, f)]
        end == FoldLeft(step, [out |-> <<>>, half |-> <<>>], fields)
    IN end.out \o end.half

\* parseToken: the sets a field holds; none of a set that was cut short.
SetsIn(f) ==
    CASE f.kind = "joined" -> f.sets
      [] f.kind \in {"set", "super"} -> <<f>>
      [] OTHER -> <<>>

Unreadable == [sets |-> <<>>, outcome |-> "unknown", err |-> TRUE]

Parse(raw) ==
    LET fields  == Healed(Kept(raw))
        sets    == FlattenSeq([i \in DOMAIN fields |-> SetsIn(fields[i])])
        skipped == \E i \in DOMAIN fields : ~IsSet(fields[i])
        found   == Outcome(raw)
    IN IF Kept(raw) = <<>>
       THEN [sets |-> <<>>, err |-> FALSE,
             outcome |-> IF found = "complete" THEN "unknown" ELSE found]
       ELSE IF \E i \in DOMAIN fields : fields[i].kind = "broken" THEN Unreadable
       ELSE [sets |-> sets, err |-> FALSE,
             outcome |-> IF found = "complete" /\ (skipped \/ sets = <<>>)
                         THEN "unknown" ELSE found]

-----------------------------------------------------------------------------
(* What is read off a parsed score.                                        *)
Incomplete(s) == s.outcome # "complete"

GamesSet(x) == x.kind = "set"
WonSet(x) == GamesSet(x) /\ x.w > x.l
LostSet(x) == GamesSet(x) /\ x.l > x.w
\* A one-game margin at seven or more is a tiebreak, points written or not.
TiebreakSet(x) ==
    /\ GamesSet(x)
    /\ \/ HasPoints(x)
       \/ /\ x.w >= 7 \/ x.l >= 7
          /\ x.w - x.l \in {1, -1}

SetsDecided(s) ==
    <<Len(SelectSeq(s.sets, LAMBDA x : WonSet(x) \/ x.kind = "super")),
      Len(SelectSeq(s.sets, LostSet))>>
Tiebreaks(s) ==
    <<Len(SelectSeq(s.sets, LAMBDA x : TiebreakSet(x) /\ WonSet(x))),
      Len(SelectSeq(s.sets, LAMBDA x : TiebreakSet(x) /\ LostSet(x)))>>
GamesPlayed(s) ==
    LET add(n, x) == IF GamesSet(x) THEN <<n[1] + x.w, n[2] + x.l>> ELSE n
    IN FoldLeft(add, <<0, 0>>, s.sets)
WentToDecider(s, bestOf) ==
    /\ s.outcome = "complete"
    /\ bestOf \in {3, 5}
    /\ Len(s.sets) = bestOf

\* Score.String: the sets and the suffix of the outcome; an abandoned match has none.
Printed(s) ==
    s.sets \o (IF s.outcome \in {"retired", "walkover", "defaulted", "unknown"}
               THEN <<Marker(s.outcome)>> ELSE <<>>)
=============================================================================
