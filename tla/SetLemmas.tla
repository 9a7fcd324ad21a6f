----------------------------- MODULE SetLemmas -----------------------------
(***************************************************************************)
(* Facts about finite sets, their smallest parts, and sums over them.      *)
(***************************************************************************)
EXTENDS Integers, FiniteSets, Functions, FiniteSetTheorems, WellFoundedInduction, TLAPS

\* A set of numbers has a smallest.
LEMMA LeastNumber ==
    ASSUME NEW S, S \subseteq Nat, S # {}
    PROVE  \E n \in S : \A x \in S : n <= x
<1>1. PICK n \in S : \A x \in S : ~(<<x, n>> \in OpToRel(<, Nat))
  BY NatLessThanWellFounded, WFMin
<1>2. \A x \in S : ~(x < n)
  BY <1>1 DEF OpToRel
<1> QED BY <1>2

\* Of some parts of a finite set, one has no other of them in it.
LEMMA SmallestPart ==
    ASSUME NEW S, IsFiniteSet(S), NEW Parts, Parts \subseteq SUBSET S, Parts # {}
    PROVE  \E P \in Parts : \A Q \in Parts : ~(Q \subseteq P /\ Q # P)
<1>1. IsWellFoundedOn(StrictSubsetOrdering(S), FiniteSubsetsOf(S))
  BY FS_StrictSubsetOrderingWellFounded
<1>2. Parts \subseteq FiniteSubsetsOf(S)
  BY FS_Subset DEF FiniteSubsetsOf
<1>3. PICK P \in Parts : \A Q \in Parts : ~(<<Q, P>> \in StrictSubsetOrdering(S))
  BY <1>1, <1>2, WFMin
<1> QED BY <1>3 DEF StrictSubsetOrdering

\* Of finitely many that any two of are compared, one comes before the others.
LEMMA FirstOfOrder ==
    ASSUME NEW S, IsFiniteSet(S), S # {}, NEW R,
           \A x, y \in S : x # y => <<x, y>> \in R \/ <<y, x>> \in R,
           \A x, y, z \in S : <<x, y>> \in R /\ <<y, z>> \in R => <<x, z>> \in R
    PROVE  \E x \in S : \A y \in S \ {x} : <<x, y>> \in R
<1> DEFINE First(T, x) == \A y \in T \ {x} : <<x, y>> \in R
           Bad == {T \in SUBSET S : T # {} /\ ~ \E x \in T : First(T, x)}
<1> SUFFICES ASSUME Bad # {} PROVE FALSE
  OBVIOUS
<1>1. PICK T \in Bad : \A U \in Bad : ~(U \subseteq T /\ U # T)
  <2> HIDE DEF Bad
  <2>1. Bad \subseteq SUBSET S
    BY DEF Bad
  <2> QED BY <2>1, SmallestPart
<1>2. PICK t \in T : TRUE
  OBVIOUS
<1> DEFINE U == T \ {t}
<1>3. U \notin Bad /\ U \subseteq S /\ T \subseteq S
  <2>1. U \subseteq T /\ U # T
    BY <1>2
  <2>2. U \notin Bad
    <3> HIDE DEF Bad, U
    <3> QED BY <1>1, <2>1
  <2> QED BY <1>1, <2>1, <2>2
<1>4. CASE U = {}
  BY <1>2, <1>4
<1>5. CASE U # {}
  <2>1. PICK x \in U : First(U, x)
    BY <1>3, <1>5
  <2>2. CASE <<x, t>> \in R
    <3>1. First(T, x)
      BY <2>1, <2>2
    <3> QED BY <2>1, <3>1
  <2>3. CASE <<t, x>> \in R
    <3>1. First(T, t)
      BY <1>2, <1>3, <2>1, <2>3
    <3> QED BY <1>2, <3>1
  <2> QED BY <1>2, <1>3, <2>1, <2>2, <2>3
<1> QED BY <1>4, <1>5

-----------------------------------------------------------------------------
(* Sums. SumFunction adds the values one at a time, whichever is chosen     *)
(* next: that this has a result, and that the order does not matter.        *)

Chosen(s) == CHOOSE x \in s : TRUE
Adds(h, f, D) == h = [s \in SUBSET D |-> IF s = {} THEN 0 ELSE f[Chosen(s)] + h[s \ {Chosen(s)}]]
Adder(f, D) == CHOOSE h : Adds(h, f, D)

LEMMA SumIsAdder == ASSUME NEW f, NEW D PROVE SumFunctionOnSet(f, D) = Adder(f, D)[D]
BY DEF SumFunctionOnSet, FoldFunctionOnSet, MapThenFoldSet, Adder, Adds, Chosen

LEMMA AddsFacts ==
    ASSUME NEW f, NEW D, NEW h, Adds(h, f, D), NEW s \in SUBSET D
    PROVE  h[s] = IF s = {} THEN 0 ELSE f[Chosen(s)] + h[s \ {Chosen(s)}]
BY DEF Adds

LEMMA ChosenIsMember == ASSUME NEW s, s # {} PROVE Chosen(s) \in s
BY DEF Chosen

LEMMA AddersAgree ==
    ASSUME NEW D, NEW E, IsFiniteSet(D), E \subseteq D, NEW f, NEW g, \A x \in E : f[x] = g[x],
           NEW h, Adds(h, f, D), NEW i, Adds(i, g, E)
    PROVE  h[E] = i[E]
<1> DEFINE Parts == {s \in SUBSET E : h[s] # i[s]}
<1>0. ASSUME NEW s \in SUBSET E
      PROVE  /\ h[s] = IF s = {} THEN 0 ELSE f[Chosen(s)] + h[s \ {Chosen(s)}]
             /\ i[s] = IF s = {} THEN 0 ELSE g[Chosen(s)] + i[s \ {Chosen(s)}]
  <2>1. h[s] = IF s = {} THEN 0 ELSE f[Chosen(s)] + h[s \ {Chosen(s)}]
    <3>1. s \in SUBSET D
      OBVIOUS
    <3> QED BY <3>1 DEF Adds
  <2>2. i[s] = IF s = {} THEN 0 ELSE g[Chosen(s)] + i[s \ {Chosen(s)}]
    BY DEF Adds
  <2> QED BY <2>1, <2>2
<1>1. IsFiniteSet(E)
  BY FS_Subset
<1>2. CASE Parts = {}
  BY <1>2
<1>3. CASE Parts # {}
  <2>1. PICK P \in Parts : \A Q \in Parts : Q \subseteq P => Q = P
    <3> HIDE DEF Parts
    <3>1. Parts \in SUBSET (SUBSET E)
      BY DEF Parts
    <3> QED BY <1>1, <1>3, <3>1, SmallestPart
  <2>2. P # {}
    BY <1>0
  <2>3. Chosen(P) \in P
    BY <2>2, ChosenIsMember
  <2>4. P \ {Chosen(P)} \notin Parts
    BY <2>1, <2>3
  <2>5. h[P \ {Chosen(P)}] = i[P \ {Chosen(P)}]
    BY <2>1, <2>4
  <2>6. h[P] = f[Chosen(P)] + h[P \ {Chosen(P)}]
    BY <1>0, <2>2
  <2>7. i[P] = g[Chosen(P)] + i[P \ {Chosen(P)}]
    BY <1>0, <2>2
  <2> QED BY <2>1, <2>3, <2>5, <2>6, <2>7
<1> QED BY <1>2, <1>3

LEMMA AdderExists ==
    ASSUME NEW D, IsFiniteSet(D), NEW f
    PROVE  Adds(Adder(f, D), f, D)
<1> DEFINE Parts == {s \in SUBSET D : ~Adds(Adder(f, s), f, s)}
<1>1. SUFFICES ASSUME Parts # {} PROVE FALSE
  OBVIOUS
<1>2. PICK P \in Parts : \A Q \in Parts : Q \subseteq P => Q = P
  <2>1. Parts \in SUBSET (SUBSET D)
    OBVIOUS
  <2> HIDE DEF Parts
  <2> QED BY <1>1, <2>1, SmallestPart
<1>3. \A Q \in SUBSET P : Q # P => Adds(Adder(f, Q), f, Q)
  BY <1>2
<1>4. IsFiniteSet(P)
  BY FS_Subset
<1> DEFINE h == [s \in SUBSET P |->
                    IF s = {} THEN 0
                    ELSE f[Chosen(s)] + Adder(f, s \ {Chosen(s)})[s \ {Chosen(s)}]]
<1>5. ASSUME NEW s \in SUBSET P, s # {}
      PROVE  h[s \ {Chosen(s)}] = Adder(f, s \ {Chosen(s)})[s \ {Chosen(s)}]
  <2> DEFINE Q == s \ {Chosen(s)}
  <2>1. Q \in SUBSET P /\ Q # P
    BY <1>5, ChosenIsMember
  <2>2. Adds(Adder(f, Q), f, Q)
    BY <1>3, <2>1
  <2> HIDE DEF Q
  <2>3. Adder(f, Q)[Q] = IF Q = {} THEN 0 ELSE f[Chosen(Q)] + Adder(f, Q)[Q \ {Chosen(Q)}]
    BY <2>2 DEF Adds
  <2>4. ASSUME Q # {}
        PROVE  Adder(f, Q)[Q \ {Chosen(Q)}] = Adder(f, Q \ {Chosen(Q)})[Q \ {Chosen(Q)}]
    <3> DEFINE R == Q \ {Chosen(Q)}
    <3>1. R \in SUBSET P /\ R # P /\ R \subseteq Q
      BY <2>1
    <3>2. Adds(Adder(f, R), f, R)
      BY <1>3, <3>1
    <3>3. IsFiniteSet(Q)
      BY <1>4, <2>1, FS_Subset
    <3> HIDE DEF R
    <3>4. Adder(f, Q)[R] = Adder(f, R)[R]
      BY <2>2, <3>1, <3>2, <3>3, AddersAgree
    <3> QED BY <3>4 DEF R
  <2>5. h[Q] = Adder(f, Q)[Q]
    BY <2>1, <2>3, <2>4
  <2> QED BY <2>5 DEF Q
<1>6. h = [s \in SUBSET P |-> IF s = {} THEN 0 ELSE f[Chosen(s)] + h[s \ {Chosen(s)}]]
  BY <1>5
<1> HIDE DEF h
<1>7. Adds(h, f, P)
  BY <1>6 DEF Adds
<1>8. Adds(Adder(f, P), f, P)
  BY <1>7 DEF Adder
<1> QED BY <1>2, <1>8

-----------------------------------------------------------------------------
LEMMA SumOfNothing == ASSUME NEW f PROVE SumFunctionOnSet(f, {}) = 0
<1>1. Adds(Adder(f, {}), f, {})
  BY FS_EmptySet, AdderExists
<1>2. Adder(f, {})[{}] = 0
  BY <1>1, AddsFacts
<1> QED BY <1>2, SumIsAdder

LEMMA SumOfChosen ==
    ASSUME NEW S, IsFiniteSet(S), S # {}, NEW f
    PROVE  SumFunctionOnSet(f, S) = f[Chosen(S)] + SumFunctionOnSet(f, S \ {Chosen(S)})
<1> DEFINE R == S \ {Chosen(S)}
<1>1. IsFiniteSet(R) /\ R \subseteq S
  BY FS_Subset
<1> HIDE DEF R
<1>2. Adds(Adder(f, S), f, S) /\ Adds(Adder(f, R), f, R)
  BY <1>1, AdderExists
<1>3. Adder(f, S)[R] = Adder(f, R)[R]
  BY <1>1, <1>2, AddersAgree
<1>4. Adder(f, S)[S] = f[Chosen(S)] + Adder(f, S)[R]
  BY <1>2, AddsFacts DEF R
<1>5. SumFunctionOnSet(f, S) = Adder(f, S)[S] /\ SumFunctionOnSet(f, R) = Adder(f, R)[R]
  BY SumIsAdder
<1> QED BY <1>3, <1>4, <1>5 DEF R

\* The sum of values that agree.
LEMMA SumOfSame ==
    ASSUME NEW S, IsFiniteSet(S), NEW f, NEW g, \A x \in S : f[x] = g[x]
    PROVE  SumFunctionOnSet(f, S) = SumFunctionOnSet(g, S)
<1>1. Adds(Adder(f, S), f, S) /\ Adds(Adder(g, S), g, S)
  BY AdderExists
<1>2. Adder(f, S)[S] = Adder(g, S)[S]
  BY <1>1, AddersAgree
<1> QED BY <1>2, SumIsAdder

LEMMA SumIsNumber ==
    ASSUME NEW S, IsFiniteSet(S), NEW f, \A x \in S : f[x] \in Int
    PROVE  SumFunctionOnSet(f, S) \in Int
<1> DEFINE Parts == {s \in SUBSET S : SumFunctionOnSet(f, s) \notin Int}
<1>1. SUFFICES ASSUME Parts # {} PROVE FALSE
  OBVIOUS
<1>2. PICK P \in Parts : \A Q \in Parts : Q \subseteq P => Q = P
  <2>1. Parts \in SUBSET (SUBSET S)
    OBVIOUS
  <2> HIDE DEF Parts
  <2> QED BY <1>1, <2>1, SmallestPart
<1>3. P # {}
  <2>1. SumFunctionOnSet(f, {}) = 0
    BY SumOfNothing
  <2>2. SumFunctionOnSet(f, P) \notin Int
    BY <1>2
  <2> HIDE DEF Parts
  <2> QED BY <2>1, <2>2
<1>4. Chosen(P) \in P /\ f[Chosen(P)] \in Int
  BY <1>2, <1>3, ChosenIsMember
<1>5. SumFunctionOnSet(f, P \ {Chosen(P)}) \in Int
  BY <1>2, <1>4
<1>6. SumFunctionOnSet(f, P) = f[Chosen(P)] + SumFunctionOnSet(f, P \ {Chosen(P)})
  BY <1>2, <1>3, SumOfChosen, FS_Subset
<1> QED BY <1>2, <1>4, <1>5, <1>6

\* Any of the values may be added last.
LEMMA SumWithout ==
    ASSUME NEW S, IsFiniteSet(S), NEW f, \A x \in S : f[x] \in Int, NEW y \in S
    PROVE  SumFunctionOnSet(f, S) = f[y] + SumFunctionOnSet(f, S \ {y})
<1> DEFINE Parts == {s \in SUBSET S : \E x \in s : SumFunctionOnSet(f, s) # f[x] + SumFunctionOnSet(f, s \ {x})}
<1>1. SUFFICES ASSUME Parts # {} PROVE FALSE
  OBVIOUS
<1>2. PICK P \in Parts : \A Q \in Parts : Q \subseteq P => Q = P
  <2>1. Parts \in SUBSET (SUBSET S)
    OBVIOUS
  <2> HIDE DEF Parts
  <2> QED BY <1>1, <2>1, SmallestPart
<1>3. PICK x \in P : SumFunctionOnSet(f, P) # f[x] + SumFunctionOnSet(f, P \ {x})
  BY <1>2
<1> DEFINE c == Chosen(P)
           T == (P \ {c}) \ {x}
<1>4. c \in P /\ P \subseteq S
  BY <1>2, <1>3, ChosenIsMember
<1>5. ASSUME NEW Q \in SUBSET P, Q # P, NEW z \in Q
      PROVE  SumFunctionOnSet(f, Q) = f[z] + SumFunctionOnSet(f, Q \ {z})
  <2>1. Q \notin Parts
    BY <1>2, <1>5
  <2> QED BY <1>4, <2>1
<1> HIDE DEF Parts
<1>6. ASSUME NEW Q \in SUBSET P PROVE IsFiniteSet(Q) /\ SumFunctionOnSet(f, Q) \in Int
  <2>1. IsFiniteSet(Q) /\ \A z \in Q : f[z] \in Int
    BY <1>4, FS_Subset
  <2> QED BY <2>1, SumIsNumber
<1>7. SumFunctionOnSet(f, P) = f[c] + SumFunctionOnSet(f, P \ {c})
  BY <1>3, <1>6, SumOfChosen
<1>8. c # x
  BY <1>3, <1>7
<1> HIDE DEF c
<1>9. SumFunctionOnSet(f, P \ {c}) = f[x] + SumFunctionOnSet(f, T)
  <2>1. P \ {c} \in SUBSET P /\ P \ {c} # P /\ x \in P \ {c}
    BY <1>4, <1>8
  <2> QED BY <1>5, <2>1
<1>10. SumFunctionOnSet(f, P \ {x}) = f[c] + SumFunctionOnSet(f, T)
  <2>1. P \ {x} \in SUBSET P /\ P \ {x} # P /\ c \in P \ {x} /\ (P \ {x}) \ {c} = T
    BY <1>4, <1>8
  <2> QED BY <1>5, <2>1
<1>11. SumFunctionOnSet(f, T) \in Int /\ f[c] \in Int /\ f[x] \in Int
  <2>1. T \in SUBSET P
    OBVIOUS
  <2> QED BY <1>4, <1>6, <2>1
<1> QED BY <1>3, <1>7, <1>9, <1>10, <1>11

\* Whatever holds of no values, and of one more value than it holds of, holds of all.
LEMMA SumOfParts ==
    ASSUME NEW S, IsFiniteSet(S), NEW Holds \in SUBSET (SUBSET S), {} \in Holds,
           \A P \in SUBSET S : \A x \in P : P \ {x} \in Holds => P \in Holds
    PROVE  S \in Holds
<1> DEFINE Parts == (SUBSET S) \ Holds
<1>1. CASE Parts = {}
  BY <1>1
<1>2. CASE Parts # {}
  <2>1. PICK P \in Parts : \A Q \in Parts : Q \subseteq P => Q = P
    <3>1. Parts \in SUBSET (SUBSET S)
      OBVIOUS
    <3> HIDE DEF Parts
    <3> QED BY <1>2, <3>1, SmallestPart
  <2>2. PICK x \in P : TRUE
    <3>1. P \notin Holds
      BY <2>1
    <3>2. P # {}
      BY <3>1
    <3> QED BY <3>2
  <2>3. P \ {x} \in Holds
    BY <2>1, <2>2
  <2> QED BY <2>1, <2>2, <2>3
<1> QED BY <1>1, <1>2

Values(b, S) == {b[x] : x \in S}
LEMMA FiniteImage ==
    ASSUME NEW S, IsFiniteSet(S), NEW b
    PROVE  IsFiniteSet(Values(b, S))
<1> USE DEF Values
<1> DEFINE f == [x \in S |-> b[x]]
           T == {b[x] : x \in S}
<1>1. f \in Surjection(S, T)
  BY DEF Surjection
<1> HIDE DEF f, T
<1> QED BY <1>1, FS_Surjection DEF T

LEMMA SumOfUnion ==
    ASSUME NEW A, NEW B, IsFiniteSet(A), IsFiniteSet(B), A \cap B = {},
           NEW f, \A x \in A \cup B : f[x] \in Int
    PROVE  SumFunctionOnSet(f, A \cup B) = SumFunctionOnSet(f, A) + SumFunctionOnSet(f, B)
<1> DEFINE Holds == {P \in SUBSET A : SumFunctionOnSet(f, P \cup B) = SumFunctionOnSet(f, P) + SumFunctionOnSet(f, B)}
<1>1. SumFunctionOnSet(f, B) \in Int
  BY SumIsNumber
<1>2. {} \in Holds
  <2>1. SumFunctionOnSet(f, {}) = 0 /\ {} \cup B = B
    BY SumOfNothing
  <2> QED BY <1>1, <2>1
<1>3. ASSUME NEW P \in SUBSET A, NEW x \in P, P \ {x} \in Holds
      PROVE  P \in Holds
  <2>1. IsFiniteSet(P) /\ IsFiniteSet(P \ {x}) /\ IsFiniteSet(P \cup B)
    BY FS_Subset, FS_Union
  <2>2. (P \cup B) \ {x} = (P \ {x}) \cup B
    BY <1>3
  <2>3. SumFunctionOnSet(f, P) = f[x] + SumFunctionOnSet(f, P \ {x})
    BY <2>1, SumWithout
  <2>4. SumFunctionOnSet(f, P \cup B) = f[x] + SumFunctionOnSet(f, (P \cup B) \ {x})
    BY <2>1, SumWithout
  <2>5. SumFunctionOnSet(f, P \ {x}) \in Int /\ f[x] \in Int
    BY <2>1, SumIsNumber
  <2>6. SumFunctionOnSet(f, (P \ {x}) \cup B) = SumFunctionOnSet(f, P \ {x}) + SumFunctionOnSet(f, B)
    BY <1>3
  <2>7. SumFunctionOnSet(f, P \cup B) = SumFunctionOnSet(f, P) + SumFunctionOnSet(f, B)
    <3> DEFINE T == P \cup B
               R == P \ {x}
               Q == R \cup B
    <3>1. T \ {x} = Q
      BY <2>2
    <3> HIDE DEF Holds, T, R, Q
    <3>2. SumFunctionOnSet(f, T) = f[x] + SumFunctionOnSet(f, T \ {x})
      BY <2>4 DEF T
    <3>3. /\ SumFunctionOnSet(f, P) = f[x] + SumFunctionOnSet(f, R)
          /\ SumFunctionOnSet(f, R) \in Int /\ f[x] \in Int
          /\ SumFunctionOnSet(f, Q) = SumFunctionOnSet(f, R) + SumFunctionOnSet(f, B)
      BY <2>3, <2>5, <2>6 DEF R, Q
    <3>4. SumFunctionOnSet(f, T) = SumFunctionOnSet(f, P) + SumFunctionOnSet(f, B)
      <4> DEFINE t == SumFunctionOnSet(f, T)
                 q == SumFunctionOnSet(f, Q)
                 r == SumFunctionOnSet(f, R)
                 p == SumFunctionOnSet(f, P)
                 b == SumFunctionOnSet(f, B)
                 a == f[x]
      <4>1. t = a + q
        BY <3>1, <3>2
      <4>2. p = a + r /\ r \in Int /\ a \in Int /\ q = r + b /\ b \in Int
        BY <1>1, <3>3
      <4> HIDE DEF t, q, r, p, b, a
      <4>3. t = p + b
        BY <4>1, <4>2
      <4> QED BY <4>3 DEF t, p, b
    <3> QED BY <3>4 DEF T
  <2> QED BY <2>7
<1>4. Holds \in SUBSET (SUBSET A)
  OBVIOUS
<1>5. A \in Holds
  <2> HIDE DEF Holds
  <2> QED BY <1>2, <1>3, <1>4, SumOfParts
<1> QED BY <1>5

LEMMA SumOfTwo ==
    ASSUME NEW S, IsFiniteSet(S), NEW f, NEW g, NEW h,
           \A x \in S : f[x] \in Int /\ g[x] \in Int /\ h[x] = f[x] + g[x]
    PROVE  SumFunctionOnSet(h, S) = SumFunctionOnSet(f, S) + SumFunctionOnSet(g, S)
<1> DEFINE Holds == {P \in SUBSET S : SumFunctionOnSet(h, P) = SumFunctionOnSet(f, P) + SumFunctionOnSet(g, P)}
<1>1. {} \in Holds
  BY SumOfNothing
<1>2. ASSUME NEW P \in SUBSET S, NEW x \in P, P \ {x} \in Holds
      PROVE  P \in Holds
  <2>1. IsFiniteSet(P) /\ IsFiniteSet(P \ {x})
    BY FS_Subset
  <2>2. SumFunctionOnSet(f, P) = f[x] + SumFunctionOnSet(f, P \ {x})
    BY <2>1, SumWithout
  <2>3. SumFunctionOnSet(g, P) = g[x] + SumFunctionOnSet(g, P \ {x})
    BY <2>1, SumWithout
  <2>4. SumFunctionOnSet(h, P) = h[x] + SumFunctionOnSet(h, P \ {x})
    BY <2>1, SumWithout
  <2>5. SumFunctionOnSet(f, P \ {x}) \in Int /\ SumFunctionOnSet(g, P \ {x}) \in Int
    BY <2>1, SumIsNumber
  <2>6. SumFunctionOnSet(h, P \ {x}) = SumFunctionOnSet(f, P \ {x}) + SumFunctionOnSet(g, P \ {x})
    BY <1>2
  <2>7. f[x] \in Int /\ g[x] \in Int /\ h[x] = f[x] + g[x]
    OBVIOUS
  <2> QED BY <2>2, <2>3, <2>4, <2>5, <2>6, <2>7
<1>3. Holds \in SUBSET (SUBSET S)
  OBVIOUS
<1>4. S \in Holds
  <2> HIDE DEF Holds
  <2> QED BY <1>1, <1>2, <1>3, SumOfParts
<1> QED BY <1>4

\* The same values under other names.
LEMMA SumMoved ==
    ASSUME NEW S, IsFiniteSet(S), NEW b, \A x, y \in S : b[x] = b[y] => x = y,
           NEW f, NEW g, \A x \in S : f[x] \in Int /\ g[b[x]] = f[x]
    PROVE  SumFunctionOnSet(g, Values(b, S)) = SumFunctionOnSet(f, S)
<1> DEFINE Holds == {P \in SUBSET S : SumFunctionOnSet(g, {b[x] : x \in P}) = SumFunctionOnSet(f, P)}
<1>1. {} \in Holds
  <2>1. {b[x] : x \in {}} = {}
    OBVIOUS
  <2> QED BY <2>1, SumOfNothing
<1>0. ASSUME NEW P \in SUBSET S PROVE IsFiniteSet({b[x] : x \in P})
  <2>1. IsFiniteSet(P)
    BY FS_Subset
  <2> QED BY <2>1, FiniteImage DEF Values
<1>2. ASSUME NEW P \in SUBSET S, NEW x \in P, P \ {x} \in Holds
      PROVE  P \in Holds
  <2> DEFINE T == {b[y] : y \in P}
  <2>1. IsFiniteSet(P) /\ IsFiniteSet(T)
    BY <1>0, FS_Subset
  <2>2. T \ {b[x]} = {b[y] : y \in P \ {x}}
    OBVIOUS
  <2>3. b[x] \in T /\ \A z \in T : g[z] \in Int
    OBVIOUS
  <2>4. SumFunctionOnSet(g, {b[y] : y \in P \ {x}}) = SumFunctionOnSet(f, P \ {x})
    BY <1>2
  <2>7. g[b[x]] = f[x]
    OBVIOUS
  <2> HIDE DEF T
  <2>5. SumFunctionOnSet(g, T) = g[b[x]] + SumFunctionOnSet(g, T \ {b[x]})
    BY <2>1, <2>3, SumWithout
  <2>6. SumFunctionOnSet(f, P) = f[x] + SumFunctionOnSet(f, P \ {x})
    BY <2>1, SumWithout
  <2>8. SumFunctionOnSet(g, T) = SumFunctionOnSet(f, P)
    BY <2>2, <2>4, <2>5, <2>6, <2>7
  <2> QED BY <2>8 DEF T
<1>3. Holds \in SUBSET (SUBSET S)
  OBVIOUS
<1>4. S \in Holds
  <2> HIDE DEF Holds
  <2> QED BY <1>1, <1>2, <1>3, SumOfParts
<1> QED BY <1>4 DEF Values

\* The sums of the cells of a table are the sum of its rows.
Having(S, c, k) == {x \in S : c[x] = k}
LEMMA SumOfCells ==
    ASSUME NEW S, IsFiniteSet(S), NEW c, NEW f, \A x \in S : f[x] \in Int,
           NEW F, \A k \in Values(c, S) : F[k] = SumFunctionOnSet(f, Having(S, c, k))
    PROVE  SumFunctionOnSet(F, Values(c, S)) = SumFunctionOnSet(f, S)
<1> USE DEF Values, Having
<1> DEFINE C == {c[x] : x \in S}
           In(K) == {x \in S : c[x] \in K}
           Holds == {K \in SUBSET C : SumFunctionOnSet(F, K) = SumFunctionOnSet(f, In(K))}
<1>1. {} \in Holds
  <2>1. In({}) = {}
    OBVIOUS
  <2> QED BY <2>1, SumOfNothing
<1>2. IsFiniteSet(C)
  BY FiniteImage DEF Values
<1>3. ASSUME NEW k \in C PROVE F[k] = SumFunctionOnSet(f, In({k})) /\ F[k] \in Int
  <2>1. In({k}) = {x \in S : c[x] = k} /\ IsFiniteSet(In({k}))
    BY FS_Subset
  <2>2. SumFunctionOnSet(f, In({k})) \in Int
    BY <2>1, SumIsNumber
  <2>3. F[k] = SumFunctionOnSet(f, In({k}))
    BY <2>1
  <2> QED BY <2>2, <2>3
<1>4. ASSUME NEW P \in SUBSET C, NEW k \in P, P \ {k} \in Holds
      PROVE  P \in Holds
  <2>1. IsFiniteSet(P)
    BY <1>2, FS_Subset
  <2>2. SumFunctionOnSet(F, P) = F[k] + SumFunctionOnSet(F, P \ {k})
    BY <1>3, <2>1, SumWithout
  <2>3. /\ In(P) = In({k}) \cup In(P \ {k}) /\ In({k}) \cap In(P \ {k}) = {}
        /\ IsFiniteSet(In({k})) /\ IsFiniteSet(In(P \ {k}))
        /\ \A x \in In({k}) \cup In(P \ {k}) : f[x] \in Int
    BY FS_Subset
  <2>4. SumFunctionOnSet(f, In({k}) \cup In(P \ {k}))
            = SumFunctionOnSet(f, In({k})) + SumFunctionOnSet(f, In(P \ {k}))
    <3> HIDE DEF In
    <3> QED BY <2>3, SumOfUnion
  <2>5. SumFunctionOnSet(F, P \ {k}) = SumFunctionOnSet(f, In(P \ {k}))
    BY <1>4
  <2>6. F[k] = SumFunctionOnSet(f, In({k}))
    BY <1>3
  <2>7. SumFunctionOnSet(F, P) = SumFunctionOnSet(f, In(P))
    <3> HIDE DEF In
    <3> QED BY <2>2, <2>3, <2>4, <2>5, <2>6
  <2> QED BY <2>7
<1>5. Holds \in SUBSET (SUBSET C)
  OBVIOUS
<1>6. C \in Holds
  <2> HIDE DEF Holds, C
  <2> QED BY <1>1, <1>2, <1>4, <1>5, SumOfParts
<1>7. In(C) = S
  OBVIOUS
<1> QED BY <1>6, <1>7

\* Counting is adding ones.
LEMMA SumOfOnes ==
    ASSUME NEW S, IsFiniteSet(S), NEW f, NEW T \in SUBSET S,
           \A x \in S : f[x] = IF x \in T THEN 1 ELSE 0
    PROVE  SumFunctionOnSet(f, S) = Cardinality(T)
<1> DEFINE Holds == {P \in SUBSET S : SumFunctionOnSet(f, P) = Cardinality(P \cap T)}
<1>1. {} \in Holds
  <2>1. {} \cap T = {}
    OBVIOUS
  <2> QED BY <2>1, SumOfNothing, FS_EmptySet
<1>2. ASSUME NEW P \in SUBSET S, NEW x \in P, P \ {x} \in Holds
      PROVE  P \in Holds
  <2>1. IsFiniteSet(P) /\ IsFiniteSet(P \cap T)
    BY FS_Subset
  <2>2. SumFunctionOnSet(f, P) = f[x] + SumFunctionOnSet(f, P \ {x})
    BY <2>1, SumWithout
  <2>3. SumFunctionOnSet(f, P \ {x}) = Cardinality((P \ {x}) \cap T)
    BY <1>2
  <2>4. Cardinality(P \cap T) = Cardinality((P \ {x}) \cap T) + f[x]
    <3>1. CASE x \in T
      <4>1. (P \ {x}) \cap T = (P \cap T) \ {x} /\ x \in P \cap T
        BY <3>1
      <4>2. Cardinality((P \cap T) \ {x}) = Cardinality(P \cap T) - 1
        BY <2>1, <4>1, FS_RemoveElement
      <4>3. Cardinality(P \cap T) \in Nat
        BY <2>1, FS_CardinalityType
      <4>4. f[x] = 1
        BY <3>1
      <4> DEFINE R == P \cap T
      <4> HIDE DEF R
      <4>5. Cardinality(R) = Cardinality(R \ {x}) + f[x]
        BY <4>2, <4>3, <4>4 DEF R
      <4> QED BY <4>1, <4>5 DEF R
    <3>2. CASE x \notin T
      <4>1. (P \ {x}) \cap T = P \cap T /\ f[x] = 0
        BY <3>2
      <4>3. Cardinality(P \cap T) \in Nat
        BY <2>1, FS_CardinalityType
      <4> QED BY <4>1, <4>3
    <3> QED BY <3>1, <3>2
  <2>5. Cardinality((P \ {x}) \cap T) \in Nat /\ f[x] \in Int
    BY <2>1, FS_CardinalityType, FS_Subset
  <2> QED BY <2>2, <2>3, <2>4, <2>5
<1>3. Holds \in SUBSET (SUBSET S)
  OBVIOUS
<1>4. S \in Holds
  <2> HIDE DEF Holds
  <2> QED BY <1>1, <1>2, <1>3, SumOfParts
<1>5. S \cap T = T
  OBVIOUS
<1> QED BY <1>4, <1>5
=============================================================================
