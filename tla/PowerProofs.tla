---------------------------- MODULE PowerProofs ----------------------------
(***************************************************************************)
(* Induction over sets of natural numbers, recursion over a step function, *)
(* and what they give for powers.                                          *)
(***************************************************************************)
EXTENDS Powers, Integers, WellFoundedInduction, TLAPS

Less == {p \in Nat \X Nat : p[1] < p[2]}

LEMMA LessIsWellFounded == IsWellFoundedOn(Less, Nat)
BY NatLessThanWellFounded DEF OpToRel, Less

\* Every set of natural numbers that is not empty has a least member.
LEMMA LeastMember ==
    ASSUME NEW S, S \subseteq Nat, S # {}
    PROVE  \E n \in S : \A m \in S : n <= m
<1>1. PICK n \in S : \A m \in S : <<m, n>> \notin Less
  BY LessIsWellFounded, WFMin
<1>2. ASSUME NEW m \in S PROVE n <= m
  <2>1. ~(m < n)
    BY <1>1 DEF Less
  <2>2. m \in Nat /\ n \in Nat
    OBVIOUS
  <2>3. QED  BY <2>1, <2>2
<1>3. QED  BY <1>2

\* A set of natural numbers with zero and every successor is Nat.
LEMMA SetInduction ==
    ASSUME NEW S, S \subseteq Nat, 0 \in S, \A n \in S : n + 1 \in S
    PROVE  S = Nat
<1> SUFFICES ASSUME Nat \ S # {} PROVE FALSE
  OBVIOUS
<1>1. PICK n \in Nat \ S : \A m \in Nat \ S : n <= m
  BY LeastMember
<1>2. n - 1 \in S
  BY <1>1
<1>3. QED  BY <1>1, <1>2

-----------------------------------------------------------------------------
(* Recursion *)

\* g holds the first n + 1 values.
Begins(g, n, S, zero, step) ==
    /\ g \in [0 .. n -> S]
    /\ g[0] = zero
    /\ \A i \in 0 .. n - 1 : g[i + 1] = step[g[i]]

LEMMA BeginningsExist ==
    ASSUME NEW S, NEW zero \in S, NEW step \in [S -> S], NEW n \in Nat
    PROVE  \E g : Begins(g, n, S, zero, step)
<1> DEFINE Good == {m \in Nat : \E g : Begins(g, m, S, zero, step)}
<1>1. 0 \in Good
  <2>1. Begins([i \in 0 .. 0 |-> zero], 0, S, zero, step)
    BY DEF Begins
  <2>2. QED  BY <2>1
<1>2. ASSUME NEW m \in Good PROVE m + 1 \in Good
  <2>1. PICK g : Begins(g, m, S, zero, step)
    OBVIOUS
  <2> DEFINE h == [i \in 0 .. m + 1 |-> IF i <= m THEN g[i] ELSE step[g[m]]]
  <2>2. h \in [0 .. m + 1 -> S]
    BY <2>1 DEF Begins
  <2>3. h[0] = zero
    BY <2>1 DEF Begins
  <2>4. ASSUME NEW i \in 0 .. (m + 1) - 1 PROVE h[i + 1] = step[h[i]]
    <3>1. CASE i = m
      BY <3>1
    <3>2. CASE i # m
      BY <3>2, <2>1 DEF Begins
    <3>3. QED  BY <3>1, <3>2
  <2>5. Begins(h, m + 1, S, zero, step)
    BY <2>2, <2>3, <2>4 DEF Begins
  <2>6. QED  BY <2>5
<1>3. Good = Nat
  <2> HIDE DEF Good
  <2>1. Good \subseteq Nat  BY DEF Good
  <2>2. QED  BY <1>1, <1>2, <2>1, SetInduction
<1>4. QED  BY <1>3

LEMMA BeginningsAgree ==
    ASSUME NEW S, NEW zero \in S, NEW step \in [S -> S],
           NEW n \in Nat, NEW m \in Nat, NEW g, NEW h,
           Begins(g, n, S, zero, step), Begins(h, m, S, zero, step)
    PROVE  \A i \in Nat : i <= n /\ i <= m => g[i] = h[i]
<1> DEFINE Same == {i \in Nat : i <= n /\ i <= m => g[i] = h[i]}
<1>1. 0 \in Same
  BY DEF Begins
<1>2. ASSUME NEW i \in Same PROVE i + 1 \in Same
  <2> SUFFICES ASSUME i + 1 <= n, i + 1 <= m PROVE g[i + 1] = h[i + 1]
    OBVIOUS
  <2>1. g[i] = h[i] /\ i \in 0 .. n - 1 /\ i \in 0 .. m - 1
    OBVIOUS
  <2>2. QED  BY <2>1 DEF Begins
<1>3. Same = Nat
  <2> HIDE DEF Same
  <2>1. Same \subseteq Nat  BY DEF Same
  <2>2. QED  BY <1>1, <1>2, <2>1, SetInduction
<1>4. QED  BY <1>3

Recurs(f, S, zero, step) ==
    f \in [Nat -> S] /\ f[0] = zero /\ \A n \in Nat : f[n + 1] = step[f[n]]

\* A first value and a step function on S determine a function on Nat.
LEMMA StepRecursion ==
    ASSUME NEW S, NEW zero \in S, NEW step \in [S -> S]
    PROVE  \E f : Recurs(f, S, zero, step)
<1> DEFINE beginning == [n \in Nat |-> CHOOSE g : Begins(g, n, S, zero, step)]
           f == [n \in Nat |-> beginning[n][n]]
<1>1. ASSUME NEW n \in Nat PROVE Begins(beginning[n], n, S, zero, step)
  BY BeginningsExist
<1> HIDE DEF beginning
<1>2. ASSUME NEW n \in Nat PROVE f[n] \in S
  BY <1>1 DEF Begins
<1>3. f[0] = zero
  BY <1>1 DEF Begins
<1>4. ASSUME NEW n \in Nat PROVE f[n + 1] = step[f[n]]
  <2>1. Begins(beginning[n], n, S, zero, step) /\ Begins(beginning[n + 1], n + 1, S, zero, step)
    BY <1>1
  <2>2. beginning[n + 1][n] = beginning[n][n]
    <3>1. n + 1 \in Nat /\ n <= n + 1 /\ n <= n
      OBVIOUS
    <3>2. QED  BY <2>1, <3>1, BeginningsAgree
  <2>3. beginning[n + 1][n + 1] = step[beginning[n + 1][n]]
    BY <2>1 DEF Begins
  <2>4. QED  BY <2>2, <2>3
<1>5. f \in [Nat -> S]
  BY <1>2
<1>6. Recurs(f, S, zero, step)
  BY <1>3, <1>4, <1>5 DEF Recurs
<1>7. QED  BY <1>6

-----------------------------------------------------------------------------
(* Powers *)

LEMMA PowerEquations ==
    ASSUME NEW base \in Nat
    PROVE  /\ Power(base) \in [Nat -> Nat]
           /\ Power(base)[0] = 1
           /\ \A n \in Nat : Power(base)[n + 1] = base * Power(base)[n]
<1> DEFINE Body(p) == [n \in Nat |-> IF n = 0 THEN 1 ELSE base * p[n - 1]]
           step == [x \in Nat |-> base * x]
<1>1. PICK f \in [Nat -> Nat] : f[0] = 1 /\ \A n \in Nat : f[n + 1] = step[f[n]]
  <2>1. step \in [Nat -> Nat] /\ 1 \in Nat
    OBVIOUS
  <2>2. ASSUME NEW next \in [Nat -> Nat]
        PROVE  \E f : Recurs(f, Nat, 1, next)
    BY <2>1, StepRecursion
  <2>3. \E f : Recurs(f, Nat, 1, step)
    BY <2>1, <2>2
  <2>4. QED  BY <2>3 DEF Recurs
<1>2. f = Body(f)
  <2>1. ASSUME NEW n \in Nat PROVE f[n] = IF n = 0 THEN 1 ELSE base * f[n - 1]
    <3>1. CASE n = 0
      BY <1>1, <3>1
    <3>2. CASE n # 0
      <4>1. n - 1 \in Nat /\ (n - 1) + 1 = n
        BY <3>2
      <4>2. f[n] = step[f[n - 1]]
        BY <1>1, <4>1
      <4>3. QED  BY <4>1, <4>2, <3>2
    <3>3. QED  BY <3>1, <3>2
  <2>2. QED  BY <2>1, <1>1
<1>3. Power(base) = CHOOSE p : p = Body(p)
  BY DEF Power
<1> HIDE DEF Body
<1>4. Power(base) = Body(Power(base))
  BY <1>2, <1>3
<1> DEFINE p == Power(base)
<1>5. p = Body(p)
  BY <1>4
<1> HIDE DEF p
<1>6. /\ p[0] = 1
      /\ \A n \in Nat \ {0} : p[n] = base * p[n - 1]
      /\ DOMAIN p = Nat
      /\ p = [n \in Nat |-> p[n]]
  BY <1>5 DEF Body
<1>7. \A n \in Nat : p[n + 1] = base * p[n]
  <2> SUFFICES ASSUME NEW n \in Nat PROVE p[n + 1] = base * p[n]
    OBVIOUS
  <2>1. n + 1 \in Nat \ {0} /\ (n + 1) - 1 = n
    OBVIOUS
  <2>2. QED  BY <1>6, <2>1
<1>8. \A n \in Nat : p[n] \in Nat
  <2> DEFINE Good == {n \in Nat : p[n] \in Nat}
  <2>1. 0 \in Good  BY <1>6
  <2>2. \A n \in Good : n + 1 \in Good  BY <1>7
  <2>3. Good \subseteq Nat  OBVIOUS
  <2> HIDE DEF Good
  <2>4. Good = Nat  BY <2>1, <2>2, <2>3, SetInduction
  <2>5. QED  BY <2>4 DEF Good
<1>9. p \in [Nat -> Nat]
  BY <1>6, <1>8
<1>10. QED  BY <1>6, <1>7, <1>9 DEF p

\* A power of two or more exceeds its exponent.
LEMMA PowerGrows ==
    ASSUME NEW base \in Nat, base >= 2, NEW n \in Nat
    PROVE  Power(base)[n] >= n + 1
<1> DEFINE p == Power(base)
           Good == {m \in Nat : p[m] >= m + 1}
<1>1. p[0] = 1 /\ \A m \in Nat : p[m] \in Nat /\ p[m + 1] = base * p[m]
  BY PowerEquations
<1> HIDE DEF p
<1>2. 0 \in Good
  BY <1>1
<1>3. ASSUME NEW m \in Good PROVE m + 1 \in Good
  <2>1. p[m + 1] = base * p[m] /\ p[m] \in Nat /\ p[m] >= m + 1
    BY <1>1
  <2>2. base * p[m] >= 2 * p[m]
    BY <2>1
  <2>3. p[m + 1] >= (m + 1) + 1
    BY <2>1, <2>2
  <2>4. QED  BY <2>3
<1>4. Good \subseteq Nat  OBVIOUS
<1> HIDE DEF Good
<1>5. Good = Nat  BY <1>2, <1>3, <1>4, SetInduction
<1>6. QED  BY <1>5 DEF Good, p
=============================================================================
