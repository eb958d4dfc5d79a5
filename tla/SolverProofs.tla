---- MODULE SolverProofs ----
(***************************************************************************)
(* What the two engines of the trip solver may answer, for every request   *)
(* that the models accept.                                                 *)
(*                                                                         *)
(* Greedy (greedy.py).  GreedyInv: every route can be walked within its    *)
(* day's hours, budget and deadline, and each POI asked for is on one      *)
(* route, still to do, or skipped.  Every insertion and every 2-opt move   *)
(* is attempted before it is made, and an attempt is the walk itself, so   *)
(* each step keeps it.  GreedyFeasible then compares the walk with the     *)
(* independent check of the answer (check.py), which knows nothing of the  *)
(* engine: visit by visit the check has nothing against the day, and the   *)
(* meals laid between the visits are all it can object to.                 *)
(*                                                                         *)
(* Routing (routing.py).  RoutingInv: every stop of a route is reachable   *)
(* from the one before it, in the minutes and paces the engine was given.  *)
(* RoutedPasses reads the minutes back as seconds and lays them before the *)
(* same check: only what the rounding hides can be found.                  *)
(***************************************************************************)
EXTENDS TripSolver, PowerProofs, FiniteSetTheorems, SequenceTheorems

-----------------------------------------------------------------------------
(* Recursive functions of the model, step by step. *)

LEMMA MaxOfTwo ==
    ASSUME NEW a \in Int, NEW b \in Int
    PROVE  Max({a, b}) = IF a >= b THEN a ELSE b
BY DEF Max

LEMMA MinOfTwo ==
    ASSUME NEW a \in Int, NEW b \in Int
    PROVE  Min({a, b}) = IF a <= b THEN a ELSE b
BY DEF Min

\* The choice from a set of one.
LEMMA OnlyOne == ASSUME NEW x PROVE The({x}) = x
BY DEF The

\* A walk, one stop after the other.
Off(d) == [ok |-> TRUE, now |-> Day(d).start, node |-> Hotel, walked |-> 0,
           travel |-> 0, wait |-> 0, stops |-> <<>>]

\* The equations of a walk: where it starts, and one visit after the other.
LEMMA WalkSteps ==
    ASSUME NEW d, NEW route, Len(route) \in Nat
    PROVE  /\ Walks(d, route)[0] = Off(d)
           /\ \A k \in 1 .. Len(route) : Walks(d, route)[k] = Visit(Walks(d, route)[k - 1], route[k])
<1> DEFINE n == Len(route)
           next(x, k) == The({Visit(before, route[k]) : before \in {x}})
           body(f, m) == [k \in 0 .. m |-> IF k = 0 THEN Off(d) ELSE next(f[k - 1], k)]
           Good == {m \in Nat : \E f : f = body(f, m)}
<1>1. Walks(d, route) = CHOOSE f : f = body(f, n)
  BY DEF Walks, Off
<1>2. ASSUME NEW x, NEW k PROVE next(x, k) = Visit(x, route[k])
  <2>1. {Visit(before, route[k]) : before \in {x}} = {Visit(x, route[k])}
    OBVIOUS
  <2>2. QED  BY <2>1, OnlyOne
<1> HIDE DEF next
<1>3. 0 \in Good
  <2> DEFINE f == [k \in 0 .. 0 |-> Off(d)]
  <2>1. f = body(f, 0)
    OBVIOUS
  <2>2. QED  BY <2>1
<1>4. ASSUME NEW m \in Good PROVE m + 1 \in Good
  <2>1. m \in Nat /\ m + 1 \in Nat
    OBVIOUS
  <2>2. PICK f : f = body(f, m)
    OBVIOUS
  <2> DEFINE g == [k \in 0 .. m + 1 |-> IF k <= m THEN f[k] ELSE next(f[m], k)]
  <2>3. \A k \in 0 .. m + 1 : g[k] = IF k = 0 THEN Off(d) ELSE next(g[k - 1], k)
    <3> SUFFICES ASSUME NEW k \in 0 .. m + 1 PROVE g[k] = IF k = 0 THEN Off(d) ELSE next(g[k - 1], k)
      OBVIOUS
    <3>1. CASE k <= m
      <4>1. k \in 0 .. m /\ g[k] = f[k] /\ (k # 0 => k - 1 \in 0 .. m + 1 /\ g[k - 1] = f[k - 1])
        BY <2>1, <3>1
      <4>2. f[k] = IF k = 0 THEN Off(d) ELSE next(f[k - 1], k)
        BY <2>2, <4>1
      <4>3. QED  BY <4>1, <4>2
    <3>2. CASE ~(k <= m)
      <4>1. k = m + 1 /\ k # 0 /\ k - 1 = m /\ g[k] = next(f[m], k) /\ g[m] = f[m]
        BY <2>1, <3>2
      <4>2. QED  BY <4>1
    <3>3. QED  BY <3>1, <3>2
  <2>4. g = body(g, m + 1)
    <3>1. DOMAIN g = 0 .. m + 1 /\ g = [k \in 0 .. m + 1 |-> g[k]]
      OBVIOUS
    <3> HIDE DEF g
    <3>2. QED  BY <2>3, <3>1
  <2>5. QED  BY <2>1, <2>4
<1>5. Good \subseteq Nat
  OBVIOUS
<1> HIDE DEF Good
<1>6. n \in Good
  <2>1. Good = Nat
    BY <1>3, <1>4, <1>5, SetInduction
  <2>2. QED  BY <2>1
<1>7. \E f : f = body(f, n)
  BY <1>6 DEF Good
<1>8. Walks(d, route) = body(Walks(d, route), n)
  BY <1>1, <1>7
<1>9. QED  BY <1>2, <1>8
\* The independent check, stop by stop.
Unchecked(d) == [depart |-> Day(d).start, node |-> Hotel, walked |-> 0, issues |-> {}]

\* The equations of the independent check of a day.
LEMMA CheckSteps ==
    ASSUME NEW d, NEW stops, Len(stops) \in Nat
    PROVE  /\ Checks(d, stops)[0] = Unchecked(d)
           /\ \A k \in 1 .. Len(stops) : Checks(d, stops)[k] = CheckStop(d, Checks(d, stops)[k - 1], stops[k])
<1> DEFINE n == Len(stops)
           next(x, k) == The({CheckStop(d, before, stops[k]) : before \in {x}})
           body(f, m) == [k \in 0 .. m |-> IF k = 0 THEN Unchecked(d) ELSE next(f[k - 1], k)]
           Good == {m \in Nat : \E f : f = body(f, m)}
<1>1. Checks(d, stops) = CHOOSE f : f = body(f, n)
  BY DEF Checks, Unchecked
<1>2. ASSUME NEW x, NEW k PROVE next(x, k) = CheckStop(d, x, stops[k])
  <2>1. {CheckStop(d, before, stops[k]) : before \in {x}} = {CheckStop(d, x, stops[k])}
    OBVIOUS
  <2>2. QED  BY <2>1, OnlyOne
<1> HIDE DEF next
<1>3. 0 \in Good
  <2> DEFINE f == [k \in 0 .. 0 |-> Unchecked(d)]
  <2>1. f = body(f, 0)
    OBVIOUS
  <2>2. QED  BY <2>1
<1>4. ASSUME NEW m \in Good PROVE m + 1 \in Good
  <2>1. m \in Nat /\ m + 1 \in Nat
    OBVIOUS
  <2>2. PICK f : f = body(f, m)
    OBVIOUS
  <2> DEFINE g == [k \in 0 .. m + 1 |-> IF k <= m THEN f[k] ELSE next(f[m], k)]
  <2>3. \A k \in 0 .. m + 1 : g[k] = IF k = 0 THEN Unchecked(d) ELSE next(g[k - 1], k)
    <3> SUFFICES ASSUME NEW k \in 0 .. m + 1 PROVE g[k] = IF k = 0 THEN Unchecked(d) ELSE next(g[k - 1], k)
      OBVIOUS
    <3>1. CASE k <= m
      <4>1. k \in 0 .. m /\ g[k] = f[k] /\ (k # 0 => k - 1 \in 0 .. m + 1 /\ g[k - 1] = f[k - 1])
        BY <2>1, <3>1
      <4>2. f[k] = IF k = 0 THEN Unchecked(d) ELSE next(f[k - 1], k)
        BY <2>2, <4>1
      <4>3. QED  BY <4>1, <4>2
    <3>2. CASE ~(k <= m)
      <4>1. k = m + 1 /\ k # 0 /\ k - 1 = m /\ g[k] = next(f[m], k) /\ g[m] = f[m]
        BY <2>1, <3>2
      <4>2. QED  BY <4>1
    <3>3. QED  BY <3>1, <3>2
  <2>4. g = body(g, m + 1)
    <3>1. DOMAIN g = 0 .. m + 1 /\ g = [k \in 0 .. m + 1 |-> g[k]]
      OBVIOUS
    <3> HIDE DEF g
    <3>2. QED  BY <2>3, <3>1
  <2>5. QED  BY <2>1, <2>4
<1>5. Good \subseteq Nat
  OBVIOUS
<1> HIDE DEF Good
<1>6. n \in Good
  <2>1. Good = Nat
    BY <1>3, <1>4, <1>5, SetInduction
  <2>2. QED  BY <2>1
<1>7. \E f : f = body(f, n)
  BY <1>6 DEF Good
<1>8. Checks(d, stops) = body(Checks(d, stops), n)
  BY <1>1, <1>7
<1>9. QED  BY <1>2, <1>8
\* A meal is postponed by one visit after the other.
FirstServed(d, hours) == Max({Midnight(d) + At(hours[1]), Day(d).start})

\* The equations of a meal that is postponed by one visit after the other.
LEMMA MealSteps ==
    ASSUME NEW d, NEW hours, NEW stops, Len(stops) \in Nat
    PROVE  /\ MealStarts(d, hours, stops)[0] = FirstServed(d, hours)
           /\ \A k \in 1 .. Len(stops) : MealStarts(d, hours, stops)[k] = Postponed(MealStarts(d, hours, stops)[k - 1], stops[k])
<1> DEFINE n == Len(stops)
           next(x, k) == The({Postponed(before, stops[k]) : before \in {x}})
           body(f, m) == [k \in 0 .. m |-> IF k = 0 THEN FirstServed(d, hours) ELSE next(f[k - 1], k)]
           Good == {m \in Nat : \E f : f = body(f, m)}
<1>1. MealStarts(d, hours, stops) = CHOOSE f : f = body(f, n)
  BY DEF MealStarts, FirstServed
<1>2. ASSUME NEW x, NEW k PROVE next(x, k) = Postponed(x, stops[k])
  <2>1. {Postponed(before, stops[k]) : before \in {x}} = {Postponed(x, stops[k])}
    OBVIOUS
  <2>2. QED  BY <2>1, OnlyOne
<1> HIDE DEF next
<1>3. 0 \in Good
  <2> DEFINE f == [k \in 0 .. 0 |-> FirstServed(d, hours)]
  <2>1. f = body(f, 0)
    OBVIOUS
  <2>2. QED  BY <2>1
<1>4. ASSUME NEW m \in Good PROVE m + 1 \in Good
  <2>1. m \in Nat /\ m + 1 \in Nat
    OBVIOUS
  <2>2. PICK f : f = body(f, m)
    OBVIOUS
  <2> DEFINE g == [k \in 0 .. m + 1 |-> IF k <= m THEN f[k] ELSE next(f[m], k)]
  <2>3. \A k \in 0 .. m + 1 : g[k] = IF k = 0 THEN FirstServed(d, hours) ELSE next(g[k - 1], k)
    <3> SUFFICES ASSUME NEW k \in 0 .. m + 1 PROVE g[k] = IF k = 0 THEN FirstServed(d, hours) ELSE next(g[k - 1], k)
      OBVIOUS
    <3>1. CASE k <= m
      <4>1. k \in 0 .. m /\ g[k] = f[k] /\ (k # 0 => k - 1 \in 0 .. m + 1 /\ g[k - 1] = f[k - 1])
        BY <2>1, <3>1
      <4>2. f[k] = IF k = 0 THEN FirstServed(d, hours) ELSE next(f[k - 1], k)
        BY <2>2, <4>1
      <4>3. QED  BY <4>1, <4>2
    <3>2. CASE ~(k <= m)
      <4>1. k = m + 1 /\ k # 0 /\ k - 1 = m /\ g[k] = next(f[m], k) /\ g[m] = f[m]
        BY <2>1, <3>2
      <4>2. QED  BY <4>1
    <3>3. QED  BY <3>1, <3>2
  <2>4. g = body(g, m + 1)
    <3>1. DOMAIN g = 0 .. m + 1 /\ g = [k \in 0 .. m + 1 |-> g[k]]
      OBVIOUS
    <3> HIDE DEF g
    <3>2. QED  BY <2>3, <3>1
  <2>5. QED  BY <2>1, <2>4
<1>5. Good \subseteq Nat
  OBVIOUS
<1> HIDE DEF Good
<1>6. n \in Good
  <2>1. Good = Nat
    BY <1>3, <1>4, <1>5, SetInduction
  <2>2. QED  BY <2>1
<1>7. \E f : f = body(f, n)
  BY <1>6 DEF Good
<1>8. MealStarts(d, hours, stops) = body(MealStarts(d, hours, stops), n)
  BY <1>1, <1>7
<1>9. QED  BY <1>2, <1>8
\* A vehicle drives from node to node.
Parked(d) == [node |-> Hotel, free |-> Minute(Day(d).start), paces |-> 0]

\* The equations of a vehicle's day.
LEMMA DriveSteps ==
    ASSUME NEW d, NEW route, Len(route) \in Nat
    PROVE  /\ Drives(d, route)[0] = Parked(d)
           /\ \A k \in 1 .. Len(route) : Drives(d, route)[k] = Drive(Drives(d, route)[k - 1], route[k])
<1> DEFINE n == Len(route)
           next(x, k) == The({Drive(before, route[k]) : before \in {x}})
           body(f, m) == [k \in 0 .. m |-> IF k = 0 THEN Parked(d) ELSE next(f[k - 1], k)]
           Good == {m \in Nat : \E f : f = body(f, m)}
<1>1. Drives(d, route) = CHOOSE f : f = body(f, n)
  BY DEF Drives, Parked
<1>2. ASSUME NEW x, NEW k PROVE next(x, k) = Drive(x, route[k])
  <2>1. {Drive(before, route[k]) : before \in {x}} = {Drive(x, route[k])}
    OBVIOUS
  <2>2. QED  BY <2>1, OnlyOne
<1> HIDE DEF next
<1>3. 0 \in Good
  <2> DEFINE f == [k \in 0 .. 0 |-> Parked(d)]
  <2>1. f = body(f, 0)
    OBVIOUS
  <2>2. QED  BY <2>1
<1>4. ASSUME NEW m \in Good PROVE m + 1 \in Good
  <2>1. m \in Nat /\ m + 1 \in Nat
    OBVIOUS
  <2>2. PICK f : f = body(f, m)
    OBVIOUS
  <2> DEFINE g == [k \in 0 .. m + 1 |-> IF k <= m THEN f[k] ELSE next(f[m], k)]
  <2>3. \A k \in 0 .. m + 1 : g[k] = IF k = 0 THEN Parked(d) ELSE next(g[k - 1], k)
    <3> SUFFICES ASSUME NEW k \in 0 .. m + 1 PROVE g[k] = IF k = 0 THEN Parked(d) ELSE next(g[k - 1], k)
      OBVIOUS
    <3>1. CASE k <= m
      <4>1. k \in 0 .. m /\ g[k] = f[k] /\ (k # 0 => k - 1 \in 0 .. m + 1 /\ g[k - 1] = f[k - 1])
        BY <2>1, <3>1
      <4>2. f[k] = IF k = 0 THEN Parked(d) ELSE next(f[k - 1], k)
        BY <2>2, <4>1
      <4>3. QED  BY <4>1, <4>2
    <3>2. CASE ~(k <= m)
      <4>1. k = m + 1 /\ k # 0 /\ k - 1 = m /\ g[k] = next(f[m], k) /\ g[m] = f[m]
        BY <2>1, <3>2
      <4>2. QED  BY <4>1
    <3>3. QED  BY <3>1, <3>2
  <2>4. g = body(g, m + 1)
    <3>1. DOMAIN g = 0 .. m + 1 /\ g = [k \in 0 .. m + 1 |-> g[k]]
      OBVIOUS
    <3> HIDE DEF g
    <3>2. QED  BY <2>3, <3>1
  <2>5. QED  BY <2>1, <2>4
<1>5. Good \subseteq Nat
  OBVIOUS
<1> HIDE DEF Good
<1>6. n \in Good
  <2>1. Good = Nat
    BY <1>3, <1>4, <1>5, SetInduction
  <2>2. QED  BY <2>1
<1>7. \E f : f = body(f, n)
  BY <1>6 DEF Good
<1>8. Drives(d, route) = body(Drives(d, route), n)
  BY <1>1, <1>7
<1>9. QED  BY <1>2, <1>8

-----------------------------------------------------------------------------
(* What the request gives: places, legs, durations, variants. *)

\* The nodes a stop can follow, and those a day can end at.
Places == Pois \cup {Hotel}
Goals == Places \cup ({Day(d).end : d \in Days} \ {None})

\* Every way between places, and from a place to where a day ends, takes some time.
LEMMA LegType ==
    ASSUME WellFormed(request), NEW from \in Places, NEW to \in Goals
    PROVE  Leg(from, to).time \in Nat /\ Walked(Leg(from, to)) \in Nat
<1>1. CASE from = to
  BY <1>1 DEF Leg, Walked
<1>2. CASE from # to
  <2>1. request.legs[<<from, to>>] \in [walk : BOOLEAN, time : Nat, meters : Nat]
    BY <1>2 DEF WellFormed, Places, Goals, Day
  <2>2. Leg(from, to) = request.legs[<<from, to>>]
    BY <1>2 DEF Leg
  <2>3. QED  BY <2>1, <2>2 DEF Walked
<1>3. QED  BY <1>1, <1>2

LEMMA HomeType ==
    ASSUME WellFormed(request), NEW d \in Days, NEW node \in Places
    PROVE  Home(d, node).time \in Nat /\ Walked(Home(d, node)) \in Nat
<1>1. (IF Day(d).end = None THEN node ELSE Day(d).end) \in Goals
  BY DEF Goals
<1>2. QED  BY <1>1, LegType DEF Home

\* A visit takes whole minutes, and at least those it is meant to.
LEMMA DurationType ==
    ASSUME WellFormed(request), NEW p \in Pois
    PROVE  /\ Duration(p) \in Nat /\ Duration(p) % 2 = 0 /\ Duration(p) > 0
           /\ Minutes(Poi(p).duration) \in Nat /\ Duration(p) >= Minutes(Poi(p).duration)
<1> DEFINE stay == Poi(p).duration
           access == IF Verified(p) THEN 0 ELSE Option.accessBuffer
           rest == IF Pace = "relaxed" THEN Min({stay, 60}) ELSE 0
<1>1. stay \in Nat /\ stay > 0
  <2>1. stay \in Nat \ {0}
    BY DEF WellFormed, Poi
  <2>2. QED  BY <2>1
<1>2. access \in Nat
  <2>1. Option.accessBuffer \in Nat
    BY DEF WellFormed, Option
  <2>2. QED  BY <2>1
<1>3. rest \in Nat
  BY <1>1, MinOfTwo
<1>4. Duration(p) = 2 * (stay + access + rest)
  BY DEF Duration, Minutes
<1> HIDE DEF stay, access, rest
<1>5. Duration(p) \in Nat /\ Duration(p) % 2 = 0 /\ Duration(p) > 0 /\ Duration(p) >= 2 * stay
  BY <1>1, <1>2, <1>3, <1>4
<1>6. QED  BY <1>1, <1>5 DEF Minutes, stay

\* A day's bounds are numbers; a deadline is the end of the day.
LEMMA DeadlineType ==
    ASSUME WellFormed(request), NEW d \in Days
    PROVE  /\ Day(d).start \in Int
           /\ Deadline(d) # None => Deadline(d) \in Int
           /\ DayEnd(d) \in Int
           /\ Deadline(d) # None => DayEnd(d) = Deadline(d)
           /\ Day(d).budget # None => Day(d).budget \in Int
<1>1. /\ Day(d).start \in Int
      /\ Day(d).deadline # None => Day(d).deadline \in Int
      /\ Day(d).budget # None => Day(d).budget \in Int
  BY DEF WellFormed, Day
<1>2. DepartureMargin \in Int
  BY DEF DepartureMargin
<1>3. DepartureBuffer \in Int
  <2> DEFINE brisk == IF Option.age < 30 /\ Pace = "packed"
                      THEN Max({0, DepartureMargin - 10}) ELSE DepartureMargin
             more == CASE Option.limited -> 30
                       [] ~Option.limited /\ Option.age >= 60 -> 15
                       [] OTHER -> 0
  <2>1. brisk \in Int
    BY <1>2, MaxOfTwo
  <2>2. more \in Int
    OBVIOUS
  <2>3. DepartureBuffer = Minutes(brisk + more)
    BY DEF DepartureBuffer
  <2> HIDE DEF brisk, more
  <2>4. QED  BY <2>1, <2>2, <2>3 DEF Minutes
<1>4. Deadline(d) # None => Deadline(d) \in Int
  BY <1>1, <1>3 DEF Deadline
<1>5. Minutes(Option.maxDay) \in Int
  <2>1. Option.maxDay \in Nat
    BY DEF WellFormed, Option
  <2>2. QED  BY <2>1 DEF Minutes
<1>6. QED  BY <1>1, <1>4, <1>5 DEF DayEnd

\* A variant begins and ends within the opening hours of its day.
Fits(v, p) ==
    /\ v.poi = p /\ v.day \in Days /\ v.opens \in Int /\ v.latest \in Int
    /\ v.opens <= v.latest
    /\ NoHours(p) \/ \E w \in Poi(p).windows[v.day] :
                       /\ w \in Int \X Int
                       /\ w[1] <= v.opens /\ v.latest + Duration(p) <= w[2]

\* Cutting an interval at weather and best times leaves segments within it.
LEMMA SegmentBounds ==
    ASSUME WellFormed(request), NEW p \in Pois, NEW d \in Days,
           NEW i \in Int \X Int, NEW s \in Segments(p, d, i)
    PROVE  /\ s \in Int \X Int
           /\ i[1] < i[2] => i[1] <= s[1] /\ s[2] <= i[2]
<1> DEFINE within(c) == {Max({i[1], c[1]}), Min({i[2], c[2]})}
           near == {x \in Cuts(p, d) : Overlap(x, i)}
           bounds == {i[1], i[2]} \cup UNION {within(c) : c \in near}
<1>1. Cuts(p, d) \subseteq Int \X Int
  BY DEF WellFormed, Cuts, Poi
<1>2. ASSUME NEW c \in near, NEW b \in within(c)
      PROVE  b \in Int /\ (i[1] < i[2] => i[1] <= b /\ b <= i[2])
  <2>1. c[1] \in Int /\ c[2] \in Int /\ i[1] \in Int /\ i[2] \in Int
    BY <1>1
  <2>2. c[1] < i[2] /\ i[1] < c[2]
    BY DEF Overlap
  <2>3. /\ Max({i[1], c[1]}) = IF i[1] >= c[1] THEN i[1] ELSE c[1]
        /\ Min({i[2], c[2]}) = IF i[2] <= c[2] THEN i[2] ELSE c[2]
    BY <2>1, MaxOfTwo, MinOfTwo
  <2>4. QED  BY <1>2, <2>1, <2>2, <2>3
<1>3. ASSUME NEW b \in bounds
      PROVE  b \in Int /\ (i[1] < i[2] => i[1] <= b /\ b <= i[2])
  <2>1. CASE b \in {i[1], i[2]}
    BY <2>1
  <2>2. CASE \E c \in near : b \in within(c)
    BY <1>2, <2>2
  <2>3. QED  BY <2>1, <2>2
<1>4. s \in bounds \X bounds
  BY DEF Segments
<1> HIDE DEF bounds
<1>5. QED  BY <1>3, <1>4

\* What expand_variants makes of a POI is within the hours of the POI and of the day.
LEMMA VariantFits ==
    ASSUME WellFormed(request), NEW p \in Pois, NEW v \in Variants(p)
    PROVE  Fits(v, p)
<1>1. PICK d \in Days : \E i \in BaseIntervals(p, d) : \E s \in Segments(p, d, i) :
          v = Variant(p, d, s) /\ v.opens <= v.latest
  BY DEF Variants
<1>0. PICK i \in BaseIntervals(p, d) : \E s \in Segments(p, d, i) :
          v = Variant(p, d, s) /\ v.opens <= v.latest
  BY <1>1
<1>10. PICK s \in Segments(p, d, i) : v = Variant(p, d, s) /\ v.opens <= v.latest
  BY <1>0
<1> DEFINE opens == Day(d).start + (IF Pace = "packed" THEN Minutes(30) ELSE 0)
<1>2. opens \in Int /\ DayEnd(d) \in Int
  BY DeadlineType DEF Minutes
<1> HIDE DEF opens
<1>3. /\ i \in Int \X Int
      /\ ~NoHours(p) => \E w \in Poi(p).windows[d] :
            w \in Int \X Int /\ i[1] < i[2] /\ w[1] <= i[1] /\ i[2] <= w[2]
  <2>1. CASE NoHours(p)
    <3>1. i = <<opens, DayEnd(d)>>
      BY <2>1 DEF BaseIntervals, opens
    <3>2. QED  BY <1>2, <2>1, <3>1
  <2>2. CASE ~NoHours(p)
    <3>1. PICK w \in Poi(p).windows[d] :
              i = <<Max({opens, w[1]}), Min({DayEnd(d), w[2]})>> /\ i[2] > i[1]
      BY <2>2 DEF BaseIntervals, opens
    <3>2. w \in Int \X Int
      BY DEF WellFormed, Poi
    <3>3. w[1] \in Int /\ w[2] \in Int
      BY <3>2
    <3>4. /\ Max({opens, w[1]}) = IF opens >= w[1] THEN opens ELSE w[1]
          /\ Min({DayEnd(d), w[2]}) = IF DayEnd(d) <= w[2] THEN DayEnd(d) ELSE w[2]
      BY <1>2, <3>3, MaxOfTwo, MinOfTwo
    <3>5. i \in Int \X Int /\ w[1] <= i[1] /\ i[2] <= w[2]
      BY <1>2, <3>1, <3>3, <3>4
    <3>6. QED  BY <3>1, <3>2, <3>5
  <2>3. QED  BY <2>1, <2>2
<1>4. s \in Int \X Int /\ (i[1] < i[2] => i[1] <= s[1] /\ s[2] <= i[2])
  BY <1>3, SegmentBounds
<1>5. Duration(p) \in Nat
  BY DurationType
<1>6. v.poi = p /\ v.day = d /\ v.opens = s[1] /\ v.latest = s[2] - Duration(p)
  BY <1>10 DEF Variant
<1>7. v.opens \in Int /\ v.latest \in Int /\ v.opens <= v.latest /\ v.latest + Duration(p) = s[2]
  BY <1>10, <1>4, <1>5, <1>6
<1>8. ~NoHours(p) => \E w \in Poi(p).windows[d] :
          w \in Int \X Int /\ w[1] <= v.opens /\ v.latest + Duration(p) <= w[2]
  <2> SUFFICES ASSUME ~NoHours(p)
               PROVE  \E w \in Poi(p).windows[d] :
                        w \in Int \X Int /\ w[1] <= v.opens /\ v.latest + Duration(p) <= w[2]
    OBVIOUS
  <2>1. PICK w \in Poi(p).windows[d] :
            w \in Int \X Int /\ i[1] < i[2] /\ w[1] <= i[1] /\ i[2] <= w[2]
    BY <1>3
  <2>2. w[1] \in Int /\ w[2] \in Int /\ i[1] \in Int /\ i[2] \in Int /\ s[1] \in Int /\ s[2] \in Int
    BY <1>3, <1>4, <2>1
  <2>3. w[1] <= v.opens /\ v.latest + Duration(p) <= w[2]
    BY <1>4, <1>6, <1>7, <2>1, <2>2
  <2>4. QED  BY <2>1, <2>3
<1>9. QED  BY <1>6, <1>7, <1>8 DEF Fits

-----------------------------------------------------------------------------
(* Walking a route. *)

\* What holds of 0 and carries over from each number below n to the next.
LEMMA UpTo ==
    ASSUME NEW n \in Nat, NEW S, 0 \in S, \A k \in 1 .. n : k - 1 \in S => k \in S
    PROVE  \A k \in 0 .. n : k \in S
<1> DEFINE Good == {m \in Nat : m <= n => m \in S}
<1>1. 0 \in Good
  OBVIOUS
<1>2. ASSUME NEW m \in Good PROVE m + 1 \in Good
  <2>1. m \in Nat /\ (m <= n => m \in S)
    OBVIOUS
  <2>2. m + 1 <= n => m + 1 \in S
    <3> SUFFICES ASSUME m + 1 <= n PROVE m + 1 \in S
      OBVIOUS
    <3>1. m + 1 \in 1 .. n /\ (m + 1) - 1 = m /\ m <= n
      BY <2>1
    <3>2. QED  BY <2>1, <3>1
  <2>3. QED  BY <2>1, <2>2
<1>3. Good \subseteq Nat
  OBVIOUS
<1>4. Good = Nat
  <2> HIDE DEF Good
  <2>1. QED  BY <1>1, <1>2, <1>3, SetInduction
<1>5. QED  BY <1>4

AllVariants == UNION {variants[p] : p \in Pois}

Usable(v) == v.poi \in Pois /\ Fits(v, v.poi)

\* A route of day d.
RouteOf(d, route) ==
    /\ route \in Seq(AllVariants)
    /\ \A i \in 1 .. Len(route) : Usable(route[i]) /\ route[i].day = d

LEMMA VariantType == ASSUME NEW v, Usable(v) PROVE v.poi \in Pois /\ Fits(v, v.poi)
BY DEF Usable

\* A walk between two stops.
Walking(here) ==
    /\ here.ok \in BOOLEAN /\ here.now \in Int /\ here.node \in Places
    /\ here.walked \in Nat

\* When the next stop is reached.
Reached(here, v) == Max({here.now + Leg(here.node, v.poi).time, v.opens})

\* The next stop of a walk is reached after the way to it and not before it opens.
LEMMA VisitType ==
    ASSUME WellFormed(request), NEW here, Walking(here), NEW v, Usable(v)
    PROVE  /\ Walking(Visit(here, v))
           /\ Reached(here, v) \in Int
           /\ Reached(here, v) >= v.opens
           /\ Reached(here, v) >= here.now + Leg(here.node, v.poi).time
           /\ Visit(here, v).ok => here.ok /\ Reached(here, v) <= v.latest
           /\ Visit(here, v).now = Reached(here, v) + Duration(v.poi)
           /\ Visit(here, v).node = v.poi
           /\ Visit(here, v).walked = here.walked + Walked(Leg(here.node, v.poi))
           /\ Visit(here, v).stops =
                Append(here.stops, Stop(v.poi, Reached(here, v), Reached(here, v) + Duration(v.poi)))
<1> DEFINE leg == Leg(here.node, v.poi)
           arrive == Max({here.now + leg.time, v.opens})
<1>1. v.poi \in Pois /\ v.opens \in Int /\ v.latest \in Int
  BY VariantType DEF Fits
<1>2. here.ok \in BOOLEAN /\ here.now \in Int /\ here.node \in Places /\ here.walked \in Nat
  BY DEF Walking
<1>3. v.poi \in Goals
  BY <1>1 DEF Goals, Places
<1>4. leg.time \in Nat /\ Walked(leg) \in Nat
  BY <1>2, <1>3, LegType
<1>5. Duration(v.poi) \in Nat
  BY <1>1, DurationType
<1>6. Visit(here, v) =
         [ok |-> here.ok /\ arrive <= v.latest, now |-> arrive + Duration(v.poi), node |-> v.poi,
          walked |-> here.walked + Walked(leg), travel |-> here.travel + leg.time,
          wait |-> here.wait + (arrive - v.opens),
          stops |-> Append(here.stops, Stop(v.poi, arrive, arrive + Duration(v.poi)))]
  BY DEF Visit
<1>7. Reached(here, v) = arrive
  BY DEF Reached
<1> DEFINE t == here.now + leg.time
<1>8. t \in Int
  BY <1>2, <1>4
<1> HIDE DEF t
<1>9. Max({t, v.opens}) = IF t >= v.opens THEN t ELSE v.opens
  BY <1>1, <1>8, MaxOfTwo
<1>10. arrive \in Int /\ arrive >= v.opens /\ arrive >= t
  <2>1. arrive = Max({t, v.opens})
    BY DEF t
  <2> HIDE DEF arrive
  <2>2. QED  BY <1>1, <1>8, <1>9, <2>1
<1>11. arrive >= here.now + leg.time
  BY <1>10 DEF t
<1> HIDE DEF arrive, leg
<1> DEFINE next == Visit(here, v)
<1>12. /\ next.ok = (here.ok /\ arrive <= v.latest) /\ next.now = arrive + Duration(v.poi)
       /\ next.node = v.poi /\ next.walked = here.walked + Walked(leg)
       /\ next.stops = Append(here.stops, Stop(v.poi, arrive, arrive + Duration(v.poi)))
  BY <1>6
<1> HIDE DEF next
<1>13. Walking(next)
  BY <1>1, <1>2, <1>4, <1>5, <1>10, <1>12 DEF Walking, Places
<1>14. QED  BY <1>7, <1>10, <1>11, <1>12, <1>13 DEF next, leg

LEMMA WalkType ==
    ASSUME WellFormed(request), NEW d \in Days, NEW route, RouteOf(d, route)
    PROVE  \A k \in 0 .. Len(route) : Walking(Walks(d, route)[k])
<1> DEFINE Good == {i \in 0 .. Len(route) : Walking(Walks(d, route)[i])}
<1>0. Len(route) \in Nat
  BY DEF RouteOf
<1>1. 0 \in Good
  <2>1. Walks(d, route)[0] = Off(d)
    BY <1>0, WalkSteps
  <2>2. Day(d).start \in Int
    BY DeadlineType
  <2>3. Walking(Off(d))
    BY <2>2 DEF Walking, Off, Places
  <2>4. QED  BY <1>0, <2>1, <2>3
<1>2. ASSUME NEW i \in 1 .. Len(route), i - 1 \in Good PROVE i \in Good
  <2>1. Walks(d, route)[i] = Visit(Walks(d, route)[i - 1], route[i])
    BY <1>0, WalkSteps
  <2>2. Usable(route[i])
    BY <1>0 DEF RouteOf
  <2>3. Walking(Visit(Walks(d, route)[i - 1], route[i]))
    BY <1>2, <2>2, VisitType
  <2>4. QED  BY <1>0, <2>1, <2>3
<1>3. \A k \in 0 .. Len(route) : k \in Good
  <2> HIDE DEF Good
  <2>1. QED  BY <1>0, <1>1, <1>2, UpTo
<1>4. QED  BY <1>3

-----------------------------------------------------------------------------
(* A walk is a day the independent check passes. *)

Stops == [poi : Pois, arrive : Int, depart : Int]

NodeAfter(stops, k) == IF k = 0 THEN Hotel ELSE stops[k].poi
FreeAfter(d, stops, k) == IF k = 0 THEN Day(d).start ELSE stops[k].depart

\* A visit as the independent check wants it.
Proper(d, stop) ==
    /\ stop.depart > stop.arrive
    /\ stop.depart - stop.arrive >= Minutes(Poi(stop.poi).duration)
    /\ NoHours(stop.poi) \/ \E w \in Poi(stop.poi).windows[d] :
                               w[1] <= stop.arrive /\ stop.depart <= w[2]

\* Visits one after the other, each after the way to it; far is what is walked.
Timely(d, stops, far) ==
    /\ stops \in Seq(Stops)
    /\ far \in [0 .. Len(stops) -> Nat] /\ far[0] = 0
    /\ \A k \in 1 .. Len(stops) :
         /\ Proper(d, stops[k])
         /\ stops[k].arrive >= FreeAfter(d, stops, k - 1)
                               + Leg(NodeAfter(stops, k - 1), stops[k].poi).time
         /\ far[k] = far[k - 1] + Walked(Leg(NodeAfter(stops, k - 1), stops[k].poi))

\* The stop a walk makes at v.
Made(here, v) == Stop(v.poi, Reached(here, v), Reached(here, v) + Duration(v.poi))

\* A walk's visits are what was made of the stops of the route, in their order.
LEMMA WalkStops ==
    ASSUME WellFormed(request), NEW d \in Days, NEW route, RouteOf(d, route)
    PROVE  \A k \in 0 .. Len(route) :
              Walks(d, route)[k].stops = [i \in 1 .. k |-> Made(Walks(d, route)[i - 1], route[i])]
<1> DEFINE made(i) == Made(Walks(d, route)[i - 1], route[i])
           first(k) == [i \in 1 .. k |-> made(i)]
           Good == {k \in 0 .. Len(route) : Walks(d, route)[k].stops = first(k)}
<1>0. Len(route) \in Nat
  BY DEF RouteOf
<1>1. 0 \in Good
  <2>1. Walks(d, route)[0] = Off(d)
    BY <1>0, WalkSteps
  <2>2. Off(d).stops = <<>>
    BY DEF Off
  <2>3. first(0) = <<>>
    OBVIOUS
  <2>4. QED  BY <1>0, <2>1, <2>2, <2>3
<1>2. ASSUME NEW k \in 1 .. Len(route), k - 1 \in Good PROVE k \in Good
  <2>1. Walks(d, route)[k] = Visit(Walks(d, route)[k - 1], route[k])
    BY <1>0, WalkSteps
  <2>2. Usable(route[k])
    BY <1>0 DEF RouteOf
  <2>3. k - 1 \in 0 .. Len(route)
    BY <1>0
  <2>4. Walking(Walks(d, route)[k - 1])
    BY <2>3, WalkType
  <2>5. Walks(d, route)[k].stops = Append(Walks(d, route)[k - 1].stops, made(k))
    <3>1. Visit(Walks(d, route)[k - 1], route[k]).stops =
            Append(Walks(d, route)[k - 1].stops,
                   Stop(route[k].poi, Reached(Walks(d, route)[k - 1], route[k]),
                        Reached(Walks(d, route)[k - 1], route[k]) + Duration(route[k].poi)))
      BY <2>2, <2>4, VisitType
    <3>2. QED  BY <2>1, <3>1 DEF Made
  <2>6. Walks(d, route)[k - 1].stops = first(k - 1)
    BY <1>2
  <2> HIDE DEF made
  <2>7. Append(first(k - 1), made(k)) = first(k)
    <3> DEFINE m == k - 1
    <3>1. m \in Nat /\ k = m + 1
      BY <1>0
    <3> HIDE DEF m
    <3> DEFINE S == {made(i) : i \in 1 .. m + 1}
    <3>9. \A i \in 1 .. m + 1 : made(i) \in S
      OBVIOUS
    <3> HIDE DEF S
    <3>2. first(m) \in Seq(S) /\ Len(first(m)) = m /\ made(m + 1) \in S
      BY <3>1, <3>9
    <3>3. first(m + 1) \in Seq(S) /\ Len(first(m + 1)) = m + 1
      BY <3>1, <3>9
    <3>4. /\ Append(first(m), made(m + 1)) \in Seq(S)
          /\ Len(Append(first(m), made(m + 1))) = m + 1
          /\ \A i \in 1 .. m : Append(first(m), made(m + 1))[i] = made(i)
          /\ Append(first(m), made(m + 1))[m + 1] = made(m + 1)
      <4> HIDE DEF S
      <4>1. \A i \in 1 .. m : first(m)[i] = made(i)
        OBVIOUS
      <4> HIDE DEF first
      <4>2. QED  BY <3>1, <3>2, <4>1, AppendProperties
    <3>5. \A i \in 1 .. m + 1 : Append(first(m), made(m + 1))[i] = first(m + 1)[i]
      <4> SUFFICES ASSUME NEW i \in 1 .. m + 1
                   PROVE  Append(first(m), made(m + 1))[i] = made(i)
        OBVIOUS
      <4> HIDE DEF first, S
      <4>1. i \in 1 .. m \/ i = m + 1
        BY <3>1
      <4>2. QED  BY <3>4, <4>1
    <3> HIDE DEF first, S
    <3>6. Append(first(m), made(m + 1)) = first(m + 1)
      BY <3>1, <3>3, <3>4, <3>5, SeqEqual
    <3>7. QED  BY <3>1, <3>6 DEF m
  <2>8. QED  BY <2>5, <2>6, <2>7
<1>3. \A k \in 0 .. Len(route) : k \in Good
  <2> HIDE DEF Good
  <2>1. QED  BY <1>0, <1>1, <1>2, UpTo
<1>4. QED  BY <1>3

\* A walk that goes well has gone well at every stop.
LEMMA WalkOk ==
    ASSUME WellFormed(request), NEW d \in Days, NEW route, RouteOf(d, route),
           Walk(d, route).ok
    PROVE  \A k \in 0 .. Len(route) : Walks(d, route)[k].ok
<1> DEFINE W == Walks(d, route)
           Good == {k \in 0 .. Len(route) : W[k].ok => \A i \in 0 .. k : W[i].ok}
<1>0. Len(route) \in Nat
  BY DEF RouteOf
<1>1. 0 \in Good
  BY <1>0
<1>2. ASSUME NEW k \in 1 .. Len(route), k - 1 \in Good PROVE k \in Good
  <2>1. W[k] = Visit(W[k - 1], route[k])
    BY <1>0, WalkSteps
  <2>2. Usable(route[k])
    BY <1>0 DEF RouteOf
  <2>3. k - 1 \in 0 .. Len(route)
    BY <1>0
  <2>4. Walking(W[k - 1])
    BY <2>3, WalkType
  <2>5. W[k].ok => W[k - 1].ok
    BY <2>1, <2>2, <2>4, VisitType
  <2>6. \A i \in 0 .. k : i = k \/ i \in 0 .. k - 1
    BY <1>0
  <2> HIDE DEF W
  <2>7. QED  BY <1>2, <2>5, <2>6
<1>3. \A k \in 0 .. Len(route) : k \in Good
  <2> HIDE DEF Good
  <2>1. QED  BY <1>0, <1>1, <1>2, UpTo
<1>4. Len(route) \in Good
  BY <1>0, <1>3
<1>5. QED  BY <1>0, <1>4 DEF Walk

\* The walk of a route is a day the check has nothing against, but for the way home.
LEMMA WalkIsTimely ==
    ASSUME WellFormed(request), NEW d \in Days, NEW route, RouteOf(d, route),
           Walk(d, route).ok
    PROVE  LET stops == Walk(d, route).stops IN
           /\ Timely(d, stops, [k \in 0 .. Len(route) |-> Walks(d, route)[k].walked])
           /\ Len(stops) = Len(route)
           /\ \A k \in 1 .. Len(route) : stops[k].poi = route[k].poi
           /\ NodeAfter(stops, Len(route)) = Walk(d, route).node
           /\ FreeAfter(d, stops, Len(route)) = Walk(d, route).now
<1> DEFINE n == Len(route)
           W == Walks(d, route)
           stops == Walk(d, route).stops
           far == [k \in 0 .. n |-> W[k].walked]
<1>1. n \in Nat
  BY DEF RouteOf
<1>2. \A k \in 0 .. n : Walking(W[k]) /\ W[k].ok
  BY WalkType, WalkOk
<1>3. stops = [i \in 1 .. n |-> Made(W[i - 1], route[i])]
  <2>1. n \in 0 .. n
    BY <1>1
  <2>2. QED  BY <2>1, WalkStops DEF Walk
<1>4. W[0] = Off(d)
  BY <1>1, WalkSteps
<1>5. ASSUME NEW k \in 1 .. n
      PROVE  /\ Usable(route[k]) /\ route[k].day = d
             /\ W[k] = Visit(W[k - 1], route[k])
             /\ Walking(W[k - 1]) /\ W[k].ok
             /\ stops[k] = Made(W[k - 1], route[k])
  <2>1. k \in 0 .. n /\ k - 1 \in 0 .. n
    BY <1>1
  <2>2. Usable(route[k]) /\ route[k].day = d
    BY DEF RouteOf
  <2>3. W[k] = Visit(W[k - 1], route[k])
    BY <1>1, WalkSteps
  <2>4. QED  BY <1>2, <1>3, <2>1, <2>2, <2>3
<1> HIDE DEF W, n, stops
<1>6. ASSUME NEW k \in 1 .. n
      PROVE  /\ stops[k].poi = route[k].poi /\ route[k].poi \in Pois
             /\ stops[k].arrive = Reached(W[k - 1], route[k])
             /\ stops[k].depart = Reached(W[k - 1], route[k]) + Duration(route[k].poi)
             /\ stops[k] \in Stops
  <2>1. route[k].poi \in Pois
    BY <1>5, VariantType
  <2>2. Reached(W[k - 1], route[k]) \in Int
    BY <1>5, VisitType
  <2>3. Duration(route[k].poi) \in Nat
    BY <2>1, DurationType
  <2>4. stops[k] = Stop(route[k].poi, Reached(W[k - 1], route[k]),
                        Reached(W[k - 1], route[k]) + Duration(route[k].poi))
    BY <1>5 DEF Made
  <2>5. QED  BY <2>1, <2>2, <2>3, <2>4 DEF Stop, Stops
<1>7. stops \in Seq(Stops) /\ Len(stops) = n
  BY <1>1, <1>3, <1>6
<1>8. ASSUME NEW k \in 0 .. n
      PROVE  NodeAfter(stops, k) = W[k].node /\ FreeAfter(d, stops, k) = W[k].now
  <2>1. CASE k = 0
    BY <1>4, <2>1 DEF NodeAfter, FreeAfter, Off
  <2>2. CASE k # 0
    <3>1. k \in 1 .. n
      BY <1>1, <2>2
    <3>2. W[k] = Visit(W[k - 1], route[k])
      BY <1>5, <3>1
    <3>3. W[k].node = route[k].poi /\ W[k].now = Reached(W[k - 1], route[k]) + Duration(route[k].poi)
      BY <1>5, <3>1, <3>2, VisitType
    <3>4. QED  BY <1>6, <2>2, <3>1, <3>3 DEF NodeAfter, FreeAfter
  <2>3. QED  BY <2>1, <2>2
<1>9. far \in [0 .. n -> Nat] /\ far[0] = 0
  <2>1. \A k \in 0 .. n : W[k].walked \in Nat
    BY <1>2 DEF Walking
  <2>2. W[0].walked = 0
    BY <1>4 DEF Off
  <2>3. QED  BY <1>1, <2>1, <2>2
<1>10. ASSUME NEW k \in 1 .. n
       PROVE  /\ Proper(d, stops[k])
              /\ stops[k].arrive >= FreeAfter(d, stops, k - 1)
                                    + Leg(NodeAfter(stops, k - 1), stops[k].poi).time
              /\ far[k] = far[k - 1] + Walked(Leg(NodeAfter(stops, k - 1), stops[k].poi))
  <2> DEFINE here == W[k - 1]
             v == route[k]
             reached == Reached(here, v)
  <2>1. k - 1 \in 0 .. n /\ k \in 0 .. n
    BY <1>1
  <2>2. Usable(v) /\ v.day = d /\ Walking(here) /\ W[k] = Visit(here, v) /\ W[k].ok
    BY <1>5
  <2>3. NodeAfter(stops, k - 1) = here.node /\ FreeAfter(d, stops, k - 1) = here.now
    BY <1>8, <2>1
  <2>4. /\ stops[k].poi = v.poi /\ v.poi \in Pois /\ stops[k].arrive = reached
        /\ stops[k].depart = reached + Duration(v.poi)
    BY <1>6
  <2>5. /\ reached \in Int /\ reached >= v.opens /\ reached <= v.latest
        /\ reached >= here.now + Leg(here.node, v.poi).time
        /\ W[k].walked = here.walked + Walked(Leg(here.node, v.poi))
    BY <2>2, VisitType
  <2>6. far[k] = far[k - 1] + Walked(Leg(NodeAfter(stops, k - 1), stops[k].poi))
    BY <2>1, <2>3, <2>4, <2>5
  <2>7. Fits(v, v.poi)
    BY <2>2, VariantType
  <2>8. /\ Duration(v.poi) \in Nat /\ Duration(v.poi) > 0
        /\ Minutes(Poi(v.poi).duration) \in Nat /\ Duration(v.poi) >= Minutes(Poi(v.poi).duration)
    BY <2>4, DurationType
  <2> HIDE DEF here, v, reached
  <2>9. stops[k].depart > stops[k].arrive /\ stops[k].depart - stops[k].arrive >= Minutes(Poi(v.poi).duration)
    BY <2>4, <2>5, <2>8
  <2>10. NoHours(v.poi) \/ \E w \in Poi(v.poi).windows[d] :
                               w[1] <= stops[k].arrive /\ stops[k].depart <= w[2]
    <3> SUFFICES ASSUME ~NoHours(v.poi)
                 PROVE  \E w \in Poi(v.poi).windows[d] :
                               w[1] <= stops[k].arrive /\ stops[k].depart <= w[2]
      OBVIOUS
    <3>1. PICK w \in Poi(v.poi).windows[d] :
              w \in Int \X Int /\ w[1] <= v.opens /\ v.latest + Duration(v.poi) <= w[2]
      BY <2>2, <2>7 DEF Fits
    <3>2. v.opens \in Int /\ v.latest \in Int /\ w[1] \in Int /\ w[2] \in Int
      BY <2>7, <3>1 DEF Fits
    <3>3. w[1] <= stops[k].arrive /\ stops[k].depart <= w[2]
      BY <2>4, <2>5, <2>8, <3>1, <3>2
    <3>4. QED  BY <3>3
  <2>11. Proper(d, stops[k])
    BY <2>4, <2>9, <2>10 DEF Proper
  <2>12. QED  BY <2>3, <2>4, <2>5, <2>6, <2>11
<1>11. Timely(d, stops, far)
  <2> HIDE DEF far
  <2>1. QED  BY <1>7, <1>9, <1>10 DEF Timely
<1>12. n \in 0 .. n
  BY <1>1
<1>13. Walk(d, route) = W[n]
  BY DEF Walk, W, n
<1>14. /\ NodeAfter(stops, n) = Walk(d, route).node
       /\ FreeAfter(d, stops, n) = Walk(d, route).now
  BY <1>8, <1>12, <1>13
<1>15. \A k \in 1 .. n : stops[k].poi = route[k].poi
  BY <1>6
<1>16. QED  BY <1>7, <1>11, <1>14, <1>15 DEF stops, far, n, W

\* What the check knows after k visits it has nothing against.
Clean(d, stops, far, k) ==
    [depart |-> FreeAfter(d, stops, k), node |-> NodeAfter(stops, k), walked |-> far[k], issues |-> {}]

\* The check tells visits from meals.
LEMMA PoiIsNoMeal == ASSUME NEW p \in Pois PROVE p # Meal
BY SolverAssumption DEF Meal

\* What the check says of one visit.
LEMMA VisitChecked ==
    ASSUME WellFormed(request), NEW d, NEW before, NEW stop \in Stops, Proper(d, stop)
    PROVE  /\ CheckStop(d, before, stop).depart = stop.depart
           /\ CheckStop(d, before, stop).node = stop.poi
           /\ CheckStop(d, before, stop).walked = before.walked + Walked(Leg(before.node, stop.poi))
           /\ CheckStop(d, before, stop).issues =
                before.issues \cup When(stop.arrive < before.depart, "overlap")
                  \cup When(stop.arrive < before.depart + Leg(before.node, stop.poi).time, "travel_overlap")
<1>1. stop.poi \in Pois /\ stop.poi # Meal
  BY PoiIsNoMeal DEF Stops
<1> DEFINE short == When(stop.depart - stop.arrive < Minutes(Poi(stop.poi).duration), "short_visit")
           outside == When(/\ ~NoHours(stop.poi)
                           /\ ~\E w \in Poi(stop.poi).windows[d] :
                                  w[1] <= stop.arrive /\ stop.depart <= w[2], "outside_hours")
<1>2. short = {}
  <2>1. ~(stop.depart - stop.arrive < Minutes(Poi(stop.poi).duration))
    <3>1. Minutes(Poi(stop.poi).duration) <= stop.depart - stop.arrive
      BY DEF Proper
    <3>2. Minutes(Poi(stop.poi).duration) \in Int
      BY <1>1 DEF WellFormed, Poi, Minutes
    <3>3. stop.depart - stop.arrive \in Int
      BY DEF Stops
    <3> DEFINE lasts == Minutes(Poi(stop.poi).duration)
               stays == stop.depart - stop.arrive
    <3> HIDE DEF lasts, stays
    <3>4. lasts \in Int /\ stays \in Int /\ lasts <= stays
      BY <3>1, <3>2, <3>3 DEF lasts, stays
    <3>5. ~(stays < lasts)
      BY <3>4
    <3>6. QED  BY <3>5 DEF lasts, stays
  <2>2. QED  BY <2>1 DEF When
<1>3. outside = {}
  BY DEF When, Proper
<1>4. CheckStop(d, before, stop) =
        [depart |-> stop.depart, node |-> stop.poi,
         walked |-> before.walked + Walked(Leg(before.node, stop.poi)),
         issues |-> before.issues \cup When(stop.arrive < before.depart, "overlap")
                      \cup short \cup outside
                      \cup When(stop.arrive < before.depart + Leg(before.node, stop.poi).time, "travel_overlap")]
  BY <1>1 DEF CheckStop
<1> HIDE DEF short, outside
<1>5. QED  BY <1>2, <1>3, <1>4

\* The check has nothing against the visits of a walk that gets home.
LEMMA VisitsChecked ==
    ASSUME NEW d, NEW stops, NEW far, Timely(d, stops, far), WellFormed(request), d \in Days
    PROVE  \A k \in 0 .. Len(stops) : Checks(d, stops)[k] = Clean(d, stops, far, k)
<1> DEFINE C == Checks(d, stops)
           Good == {k \in 0 .. Len(stops) : C[k] = Clean(d, stops, far, k)}
<1>0. stops \in Seq(Stops) /\ Len(stops) \in Nat
  BY DEF Timely
<1>1. 0 \in Good
  <2>1. C[0] = Unchecked(d)
    BY <1>0, CheckSteps
  <2>2. far[0] = 0
    BY DEF Timely
  <2>3. Unchecked(d) = Clean(d, stops, far, 0)
    BY <2>2 DEF Unchecked, Clean, FreeAfter, NodeAfter
  <2>4. QED  BY <1>0, <2>1, <2>3
<1>2. ASSUME NEW k \in 1 .. Len(stops), k - 1 \in Good PROVE k \in Good
  <2> DEFINE free == FreeAfter(d, stops, k - 1)
             node == NodeAfter(stops, k - 1)
  <2>1. C[k] = CheckStop(d, C[k - 1], stops[k])
    BY <1>0, CheckSteps
  <2>2. C[k - 1] = Clean(d, stops, far, k - 1)
    BY <1>2
  <2>3. /\ C[k - 1].depart = free /\ C[k - 1].node = node /\ C[k - 1].walked = far[k - 1]
        /\ C[k - 1].issues = {}
    BY <2>2 DEF Clean
  <2>4. stops[k] \in Stops
    BY <1>0
  <2>5. /\ Proper(d, stops[k]) /\ stops[k].arrive >= free + Leg(node, stops[k].poi).time
        /\ far[k] = far[k - 1] + Walked(Leg(node, stops[k].poi))
    BY DEF Timely
  <2>6. free \in Int /\ node \in Places
    <3>1. CASE k - 1 = 0
      <4>1. Day(d).start \in Int
        BY DeadlineType
      <4>2. QED  BY <3>1, <4>1 DEF FreeAfter, NodeAfter, Places
    <3>2. CASE k - 1 # 0
      <4>1. stops[k - 1] \in Stops
        BY <1>0, <3>2
      <4>2. QED  BY <3>2, <4>1 DEF FreeAfter, NodeAfter, Places, Stops
    <3>3. QED  BY <3>1, <3>2
  <2>7. Leg(node, stops[k].poi).time \in Nat /\ stops[k].arrive \in Int
    <3>1. stops[k].poi \in Goals /\ stops[k].arrive \in Int
      BY <2>4 DEF Goals, Places, Stops
    <3>2. QED  BY <2>6, <3>1, LegType
  <2> HIDE DEF C, free, node
  <2>8. ~(stops[k].arrive < free) /\ ~(stops[k].arrive < free + Leg(node, stops[k].poi).time)
    BY <2>5, <2>6, <2>7
  <2>9. When(stops[k].arrive < free, "overlap") = {}
        /\ When(stops[k].arrive < free + Leg(node, stops[k].poi).time, "travel_overlap") = {}
    BY <2>8 DEF When
  <2> DEFINE next == CheckStop(d, C[k - 1], stops[k])
  <2>10. next = [depart |-> next.depart, node |-> next.node, walked |-> next.walked, issues |-> next.issues]
    <3>1. stops[k].poi # Meal
      BY <2>4, PoiIsNoMeal DEF Stops
    <3>2. QED  BY <3>1 DEF CheckStop
  <2>11. /\ next.depart = stops[k].depart /\ next.node = stops[k].poi
         /\ next.walked = far[k] /\ next.issues = {}
    BY <2>3, <2>4, <2>5, <2>9, VisitChecked
  <2>12. C[k] = [depart |-> stops[k].depart, node |-> stops[k].poi, walked |-> far[k], issues |-> {}]
    BY <2>1, <2>10, <2>11
  <2>13. FreeAfter(d, stops, k) = stops[k].depart /\ NodeAfter(stops, k) = stops[k].poi
    BY <1>0 DEF FreeAfter, NodeAfter
  <2>14. C[k] = Clean(d, stops, far, k)
    BY <2>12, <2>13 DEF Clean
  <2>15. QED  BY <1>0, <2>14
<1>3. \A k \in 0 .. Len(stops) : k \in Good
  <2> HIDE DEF Good
  <2>1. QED  BY <1>0, <1>1, <1>2, UpTo
<1>4. QED  BY <1>3

\* A day that gets home from where it is after the last stop, in time and on its budget.
Returns(d, node, free, far) ==
    /\ InTime(d, free + Home(d, node).time)
    /\ InBudget(d, far + Walked(Home(d, node)))

\* A day of timely visits with a way home in time passes the check.
LEMMA VisitsPass ==
    ASSUME NEW d \in Days, NEW stops, NEW far, Timely(d, stops, far), WellFormed(request),
           Returns(d, NodeAfter(stops, Len(stops)), FreeAfter(d, stops, Len(stops)), far[Len(stops)])
    PROVE  CheckDay(d, stops) = {}
<1> DEFINE n == Len(stops)
           node == NodeAfter(stops, n)
           free == FreeAfter(d, stops, n)
           home == Home(d, node)
<1>1. stops \in Seq(Stops) /\ n \in Nat /\ far \in [0 .. n -> Nat]
  BY DEF Timely
<1>2. Checks(d, stops)[n] = Clean(d, stops, far, n)
  BY <1>1, VisitsChecked
<1>3. free \in Int /\ node \in Places /\ far[n] \in Nat
  <2>1. CASE n = 0
    <3>1. Day(d).start \in Int
      BY DeadlineType
    <3>2. QED  BY <1>1, <2>1, <3>1 DEF FreeAfter, NodeAfter, Places
  <2>2. CASE n # 0
    <3>1. stops[n] \in Stops
      BY <1>1, <2>2
    <3>2. QED  BY <1>1, <2>2, <3>1 DEF FreeAfter, NodeAfter, Places, Stops
  <2>3. QED  BY <2>1, <2>2
<1>4. home.time \in Nat /\ Walked(home) \in Nat
  BY <1>3, HomeType
<1>5. /\ Deadline(d) # None => Deadline(d) \in Int
      /\ Day(d).budget # None => Day(d).budget \in Int
  BY DeadlineType
<1>6. CheckDay(d, stops) =
        When(Deadline(d) # None /\ free + home.time > Deadline(d), "missed_deadline")
          \cup When(/\ Day(d).budget # None
                    /\ far[n] + Walked(home) > Day(d).budget + Metres(1), "walking_budget")
  <2>1. /\ Checks(d, stops)[n].depart = free /\ Checks(d, stops)[n].node = node
        /\ Checks(d, stops)[n].walked = far[n] /\ Checks(d, stops)[n].issues = {}
    BY <1>2 DEF Clean
  <2>2. QED  BY <2>1 DEF CheckDay
<1>7. InTime(d, free + home.time) /\ InBudget(d, far[n] + Walked(home))
  BY DEF Returns
<1> HIDE DEF free, home, node, n
<1>8. ~(Deadline(d) # None /\ free + home.time > Deadline(d))
  BY <1>3, <1>4, <1>5, <1>7 DEF InTime
<1>9. ~(Day(d).budget # None /\ far[n] + Walked(home) > Day(d).budget + Metres(1))
  BY <1>3, <1>4, <1>5, <1>7 DEF InBudget, Metres
<1>10. QED  BY <1>6, <1>8, <1>9 DEF When

-----------------------------------------------------------------------------
(* Sorting a day by place. *)

\* A stop of a day: a visit or a meal.
Spots == [poi : Nat, arrive : Int, depart : Int]

LEMMA SpotType ==
    ASSUME NEW s \in Spots
    PROVE  s.poi \in Int /\ s.arrive \in Int /\ s.depart \in Int
BY DEF Spots

\* The order of triples, written out.
LEMMA BeforeThree ==
    ASSUME NEW a \in Int, NEW b \in Int, NEW c \in Int, NEW x \in Int, NEW y \in Int, NEW z \in Int
    PROVE  Before(<<a, b, c>>, <<x, y, z>>) <=>
              a < x \/ (a = x /\ (b < y \/ (b = y /\ c < z)))
<1> DEFINE s == <<a, b, c>>
           t == <<x, y, z>>
           At2(k) == s[k] < t[k] /\ \A j \in 1 .. k - 1 : s[j] = t[j]
<1>1. DOMAIN s = {1, 2, 3}
  OBVIOUS
<1>2. Before(s, t) <=> At2(1) \/ At2(2) \/ At2(3)
  <2>1. Before(s, t) <=> \E k \in {1, 2, 3} : At2(k)
    BY <1>1 DEF Before
  <2> HIDE DEF At2
  <2>2. QED  BY <2>1
<1>3. s[1] = a /\ s[2] = b /\ s[3] = c /\ t[1] = x /\ t[2] = y /\ t[3] = z
  OBVIOUS
<1>4. 1 .. 1 - 1 = {} /\ 1 .. 2 - 1 = {1} /\ 1 .. 3 - 1 = {1, 2}
  OBVIOUS
<1> HIDE DEF s, t
<1>5. At2(1) <=> a < x
  BY <1>3, <1>4
<1>6. At2(2) <=> b < y /\ a = x
  BY <1>3, <1>4
<1>7. At2(3) <=> c < z /\ a = x /\ b = y
  BY <1>3, <1>4
<1> HIDE DEF At2
<1>8. QED  BY <1>2, <1>5, <1>6, <1>7 DEF s, t

\* What the sort compares: the beginning, then meals before visits, then where they stood.
LEMMA SoonerMeans ==
    ASSUME NEW stops \in Seq(Spots), NEW i \in 1 .. Len(stops), NEW j \in 1 .. Len(stops)
    PROVE  Sooner(stops, i, j) <=>
              \/ stops[i].arrive < stops[j].arrive
              \/ /\ stops[i].arrive = stops[j].arrive
                 /\ stops[i].poi < stops[j].poi \/ (stops[i].poi = stops[j].poi /\ i < j)
<1>1. stops[i] \in Spots /\ stops[j] \in Spots
  OBVIOUS
<1>2. /\ stops[i].arrive \in Int /\ stops[i].poi \in Int /\ i \in Int
      /\ stops[j].arrive \in Int /\ stops[j].poi \in Int /\ j \in Int
  BY <1>1, SpotType
<1> DEFINE a == stops[i].arrive
           b == stops[i].poi
           x == stops[j].arrive
           y == stops[j].poi
<1>3. Before(<<a, b, i>>, <<x, y, j>>) <=> a < x \/ (a = x /\ (b < y \/ (b = y /\ i < j)))
  <2> HIDE DEF a, b, x, y
  <2>1. a \in Int /\ b \in Int /\ i \in Int /\ x \in Int /\ y \in Int /\ j \in Int
    BY <1>2 DEF a, b, x, y
  <2>2. QED  BY <2>1, BeforeThree
<1>4. QED  BY <1>3 DEF Sooner

\* A total order of the stops.
LEMMA SoonerOrders ==
    ASSUME NEW stops \in Seq(Spots)
    PROVE  /\ \A i \in 1 .. Len(stops) : ~Sooner(stops, i, i)
           /\ \A i, j \in 1 .. Len(stops) : i # j => Sooner(stops, i, j) \/ Sooner(stops, j, i)
           /\ \A i, j, k \in 1 .. Len(stops) :
                 Sooner(stops, i, j) /\ Sooner(stops, j, k) => Sooner(stops, i, k)
<1> DEFINE n == Len(stops)
           soon(a, p, i, b, q, j) == a < b \/ (a = b /\ (p < q \/ (p = q /\ i < j)))
<1>1. \A i \in 1 .. n : stops[i].arrive \in Int /\ stops[i].poi \in Int /\ i \in Int
  <2> SUFFICES ASSUME NEW i \in 1 .. n PROVE stops[i].arrive \in Int /\ stops[i].poi \in Int /\ i \in Int
    OBVIOUS
  <2>1. stops[i] \in Spots
    OBVIOUS
  <2>2. QED  BY <2>1 DEF Spots
<1>2. \A i, j \in 1 .. n : Sooner(stops, i, j) <=>
         soon(stops[i].arrive, stops[i].poi, i, stops[j].arrive, stops[j].poi, j)
  BY SoonerMeans
<1> HIDE DEF n
<1>3. \A i \in 1 .. n : ~Sooner(stops, i, i)
  BY <1>1, <1>2
<1>4. \A i, j \in 1 .. n : i # j => Sooner(stops, i, j) \/ Sooner(stops, j, i)
  BY <1>1, <1>2
<1>5. ASSUME NEW i \in 1 .. n, NEW j \in 1 .. n, NEW k \in 1 .. n,
             Sooner(stops, i, j), Sooner(stops, j, k)
      PROVE  Sooner(stops, i, k)
  BY <1>1, <1>2, <1>5
<1>6. QED  BY <1>3, <1>4, <1>5 DEF n

\* Every stop has a place among the stops, and sooner ones an earlier place.
LEMMA PlaceType ==
    ASSUME NEW stops \in Seq(Spots)
    PROVE  /\ \A i \in 1 .. Len(stops) : Place(stops, i) \in 1 .. Len(stops)
           /\ \A i, j \in 1 .. Len(stops) :
                Sooner(stops, i, j) => Place(stops, i) < Place(stops, j)
<1> DEFINE n == Len(stops)
           sooner(i) == {j \in 1 .. n : Sooner(stops, j, i)}
<1>1. n \in Nat /\ DOMAIN stops = 1 .. n
  OBVIOUS
<1>2. IsFiniteSet(1 .. n) /\ Cardinality(1 .. n) = n
  BY <1>1, FS_Interval
<1>3. ASSUME NEW i \in 1 .. n
      PROVE  /\ Place(stops, i) = 1 + Cardinality(sooner(i))
             /\ IsFiniteSet(sooner(i)) /\ Cardinality(sooner(i)) \in Nat
             /\ Cardinality(sooner(i)) <= n - 1
  <2>1. Place(stops, i) = 1 + Cardinality(sooner(i))
    BY <1>1 DEF Place
  <2>2. IsFiniteSet((1 .. n) \ {i}) /\ Cardinality((1 .. n) \ {i}) = n - 1
    BY <1>2, FS_RemoveElement
  <2>3. sooner(i) \in SUBSET ((1 .. n) \ {i})
    BY SoonerOrders
  <2> HIDE DEF sooner
  <2>4. IsFiniteSet(sooner(i)) /\ Cardinality(sooner(i)) <= Cardinality((1 .. n) \ {i})
    BY <2>2, <2>3, FS_Subset
  <2>5. QED  BY <2>1, <2>2, <2>4, FS_CardinalityType
<1>4. ASSUME NEW i \in 1 .. n, NEW j \in 1 .. n, Sooner(stops, i, j)
      PROVE  Place(stops, i) < Place(stops, j)
  <2>1. sooner(i) \cup {i} \in SUBSET sooner(j)
    BY <1>4, SoonerOrders
  <2>2. i \notin sooner(i)
    BY SoonerOrders
  <2> HIDE DEF sooner
  <2>3. Cardinality(sooner(i) \cup {i}) = Cardinality(sooner(i)) + 1
    BY <1>3, <2>2, FS_AddElement
  <2>4. Cardinality(sooner(i) \cup {i}) <= Cardinality(sooner(j))
    BY <1>3, <2>1, FS_Subset
  <2>5. QED  BY <1>3, <2>3, <2>4
<1> HIDE DEF sooner
<1>5. \A i \in 1 .. n : Place(stops, i) \in 1 .. n
  BY <1>1, <1>3
<1>6. QED  BY <1>4, <1>5

\* Every stop has its place, and the stops ascend.
LEMMA SortedType ==
    ASSUME NEW stops \in Seq(Spots)
    PROVE  \E order \in [1 .. Len(stops) -> 1 .. Len(stops)] :
             /\ Sorted(stops) = [k \in 1 .. Len(stops) |-> stops[order[k]]]
             /\ \A i \in 1 .. Len(stops) : \E k \in 1 .. Len(stops) : order[k] = i
             /\ \A k, l \in 1 .. Len(stops) : k < l => Sooner(stops, order[k], order[l])
<1> DEFINE n == Len(stops)
           place == [i \in 1 .. n |-> Place(stops, i)]
           order == [k \in 1 .. n |-> The({i \in DOMAIN stops : Place(stops, i) = k})]
<1>1. n \in Nat /\ DOMAIN stops = 1 .. n
  OBVIOUS
<1>2. IsFiniteSet(1 .. n) /\ Cardinality(1 .. n) = n
  BY <1>1, FS_Interval
<1>3. place \in [1 .. n -> 1 .. n]
  BY PlaceType
<1>4. \A i, j \in 1 .. n : place[i] = place[j] => i = j
  <2> SUFFICES ASSUME NEW i \in 1 .. n, NEW j \in 1 .. n, i # j PROVE place[i] # place[j]
    OBVIOUS
  <2>1. place[i] < place[j] \/ place[j] < place[i]
    BY PlaceType, SoonerOrders
  <2>2. place[i] \in Int /\ place[j] \in Int
    BY <1>3
  <2> HIDE DEF place
  <2>3. QED  BY <2>1, <2>2
<1>5. place \in Surjection(1 .. n, 1 .. n)
  <2>1. place \in Injection(1 .. n, 1 .. n)
    BY <1>3, <1>4 DEF Injection, IsInjective
  <2> HIDE DEF place, n
  <2>2. QED  BY <1>2, <2>1, FS_Injection
<1>6. ASSUME NEW k \in 1 .. n
      PROVE  order[k] \in 1 .. n /\ place[order[k]] = k
  <2>1. PICK i \in 1 .. n : place[i] = k
    BY <1>5 DEF Surjection
  <2>2. {j \in DOMAIN stops : Place(stops, j) = k} = {i}
    BY <1>1, <1>4, <2>1
  <2>3. order[k] = i
    BY <2>2, OnlyOne
  <2>4. QED  BY <2>1, <2>3
<1>7. order \in [1 .. n -> 1 .. n]
  BY <1>6
<1>8. Sorted(stops) = [k \in 1 .. n |-> stops[order[k]]]
  BY <1>1 DEF Sorted
<1> HIDE DEF order
<1>9. ASSUME NEW i \in 1 .. n PROVE \E k \in 1 .. n : order[k] = i
  <2>1. place[i] \in 1 .. n
    BY <1>3
  <2>2. order[place[i]] \in 1 .. n /\ place[order[place[i]]] = place[i]
    BY <1>6, <2>1
  <2>3. order[place[i]] = i
    BY <1>4, <2>2
  <2>4. QED  BY <2>1, <2>3
<1>10. ASSUME NEW k \in 1 .. n, NEW l \in 1 .. n, k < l
       PROVE  Sooner(stops, order[k], order[l])
  <2>1. order[k] \in 1 .. n /\ order[l] \in 1 .. n /\ place[order[k]] = k /\ place[order[l]] = l
    BY <1>6
  <2>2. order[k] # order[l]
    BY <1>10, <2>1
  <2>3. Sooner(stops, order[k], order[l]) \/ Sooner(stops, order[l], order[k])
    BY <2>1, <2>2, SoonerOrders
  <2>4. Sooner(stops, order[l], order[k]) => l < k
    BY <2>1, PlaceType
  <2>5. QED  BY <1>1, <1>10, <2>3, <2>4
<1>11. QED  BY <1>7, <1>8, <1>9, <1>10

-----------------------------------------------------------------------------
(* Meals. *)

\* A finite set in some order, each element once.
LEMMA Listed ==
    ASSUME NEW S, IsFiniteSet(S)
    PROVE  LET s == SetToSeq(S) IN
           /\ s \in [1 .. Cardinality(S) -> S] /\ Cardinality(S) \in Nat
           /\ \A i, j \in 1 .. Cardinality(S) : s[i] = s[j] => i = j
<1> DEFINE n == Cardinality(S)
           s == SetToSeq(S)
<1>1. n \in Nat /\ \E f : f \in Bijection(1 .. n, S)
  BY FS_CardinalityType DEF ExistsBijection
<1>2. s = CHOOSE f \in [1 .. n -> S] : IsInjective(f)
  BY DEF SetToSeq
<1>3. \E f \in [1 .. n -> S] : IsInjective(f)
  BY <1>1 DEF Bijection, Injection, IsInjective
<1> HIDE DEF s, n
<1>4. s \in [1 .. n -> S] /\ IsInjective(s)
  BY <1>2, <1>3
<1>5. \A i, j \in 1 .. n : s[i] = s[j] => i = j
  BY <1>4 DEF IsInjective
<1>6. QED  BY <1>1, <1>4, <1>5 DEF s, n

LEMMA FreeType ==
    ASSUME WellFormed(request), NEW d \in Days, NEW stops, NEW far, Timely(d, stops, far),
           NEW k \in 0 .. Len(stops)
    PROVE  FreeAfter(d, stops, k) \in Int /\ NodeAfter(stops, k) \in Places
<1>1. CASE k = 0
  <2>1. Day(d).start \in Int
    BY DeadlineType
  <2>2. QED  BY <1>1, <2>1 DEF FreeAfter, NodeAfter, Places
<1>2. CASE k # 0
  <2>1. stops[k] \in Stops
    BY <1>2 DEF Timely
  <2>2. QED  BY <1>2, <2>1 DEF FreeAfter, NodeAfter, Places, Stops
<1>3. QED  BY <1>1, <1>2

\* The visits of a day do not overlap, and none begins before the day.
LEMMA StopsAscend ==
    ASSUME WellFormed(request), NEW d \in Days, NEW stops, NEW far, Timely(d, stops, far)
    PROVE  \A k \in 1 .. Len(stops) :
             /\ stops[k] \in Stops
             /\ stops[k].arrive >= Day(d).start
             /\ stops[k].depart > stops[k].arrive
             /\ \A i \in 1 .. k - 1 : stops[i].depart <= stops[k].arrive
<1> DEFINE n == Len(stops)
           start == Day(d).start
           Fine(k) == /\ stops[k].arrive >= start
                      /\ \A i \in 1 .. k - 1 : stops[i].depart <= stops[k].arrive
           Good == {k \in 0 .. n : k # 0 => Fine(k)}
<1>1. stops \in Seq(Stops) /\ n \in Nat
  BY DEF Timely
<1>2. start \in Int
  BY DeadlineType
<1>3. ASSUME NEW k \in 1 .. n
      PROVE  /\ stops[k] \in Stops /\ stops[k].arrive \in Int /\ stops[k].depart \in Int
             /\ stops[k].depart > stops[k].arrive
             /\ stops[k].arrive >= FreeAfter(d, stops, k - 1)
  <2>1. stops[k] \in Stops
    BY <1>1
  <2>2. stops[k].arrive \in Int /\ stops[k].depart \in Int /\ stops[k].poi \in Goals
    BY <2>1 DEF Stops, Goals, Places
  <2>3. /\ Proper(d, stops[k])
        /\ stops[k].arrive >= FreeAfter(d, stops, k - 1)
                              + Leg(NodeAfter(stops, k - 1), stops[k].poi).time
    BY DEF Timely
  <2>4. k - 1 \in 0 .. n
    BY <1>1
  <2>5. FreeAfter(d, stops, k - 1) \in Int /\ NodeAfter(stops, k - 1) \in Places
    BY <2>4, FreeType
  <2>6. Leg(NodeAfter(stops, k - 1), stops[k].poi).time \in Nat
    BY <2>2, <2>5, LegType
  <2>7. stops[k].depart > stops[k].arrive
    BY <2>3 DEF Proper
  <2>8. stops[k].arrive >= FreeAfter(d, stops, k - 1)
    BY <2>2, <2>3, <2>5, <2>6
  <2>9. QED  BY <2>1, <2>2, <2>7, <2>8
<1> HIDE DEF n, start
<1>4. 0 \in Good
  BY <1>1
<1>5. ASSUME NEW k \in 1 .. n, k - 1 \in Good PROVE k \in Good
  <2>1. k \in 0 .. n
    BY <1>1
  <2>2. CASE k = 1
    <3>1. stops[k].arrive >= start
      BY <1>3, <2>2 DEF FreeAfter, start
    <3>2. 1 .. k - 1 = {}
      BY <2>2
    <3>3. QED  BY <2>1, <3>1, <3>2
  <2>3. CASE k # 1
    <3>1. k - 1 \in 1 .. n /\ k - 1 # 0
      BY <1>1, <2>3
    <3>2. Fine(k - 1)
      BY <1>5, <3>1
    <3>3. stops[k].arrive >= stops[k - 1].depart
      BY <1>3, <3>1 DEF FreeAfter
    <3>4. /\ stops[k].arrive \in Int /\ stops[k - 1].arrive \in Int /\ stops[k - 1].depart \in Int
          /\ stops[k - 1].depart > stops[k - 1].arrive
      BY <1>3, <3>1
    <3>5. stops[k].arrive >= start
      BY <1>2, <3>2, <3>3, <3>4
    <3>6. ASSUME NEW i \in 1 .. k - 1 PROVE stops[i].depart <= stops[k].arrive
      <4>1. CASE i = k - 1
        BY <3>3, <3>4, <4>1
      <4>2. CASE i # k - 1
        <5>1. i \in 1 .. (k - 1) - 1 /\ i \in 1 .. n
          BY <1>1, <3>1, <4>2
        <5>2. stops[i].depart <= stops[k - 1].arrive /\ stops[i].depart \in Int
          BY <1>3, <3>2, <5>1
        <5>3. QED  BY <3>3, <3>4, <5>2
      <4>3. QED  BY <4>1, <4>2
    <3>7. QED  BY <2>1, <3>5, <3>6
  <2>4. QED  BY <2>2, <2>3
<1>6. \A k \in 0 .. n : k \in Good
  <2> HIDE DEF Good
  <2>1. QED  BY <1>1, <1>4, <1>5, UpTo
<1>7. ASSUME NEW k \in 1 .. n PROVE Fine(k)
  <2>1. k \in 0 .. n /\ k # 0
    BY <1>1
  <2>2. QED  BY <1>6, <2>1
<1>8. QED  BY <1>3, <1>7 DEF n, start

MealLasts == Minutes(Option.mealTime)

\* A meal takes time and begins no earlier than its hours and the day.
LEMMA MealTimes ==
    ASSUME WellFormed(request), NEW d \in Days, NEW hours \in Option.meals
    PROVE  /\ MealLasts \in Nat /\ MealLasts > 0
           /\ Midnight(d) \in Int /\ At(hours[1]) \in Int /\ At(hours[2]) \in Int
           /\ FirstServed(d, hours) \in Int
           /\ FirstServed(d, hours) >= Day(d).start
           /\ FirstServed(d, hours) >= Midnight(d) + At(hours[1])
<1>1. Option.mealTime \in Nat \ {0} /\ hours[1] \in Nat /\ hours[2] \in Nat
  BY DEF WellFormed, Option
<1>2. MealLasts \in Nat /\ MealLasts > 0
  BY <1>1 DEF MealLasts, Minutes
<1>3. Day(d).start \in Int
  BY DeadlineType
<1>4. Midnight(d) \in Int
  BY <1>3 DEF Midnight, At, Minutes
<1>5. At(hours[1]) \in Int /\ At(hours[2]) \in Int
  BY <1>1 DEF At, Minutes
<1>6. Midnight(d) + At(hours[1]) \in Int
  BY <1>4, <1>5
<1> DEFINE t == Midnight(d) + At(hours[1])
           start == Day(d).start
<1>7. FirstServed(d, hours) = IF t >= start THEN t ELSE start
  <2> HIDE DEF t, start
  <2>1. t \in Int /\ start \in Int
    BY <1>3, <1>6 DEF t, start
  <2>2. Max({t, start}) = IF t >= start THEN t ELSE start
    BY <2>1, MaxOfTwo
  <2>3. QED  BY <2>2 DEF FirstServed, t, start
<1> HIDE DEF t, start
<1>8. FirstServed(d, hours) \in Int /\ FirstServed(d, hours) >= start /\ FirstServed(d, hours) >= t
  <2>1. t \in Int /\ start \in Int
    BY <1>3, <1>6 DEF t, start
  <2>2. QED  BY <1>7, <2>1
<1>9. QED  BY <1>2, <1>4, <1>5, <1>8 DEF t, start

\* A meal from t on runs into no visit.
ClearOf(t, stop) == stop.depart <= t \/ t + MealLasts <= stop.arrive

\* A meal that is postponed past a visit is clear of it.
LEMMA PostponedClears ==
    ASSUME NEW t \in Int, NEW stop \in Stops, MealLasts \in Nat
    PROVE  /\ Postponed(t, stop) \in Int /\ Postponed(t, stop) >= t
           /\ Postponed(t, stop) \in {t, stop.depart}
           /\ ClearOf(Postponed(t, stop), stop)
<1>1. stop.arrive \in Int /\ stop.depart \in Int
  BY DEF Stops
<1>2. Postponed(t, stop) = IF t < stop.depart /\ stop.arrive < t + MealLasts THEN stop.depart ELSE t
  BY DEF Postponed, MealLasts
<1>3. CASE t < stop.depart /\ stop.arrive < t + MealLasts
  <2>1. Postponed(t, stop) = stop.depart
    BY <1>2, <1>3
  <2>2. QED  BY <1>1, <1>3, <2>1 DEF ClearOf
<1>4. CASE ~(t < stop.depart /\ stop.arrive < t + MealLasts)
  <2>1. Postponed(t, stop) = t
    BY <1>2, <1>4
  <2>2. stop.depart <= t \/ t + MealLasts <= stop.arrive
    BY <1>1, <1>4
  <2>3. QED  BY <2>1, <2>2 DEF ClearOf
<1>5. QED  BY <1>3, <1>4

\* A meal begins within the day, when its hours do, and between the visits.
LEMMA MealStartClear ==
    ASSUME WellFormed(request), NEW d \in Days, NEW hours \in Option.meals,
           NEW stops, NEW far, Timely(d, stops, far)
    PROVE  /\ MealStart(d, hours, stops) \in Int
           /\ MealStart(d, hours, stops) >= Day(d).start
           /\ MealStart(d, hours, stops) >= Midnight(d) + At(hours[1])
           /\ \A i \in 1 .. Len(stops) : ClearOf(MealStart(d, hours, stops), stops[i])
<1> DEFINE n == Len(stops)
           B == MealStarts(d, hours, stops)
           first == FirstServed(d, hours)
           Fine(k) == B[k] \in Int /\ B[k] >= first /\ \A i \in 1 .. k : ClearOf(B[k], stops[i])
           Good == {k \in 0 .. n : Fine(k)}
<1>1. stops \in Seq(Stops) /\ n \in Nat
  BY DEF Timely
<1>2. /\ first \in Int /\ first >= Day(d).start /\ first >= Midnight(d) + At(hours[1])
      /\ MealLasts \in Nat
      /\ Midnight(d) \in Int /\ At(hours[1]) \in Int
  BY MealTimes
<1>3. B[0] = first /\ \A k \in 1 .. n : B[k] = Postponed(B[k - 1], stops[k])
  BY <1>1, MealSteps
<1>4. \A k \in 1 .. n :
         /\ stops[k] \in Stops
         /\ stops[k].depart > stops[k].arrive
         /\ \A i \in 1 .. k - 1 : stops[i].depart <= stops[k].arrive
  BY StopsAscend
<1> HIDE DEF n, B, first
<1>5. 0 \in Good
  BY <1>1, <1>2, <1>3
<1>6. ASSUME NEW k \in 1 .. n, k - 1 \in Good PROVE k \in Good
  <2>1. k \in 0 .. n
    BY <1>1
  <2>2. B[k - 1] \in Int /\ B[k - 1] >= first /\ \A i \in 1 .. k - 1 : ClearOf(B[k - 1], stops[i])
    BY <1>6
  <2>3. /\ B[k] \in Int /\ B[k] >= B[k - 1] /\ B[k] \in {B[k - 1], stops[k].depart}
        /\ ClearOf(B[k], stops[k])
    BY <1>2, <1>3, <1>4, <2>2, PostponedClears
  <2>4. ASSUME NEW i \in 1 .. k PROVE ClearOf(B[k], stops[i])
    <3>1. CASE i = k
      BY <2>3, <3>1
    <3>2. CASE i # k
      <4>1. i \in 1 .. k - 1 /\ i \in 1 .. n
        BY <1>1, <3>2
      <4>2. CASE B[k] = B[k - 1]
        BY <2>2, <4>1, <4>2
      <4>3. CASE B[k] = stops[k].depart
        <5>1. /\ stops[i].depart <= stops[k].arrive /\ stops[k].depart > stops[k].arrive
              /\ stops[i] \in Stops /\ stops[k] \in Stops
          BY <1>4, <4>1
        <5>2. stops[i].depart \in Int /\ stops[k].arrive \in Int /\ stops[k].depart \in Int
          BY <5>1 DEF Stops
        <5>3. stops[i].depart <= B[k]
          BY <4>3, <5>1, <5>2
        <5>4. QED  BY <5>3 DEF ClearOf
      <4>4. QED  BY <2>3, <4>2, <4>3
    <3>3. QED  BY <3>1, <3>2
  <2>5. B[k] >= first
    BY <1>2, <2>2, <2>3
  <2>6. QED  BY <2>1, <2>3, <2>4, <2>5
<1>7. \A k \in 0 .. n : k \in Good
  <2> HIDE DEF Good
  <2>1. QED  BY <1>1, <1>5, <1>6, UpTo
<1>8. Fine(n)
  BY <1>1, <1>7
<1>9. MealStart(d, hours, stops) = B[n]
  BY DEF MealStart, B, n
<1> DEFINE b == B[n]
<1>10. b \in Int /\ b >= first /\ \A i \in 1 .. n : ClearOf(b, stops[i])
  BY <1>8
<1> HIDE DEF b
<1>11. Day(d).start \in Int
  BY DeadlineType
<1>12. b >= Day(d).start /\ b >= Midnight(d) + At(hours[1])
  BY <1>2, <1>10, <1>11
<1>13. QED  BY <1>9, <1>10, <1>12 DEF n, b

Crossing == \E g, h \in Option.meals : g # h /\ Overlap(g, h)

\* Two stops of which one is over when the other begins.
Apart(a, b) == a.depart <= b.arrive \/ b.depart <= a.arrive

\* The meals of a day.
LEMMA MealsType ==
    ASSUME WellFormed(request), NEW d \in Days, NEW stops, NEW far, Timely(d, stops, far)
    PROVE  LET M == Meals(d, stops) IN
           /\ M \in Seq(Spots)
           /\ Option.meals = {} => M = <<>>
           /\ \A i \in 1 .. Len(M) :
                /\ M[i].poi = Meal /\ M[i].arrive >= Day(d).start /\ M[i].depart > M[i].arrive
                /\ \A k \in 1 .. Len(stops) : Apart(stops[k], M[i])
           /\ ~Crossing => \A i, j \in 1 .. Len(M) : i # j => Apart(M[i], M[j])
<1> DEFINE S == {hours \in Option.meals :
                   MealStart(d, hours, stops) + Minutes(Option.mealTime) <= Midnight(d) + At(hours[2])}
           served == SetToSeq(S)
           m == Cardinality(S)
           begin(i) == MealStart(d, served[i], stops)
           M == Meals(d, stops)
<1>1. IsFiniteSet(Option.meals)
  BY DEF WellFormed, Option
<1>2. IsFiniteSet(S)
  BY <1>1, FS_Subset
<1>3. /\ served \in [1 .. m -> S] /\ m \in Nat
      /\ \A i, j \in 1 .. m : served[i] = served[j] => i = j
  BY <1>2, Listed
<1>4. M = [i \in 1 .. m |-> Stop(Meal, begin(i), begin(i) + MealLasts)]
  <2>1. DOMAIN served = 1 .. m
    BY <1>3
  <2> DEFINE b == [i \in 1 .. m |-> begin(i)]
  <2>2. M = [i \in 1 .. m |-> Stop(Meal, b[i], b[i] + MealLasts)]
    BY <2>1 DEF Meals, MealLasts
  <2> HIDE DEF M, m, served
  <2>3. QED  BY <2>2
<1>5. ASSUME NEW i \in 1 .. m
      PROVE  /\ served[i] \in Option.meals
             /\ begin(i) + MealLasts <= Midnight(d) + At(served[i][2])
  <2>1. served[i] \in S
    BY <1>3
  <2> HIDE DEF served, m
  <2>2. QED  BY <2>1 DEF MealLasts
<1> HIDE DEF M, S, served, m
<1>6. ASSUME NEW i \in 1 .. m
      PROVE  /\ begin(i) \in Int /\ begin(i) >= Day(d).start
             /\ begin(i) >= Midnight(d) + At(served[i][1])
             /\ \A k \in 1 .. Len(stops) : ClearOf(begin(i), stops[k])
             /\ MealLasts \in Nat /\ MealLasts > 0
             /\ Midnight(d) \in Int /\ At(served[i][1]) \in Int /\ At(served[i][2]) \in Int
  BY <1>5, MealStartClear, MealTimes
<1> HIDE DEF begin
<1>7. ASSUME NEW i \in 1 .. m
      PROVE  /\ M[i].poi = Meal /\ M[i].arrive = begin(i) /\ M[i].depart = begin(i) + MealLasts
             /\ M[i] \in Spots
  <2>1. M[i] = [poi |-> Meal, arrive |-> begin(i), depart |-> begin(i) + MealLasts]
    BY <1>4 DEF Stop
  <2>2. begin(i) + MealLasts \in Int /\ Meal \in Nat
    BY <1>6 DEF Meal
  <2>3. QED  BY <1>6, <2>1, <2>2 DEF Spots
<1>8. M \in Seq(Spots) /\ Len(M) = m
  BY <1>3, <1>4, <1>7
<1>9. Option.meals = {} => M = <<>>
  <2> SUFFICES ASSUME Option.meals = {} PROVE M = <<>>
    OBVIOUS
  <2>1. S = {}
    BY DEF S
  <2>2. m = 0
    BY <2>1, FS_EmptySet DEF m
  <2>3. QED  BY <1>8, <2>2
<1>10. ASSUME NEW i \in 1 .. m
       PROVE  /\ M[i].poi = Meal /\ M[i].arrive >= Day(d).start /\ M[i].depart > M[i].arrive
              /\ \A k \in 1 .. Len(stops) : Apart(stops[k], M[i])
  <2>1. M[i].arrive >= Day(d).start /\ M[i].depart > M[i].arrive /\ M[i].poi = Meal
    BY <1>6, <1>7
  <2>2. ASSUME NEW k \in 1 .. Len(stops) PROVE Apart(stops[k], M[i])
    BY <1>6, <1>7 DEF ClearOf, Apart
  <2>3. QED  BY <2>1, <2>2
<1>11. ASSUME ~Crossing, NEW i \in 1 .. m, NEW j \in 1 .. m, i # j
       PROVE  Apart(M[i], M[j])
  <2>1. served[i] \in Option.meals /\ served[j] \in Option.meals /\ served[i] # served[j]
    BY <1>3, <1>5, <1>11
  <2>2. ~Overlap(served[i], served[j])
    BY <1>11, <2>1 DEF Crossing
  <2>3. {served[i][1], served[i][2], served[j][1], served[j][2]} \subseteq Nat
    BY <2>1 DEF WellFormed, Option
  <2>4. served[i][2] <= served[j][1] \/ served[j][2] <= served[i][1]
    BY <2>2, <2>3 DEF Overlap
  <2>5. At(served[i][2]) <= At(served[j][1]) \/ At(served[j][2]) <= At(served[i][1])
    <3> DEFINE a == served[i][1]
               b == served[i][2]
               c == served[j][1]
               e == served[j][2]
    <3>1. a \in Nat /\ b \in Nat /\ c \in Nat /\ e \in Nat /\ (b <= c \/ e <= a)
      BY <2>3, <2>4
    <3> HIDE DEF a, b, c, e
    <3>2. At(b) <= At(c) \/ At(e) <= At(a)
      BY <3>1 DEF At, Minutes
    <3>3. QED  BY <3>2 DEF a, b, c, e
  <2>9. /\ begin(i) \in Int /\ begin(j) \in Int /\ MealLasts \in Nat /\ Midnight(d) \in Int
        /\ At(served[i][1]) \in Int /\ At(served[i][2]) \in Int
        /\ At(served[j][1]) \in Int /\ At(served[j][2]) \in Int
        /\ begin(i) + MealLasts <= Midnight(d) + At(served[i][2])
        /\ begin(j) + MealLasts <= Midnight(d) + At(served[j][2])
        /\ begin(i) >= Midnight(d) + At(served[i][1])
        /\ begin(j) >= Midnight(d) + At(served[j][1])
    BY <1>5, <1>6
  <2>6. CASE At(served[i][2]) <= At(served[j][1])
    <3>1. begin(i) + MealLasts <= begin(j)
      BY <2>9, <2>6
    <3>2. QED  BY <1>7, <3>1 DEF Apart
  <2>7. CASE At(served[j][2]) <= At(served[i][1])
    <3>1. begin(j) + MealLasts <= begin(i)
      BY <2>9, <2>7
    <3>2. QED  BY <1>7, <3>1 DEF Apart
  <2>8. QED  BY <2>5, <2>6, <2>7
<1>12. QED  BY <1>8, <1>9, <1>10, <1>11 DEF M

-----------------------------------------------------------------------------
(* The day with its meals. *)

\* order arranges 1 .. size so that 1 .. n ascend.
Ascends(order, n, size) ==
    /\ order \in [1 .. size -> 1 .. size]
    /\ \A i \in 1 .. size : \E k \in 1 .. size : order[k] = i
    /\ \A k, l \in 1 .. size : order[k] = order[l] => k = l
    /\ \A k, l \in 1 .. size : order[l] <= n /\ order[k] < order[l] => k < l

\* seen counts after each position how many of 1 .. n have come.
Counts(seen, order, n, size) ==
    /\ seen \in [0 .. size -> 0 .. n]
    /\ seen[0] = 0 /\ seen[size] = n
    /\ \A k \in 1 .. size :
         /\ order[k] <= n => seen[k] = seen[k - 1] + 1 /\ order[k] = seen[k]
         /\ ~(order[k] <= n) => seen[k] = seen[k - 1]

\* An arrangement that lets 1 .. n ascend meets them in turn: at each place so many of them have been seen.
LEMMA InTurn ==
    ASSUME NEW n \in Nat, NEW size \in Nat, n <= size,
           NEW order, Ascends(order, n, size)
    PROVE  \E seen : Counts(seen, order, n, size)
<1>0. /\ order \in [1 .. size -> 1 .. size]
      /\ \A i \in 1 .. size : \E k \in 1 .. size : order[k] = i
      /\ \A k, l \in 1 .. size : order[k] = order[l] => k = l
      /\ \A k, l \in 1 .. size : order[l] <= n /\ order[k] < order[l] => k < l
  BY DEF Ascends
<1> DEFINE Is(j, k) == \A i \in 1 .. n : i <= j <=> \E l \in 1 .. k : order[l] = i
           Good == {k \in 0 .. size : \E j \in 0 .. n : Is(j, k)}
<1>1. ASSUME NEW k \in 0 .. size, NEW i \in 0 .. n, NEW j \in 0 .. n, Is(i, k), Is(j, k), i < j
      PROVE  FALSE
  <2>1. j \in 1 .. n /\ i \in Int
    BY <1>1
  <2>2. j <= j /\ ~(j <= i)
    BY <1>1, <2>1
  <2>3. QED  BY <1>1, <2>1, <2>2
<1>2. \A k \in 0 .. size : \A i, j \in 0 .. n : Is(i, k) /\ Is(j, k) => i = j
  <2> SUFFICES ASSUME NEW k \in 0 .. size, NEW i \in 0 .. n, NEW j \in 0 .. n, Is(i, k), Is(j, k), i # j
               PROVE  FALSE
    OBVIOUS
  <2>1. i < j \/ j < i
    OBVIOUS
  <2> HIDE DEF Is
  <2>2. QED  BY <1>1, <2>1
<1>3. Is(0, 0)
  <2>1. 1 .. 0 = {}
    OBVIOUS
  <2>2. \A i \in 1 .. n : ~(i <= 0)
    OBVIOUS
  <2>3. QED  BY <2>1, <2>2
<1>4. ASSUME NEW k \in 1 .. size, NEW j \in 0 .. n, Is(j, k - 1), order[k] <= n
      PROVE  order[k] = j + 1 /\ j + 1 \in 0 .. n /\ Is(j + 1, k)
  <2>1. order[k] \in 1 .. n /\ j \in Int /\ k \in Int
    BY <1>0, <1>4
  <2>2. ~(order[k] <= j)
    <3> SUFFICES ASSUME order[k] <= j PROVE FALSE
      OBVIOUS
    <3>1. PICK l \in 1 .. k - 1 : order[l] = order[k]
      BY <1>4, <2>1
    <3>2. l \in 1 .. size /\ l # k
      OBVIOUS
    <3>3. QED  BY <1>0, <3>1, <3>2
  <2>3. ~(j + 1 < order[k])
    <3> SUFFICES ASSUME j + 1 < order[k] PROVE FALSE
      OBVIOUS
    <3>1. j + 1 \in 1 .. n /\ j + 1 \in 1 .. size /\ ~(j + 1 <= j)
      BY <2>1
    <3>2. PICK l \in 1 .. size : order[l] = j + 1
      BY <1>0, <3>1
    <3>3. l < k
      BY <1>0, <1>4, <3>2
    <3>4. l \in 1 .. k - 1
      BY <2>1, <3>3
    <3>5. QED  BY <1>4, <3>1, <3>2, <3>4
  <2>4. order[k] = j + 1
    <3> DEFINE o == order[k]
    <3>1. o \in Int /\ j \in Int /\ ~(o <= j) /\ ~(j + 1 < o)
      BY <2>1, <2>2, <2>3
    <3> HIDE DEF o
    <3>2. o = j + 1
      BY ONLY <3>1
    <3>3. QED  BY <3>2 DEF o
  <2>5. ASSUME NEW i \in 1 .. n
        PROVE  i <= j + 1 <=> \E l \in 1 .. k : order[l] = i
    <3>1. \A l \in 1 .. k : l = k \/ l \in 1 .. k - 1
      OBVIOUS
    <3>2. \A l \in 1 .. k - 1 : l \in 1 .. k
      OBVIOUS
    <3>3. k \in 1 .. k
      OBVIOUS
    <3>4. i <= j + 1 <=> i <= j \/ i = j + 1
      BY <2>1
    <3>5. i <= j <=> \E l \in 1 .. k - 1 : order[l] = i
      BY <1>4
    <3>6. QED  BY <2>4, <3>1, <3>2, <3>3, <3>4, <3>5
  <2>6. j + 1 \in 0 .. n
    BY <2>1, <2>4
  <2>7. QED  BY <2>4, <2>5, <2>6
<1>5. ASSUME NEW k \in 1 .. size, NEW j \in 0 .. n, Is(j, k - 1), ~(order[k] <= n)
      PROVE  Is(j, k)
  <2>1. \A l \in 1 .. k : l = k \/ l \in 1 .. k - 1
    OBVIOUS
  <2>2. \A l \in 1 .. k - 1 : l \in 1 .. k
    OBVIOUS
  <2>3. \A i \in 1 .. n : order[k] # i
    BY <1>5
  <2>4. QED  BY <1>5, <2>1, <2>2, <2>3
<1>6. \A k \in 0 .. size : \E j \in 0 .. n : Is(j, k)
  <2>1. 0 \in Good
    <3>1. 0 \in 0 .. n /\ 0 \in 0 .. size
      OBVIOUS
    <3> HIDE DEF Is
    <3>2. QED  BY <1>3, <3>1
  <2>2. ASSUME NEW k \in 1 .. size, k - 1 \in Good PROVE k \in Good
    <3>1. k \in 0 .. size
      OBVIOUS
    <3> HIDE DEF Is
    <3>2. PICK j \in 0 .. n : Is(j, k - 1)
      BY <2>2
    <3>3. QED  BY <1>4, <1>5, <3>1, <3>2
  <2>3. \A k \in 0 .. size : k \in Good
    <3> HIDE DEF Good, Is
    <3>1. QED  BY <2>1, <2>2, UpTo
  <2> HIDE DEF Is
  <2>4. QED  BY <2>3
<1> DEFINE seen == [k \in 0 .. size |-> CHOOSE j \in 0 .. n : Is(j, k)]
<1>7. \A k \in 0 .. size : seen[k] \in 0 .. n /\ Is(seen[k], k)
  <2> HIDE DEF Is
  <2>1. QED  BY <1>6
<1>8. seen \in [0 .. size -> 0 .. n]
  <2> HIDE DEF Is
  <2>1. \A k \in 0 .. size : (CHOOSE j \in 0 .. n : Is(j, k)) \in 0 .. n
    BY <1>6
  <2>2. QED  BY <2>1
<1> HIDE DEF seen
<1>9. seen[0] = 0
  <2>1. 0 \in 0 .. n /\ 0 \in 0 .. size
    OBVIOUS
  <2> HIDE DEF Is
  <2>2. QED  BY <1>2, <1>3, <1>7, <2>1
<1>10. seen[size] = n
  <2>1. Is(n, size)
    <3>1. \A i \in 1 .. n : i <= n /\ i \in 1 .. size
      OBVIOUS
    <3>2. QED  BY <1>0, <3>1
  <2>2. n \in 0 .. n /\ size \in 0 .. size
    OBVIOUS
  <2> HIDE DEF Is
  <2>3. QED  BY <1>2, <1>7, <2>1, <2>2
<1>11. ASSUME NEW k \in 1 .. size
       PROVE  /\ order[k] <= n => seen[k] = seen[k - 1] + 1 /\ order[k] = seen[k]
              /\ ~(order[k] <= n) => seen[k] = seen[k - 1]
  <2>1. k \in 0 .. size /\ k - 1 \in 0 .. size
    OBVIOUS
  <2> HIDE DEF Is
  <2>2. seen[k - 1] \in 0 .. n /\ Is(seen[k - 1], k - 1) /\ seen[k] \in 0 .. n /\ Is(seen[k], k)
    BY <1>7, <2>1
  <2>3. CASE order[k] <= n
    <3>1. order[k] = seen[k - 1] + 1 /\ seen[k - 1] + 1 \in 0 .. n /\ Is(seen[k - 1] + 1, k)
      BY <1>4, <2>2, <2>3
    <3>4. seen[k] \in 0 .. n /\ Is(seen[k], k)
      BY <2>2
    <3>2. seen[k] = seen[k - 1] + 1
      BY <1>2, <2>1, <3>1, <3>4
    <3>3. QED  BY <2>3, <3>1, <3>2
  <2>4. CASE ~(order[k] <= n)
    <3>1. Is(seen[k - 1], k)
      BY <1>5, <2>2, <2>4
    <3>4. seen[k - 1] \in 0 .. n /\ seen[k] \in 0 .. n /\ Is(seen[k], k)
      BY <2>2
    <3> DEFINE a == seen[k]
               b == seen[k - 1]
    <3>5. k \in 0 .. size /\ a \in 0 .. n /\ b \in 0 .. n /\ Is(a, k) /\ Is(b, k)
      BY <2>1, <3>1, <3>4
    <3> HIDE DEF a, b
    <3>6. a = b
      BY <1>2, <3>5
    <3>2. seen[k] = seen[k - 1]
      BY <3>6 DEF a, b
    <3>3. QED  BY <2>4, <3>2
  <2>5. QED  BY <2>3, <2>4
<1> HIDE DEF Is
<1>12. Counts(seen, order, n, size)
  BY <1>8, <1>9, <1>10, <1>11 DEF Counts
<1>13. QED  BY <1>12

LEMMA StopsAreSpots == Stops \subseteq Spots
<1>1. Pois \subseteq Nat
  BY SolverAssumption
<1>2. QED  BY <1>1 DEF Stops, Spots

\* How many stops a day has with its meals.
Size(d, stops) == Len(stops) + Len(Meals(d, stops))

\* The stops of a day in order, no two at once unless the hours of two meals cross.
LaidOut(d, stops) ==
    /\ Len(stops) \in Nat /\ Size(d, stops) \in Nat /\ Len(stops) <= Size(d, stops)
    /\ WithMeals(d, stops) \in Seq(Spots) /\ Len(WithMeals(d, stops)) = Size(d, stops)
    /\ \A k \in 1 .. Size(d, stops) :
         /\ WithMeals(d, stops)[k].arrive >= Day(d).start
         /\ WithMeals(d, stops)[k].depart > WithMeals(d, stops)[k].arrive
    /\ Crossing \/ \A k, l \in 1 .. Size(d, stops) :
                      k < l => WithMeals(d, stops)[k].depart <= WithMeals(d, stops)[l].arrive

\* Which of the visits, or else a meal, comes when.
Order(d, stops, order) ==
    /\ Ascends(order, Len(stops), Size(d, stops))
    /\ \A k \in 1 .. Size(d, stops) :
         /\ order[k] <= Len(stops) => WithMeals(d, stops)[k] = stops[order[k]]
         /\ ~(order[k] <= Len(stops)) => WithMeals(d, stops)[k].poi = Meal

\* The visits stay as they were, in the same order.
LEMMA Arranged ==
    ASSUME WellFormed(request), NEW d \in Days, NEW stops, NEW far, Timely(d, stops, far)
    PROVE  /\ LaidOut(d, stops)
           /\ Option.meals = {} => Size(d, stops) = Len(stops)
           /\ \E order : Order(d, stops, order)
<1> DEFINE M == Meals(d, stops)
           n == Len(stops)
           size == n + Len(M)
           all == stops \o M
           T == WithMeals(d, stops)
<1>1. stops \in Seq(Spots) /\ n \in Nat
  <2>1. stops \in Seq(Stops)
    BY DEF Timely
  <2>2. QED  BY <2>1, StopsAreSpots, SeqMonotonic
<1>2. /\ M \in Seq(Spots)
      /\ Option.meals = {} => M = <<>>
      /\ \A i \in 1 .. Len(M) :
           /\ M[i].poi = Meal /\ M[i].arrive >= Day(d).start /\ M[i].depart > M[i].arrive
           /\ \A k \in 1 .. Len(stops) : Apart(stops[k], M[i])
      /\ ~Crossing => \A i, j \in 1 .. Len(M) : i # j => Apart(M[i], M[j])
  BY MealsType
<1>3. Len(M) \in Nat /\ (Option.meals = {} => Len(M) = 0)
  BY <1>2
<1>4. \A k \in 1 .. n :
         /\ stops[k] \in Stops
         /\ stops[k].arrive >= Day(d).start
         /\ stops[k].depart > stops[k].arrive
         /\ \A i \in 1 .. k - 1 : stops[i].depart <= stops[k].arrive
  BY StopsAscend
<1> HIDE DEF M
<1>5. size \in Nat /\ n <= size /\ (Option.meals = {} => size = n)
  BY <1>1, <1>3
<1>6. /\ all \in Seq(Spots) /\ Len(all) = size
      /\ \A i \in 1 .. size : all[i] = IF i <= n THEN stops[i] ELSE M[i - n]
  BY <1>1, <1>2, ConcatProperties
<1>7. T = Sorted(all)
  <2>1. {Sorted(x) : x \in {all}} = {Sorted(all)}
    OBVIOUS
  <2>2. QED  BY <2>1, OnlyOne DEF WithMeals, M
<1> HIDE DEF n, size, all, T
<1>8. PICK order \in [1 .. size -> 1 .. size] :
             /\ T = [k \in 1 .. size |-> all[order[k]]]
             /\ \A i \in 1 .. size : \E k \in 1 .. size : order[k] = i
             /\ \A k, l \in 1 .. size : k < l => Sooner(all, order[k], order[l])
  <2>1. all \in Seq(Spots) /\ Len(all) = size
    BY <1>6
  <2>2. \E order \in [1 .. Len(all) -> 1 .. Len(all)] :
             /\ Sorted(all) = [k \in 1 .. Len(all) |-> all[order[k]]]
             /\ \A i \in 1 .. Len(all) : \E k \in 1 .. Len(all) : order[k] = i
             /\ \A k, l \in 1 .. Len(all) : k < l => Sooner(all, order[k], order[l])
    BY <2>1, SortedType
  <2>3. QED  BY <1>7, <2>1, <2>2
<1>9. ASSUME NEW i \in 1 .. size
      PROVE  /\ i <= n => i \in 1 .. n /\ all[i] = stops[i]
             /\ ~(i <= n) => i - n \in 1 .. Len(M) /\ all[i] = M[i - n]
             /\ all[i] \in Spots
             /\ all[i].arrive >= Day(d).start /\ all[i].depart > all[i].arrive
  <2>1. i <= n => i \in 1 .. n /\ all[i] = stops[i]
    BY <1>1, <1>6
  <2>2. ~(i <= n) => i - n \in 1 .. Len(M) /\ all[i] = M[i - n]
    BY <1>1, <1>3, <1>6 DEF size
  <2>3. all[i] \in Spots
    BY <1>6
  <2>4. CASE i <= n
    BY <1>4, <2>1, <2>2, <2>3, <2>4
  <2>5. CASE ~(i <= n)
    <3>1. M[i - n].arrive >= Day(d).start /\ M[i - n].depart > M[i - n].arrive
      BY <1>2, <2>2, <2>5
    <3>2. QED  BY <2>1, <2>2, <2>3, <2>5, <3>1
  <2>6. QED  BY <2>4, <2>5
<1>10. ASSUME NEW i \in 1 .. size, NEW j \in 1 .. size, i < j, ~Crossing \/ j <= n
       PROVE  Apart(all[i], all[j]) /\ (j <= n => all[i].depart <= all[j].arrive)
  <2>1. CASE j <= n
    <3>1. i <= n /\ i \in 1 .. j - 1
      BY <1>1, <1>10, <2>1
    <3>2. all[i] = stops[i] /\ all[j] = stops[j] /\ j \in 1 .. n
      BY <1>9, <2>1, <3>1
    <3>3. all[i].depart <= all[j].arrive
      BY <1>4, <3>1, <3>2
    <3>4. QED  BY <3>3 DEF Apart
  <2>2. CASE ~(j <= n) /\ i <= n
    <3>1. all[i] = stops[i] /\ i \in 1 .. n /\ all[j] = M[j - n] /\ j - n \in 1 .. Len(M)
      BY <1>9, <2>2
    <3>2. Apart(stops[i], M[j - n])
      BY <1>2, <3>1 DEF n
    <3>3. QED  BY <2>2, <3>1, <3>2
  <2>3. CASE ~(j <= n) /\ ~(i <= n)
    <3>1. /\ all[i] = M[i - n] /\ i - n \in 1 .. Len(M)
          /\ all[j] = M[j - n] /\ j - n \in 1 .. Len(M)
      BY <1>9, <2>3
    <3>2. i - n # j - n
      BY <1>1, <1>10
    <3>3. Apart(M[i - n], M[j - n])
      BY <1>2, <1>10, <2>3, <3>1, <3>2
    <3>4. QED  BY <2>3, <3>1, <3>3
  <2>4. QED  BY <2>1, <2>2, <2>3
<1>11. ASSUME NEW k \in 1 .. size
       PROVE  /\ order[k] \in 1 .. size /\ T[k] = all[order[k]]
              /\ T[k] \in Spots /\ T[k].arrive \in Int /\ T[k].depart \in Int
              /\ T[k].arrive >= Day(d).start /\ T[k].depart > T[k].arrive
  <2>1. order[k] \in 1 .. size /\ T[k] = all[order[k]]
    BY <1>8
  <2>2. T[k] \in Spots /\ T[k].arrive >= Day(d).start /\ T[k].depart > T[k].arrive
    BY <1>9, <2>1
  <2>3. QED  BY <2>1, <2>2, SpotType
<1>12. ASSUME NEW k \in 1 .. size, NEW l \in 1 .. size, k < l
       PROVE  order[k] # order[l] /\ T[k].arrive <= T[l].arrive
  <2>1. Sooner(all, order[k], order[l])
    BY <1>8, <1>12
  <2>2. order[k] \in 1 .. Len(all) /\ order[l] \in 1 .. Len(all) /\ Len(all) = size
    BY <1>6, <1>11
  <2>3. order[k] # order[l]
    <3> SUFFICES ASSUME order[k] = order[l] PROVE FALSE
      OBVIOUS
    <3>1. Sooner(all, order[k], order[k])
      BY <2>1
    <3>2. QED  BY <1>6, <2>2, <3>1, SoonerOrders
  <2>4. all[order[k]].arrive < all[order[l]].arrive \/ all[order[k]].arrive = all[order[l]].arrive
    BY <1>6, <2>1, <2>2, SoonerMeans
  <2>5. /\ T[k].arrive = all[order[k]].arrive /\ T[l].arrive = all[order[l]].arrive
        /\ T[k].arrive \in Int /\ T[l].arrive \in Int
    BY <1>11
  <2>6. T[k].arrive <= T[l].arrive
    BY <2>4, <2>5
  <2>7. QED  BY <2>3, <2>6
<1>13. \A k, l \in 1 .. size : order[k] = order[l] => k = l
  <2> SUFFICES ASSUME NEW k \in 1 .. size, NEW l \in 1 .. size, k # l PROVE order[k] # order[l]
    OBVIOUS
  <2>1. k < l \/ l < k
    OBVIOUS
  <2>2. QED  BY <1>12, <2>1
<1>14. ASSUME NEW k \in 1 .. size, NEW l \in 1 .. size, order[l] <= n, order[k] < order[l]
       PROVE  k < l
  <2>1. T[k].depart <= T[l].arrive
    <3>1. order[k] \in 1 .. size /\ order[l] \in 1 .. size
      BY <1>11
    <3>2. all[order[k]].depart <= all[order[l]].arrive
      BY <1>10, <1>14, <3>1
    <3>3. QED  BY <1>11, <3>2
  <2>2. T[k].arrive < T[l].arrive
    BY <1>11, <2>1
  <2>3. ~(l < k)
    BY <1>11, <1>12, <2>2
  <2>4. k # l
    BY <1>11, <2>2
  <2>5. QED  BY <2>3, <2>4
<1>15. ASSUME ~Crossing, NEW k \in 1 .. size, NEW l \in 1 .. size, k < l
       PROVE  T[k].depart <= T[l].arrive
  <2>1. order[k] \in 1 .. size /\ order[l] \in 1 .. size /\ order[k] # order[l]
    BY <1>11, <1>12, <1>15
  <2>2. order[k] < order[l] \/ order[l] < order[k]
    BY <2>1
  <2>3. Apart(T[k], T[l]) \/ Apart(T[l], T[k])
    BY <1>10, <1>11, <1>15, <2>1, <2>2
  <2>4. T[k].depart <= T[l].arrive \/ T[l].depart <= T[k].arrive
    BY <2>3 DEF Apart
  <2>5. T[k].arrive <= T[l].arrive
    BY <1>12, <1>15
  <2>6. QED  BY <1>11, <2>4, <2>5
<1>16. ASSUME NEW k \in 1 .. size
       PROVE  /\ order[k] <= n => T[k] = stops[order[k]]
              /\ ~(order[k] <= n) => T[k].poi = Meal
  <2>1. order[k] \in 1 .. size /\ T[k] = all[order[k]]
    BY <1>11
  <2>2. CASE order[k] <= n
    BY <1>9, <2>1, <2>2
  <2>3. CASE ~(order[k] <= n)
    <3>1. order[k] - n \in 1 .. Len(M) /\ T[k] = M[order[k] - n]
      BY <1>9, <2>1, <2>3
    <3>2. QED  BY <1>2, <2>3, <3>1
  <2>4. QED  BY <2>2, <2>3
<1>17. T \in Seq(Spots) /\ Len(T) = size
  <2>1. T = [k \in 1 .. size |-> T[k]]
    BY <1>8
  <2>2. QED  BY <1>5, <1>11, <2>1
<1>18. Ascends(order, n, size)
  BY <1>8, <1>13, <1>14 DEF Ascends
<1>19. size = Size(d, stops)
  BY DEF size, Size, M, n
<1>20. Order(d, stops, order)
  BY <1>16, <1>18, <1>19 DEF Order, n, T
<1>21. \A k \in 1 .. size : T[k].arrive >= Day(d).start /\ T[k].depart > T[k].arrive
  BY <1>11
<1>22. Crossing \/ \A k, l \in 1 .. size : k < l => T[k].depart <= T[l].arrive
  BY <1>15
<1>23. LaidOut(d, stops)
  BY <1>1, <1>5, <1>17, <1>19, <1>21, <1>22 DEF LaidOut, n, T
<1>24. Option.meals = {} => Size(d, stops) = Len(stops)
  BY <1>5, <1>19 DEF n
<1>25. QED  BY <1>20, <1>23, <1>24

-----------------------------------------------------------------------------
(* The check of a day with its meals. *)

State(depart, node, walked, issues) ==
    [depart |-> depart, node |-> node, walked |-> walked, issues |-> issues]

\* What a day of visits and meals may be found guilty of.
MealIssues == {"travel_overlap"} \cup (IF Crossing THEN {"overlap"} ELSE {})

\* The meals of a day change neither what is walked nor where the day ends.
LEMMA DayChecked ==
    ASSUME WellFormed(request), NEW d \in Days, NEW stops, NEW far, Timely(d, stops, far)
    PROVE  LET n == Len(stops)
               T == WithMeals(d, stops)
               last == Checks(d, T)[Len(T)]
           IN  /\ last.node = NodeAfter(stops, n) /\ last.walked = far[n]
               /\ last.issues \subseteq MealIssues
<1> DEFINE n == Len(stops)
           size == Size(d, stops)
           T == WithMeals(d, stops)
           C == Checks(d, T)
           free(k) == IF k = 0 THEN Day(d).start ELSE T[k].depart
<1>1. /\ n \in Nat /\ size \in Nat /\ n <= size
      /\ T \in Seq(Spots) /\ Len(T) = size
      /\ \A k \in 1 .. size : T[k].arrive >= Day(d).start /\ T[k].depart > T[k].arrive
      /\ ~Crossing => \A k, l \in 1 .. size : k < l => T[k].depart <= T[l].arrive
  BY Arranged DEF LaidOut
<1>2. PICK order : Order(d, stops, order)
  BY Arranged
<1>15. /\ order \in [1 .. size -> 1 .. size]
       /\ \A k \in 1 .. size :
            /\ order[k] <= n => T[k] = stops[order[k]]
            /\ ~(order[k] <= n) => T[k].poi = Meal
  BY <1>2 DEF Order, Ascends
<1>3. /\ stops \in Seq(Stops)
      /\ \A k \in 1 .. n :
           /\ Proper(d, stops[k])
           /\ far[k] = far[k - 1] + Walked(Leg(NodeAfter(stops, k - 1), stops[k].poi))
      /\ far[0] = 0
  BY DEF Timely
<1>4. C[0] = Unchecked(d) /\ \A k \in 1 .. size : C[k] = CheckStop(d, C[k - 1], T[k])
  BY <1>1, CheckSteps
<1>5. PICK seen : Counts(seen, order, n, size)
  BY <1>1, <1>2, InTurn DEF Order
<1> HIDE DEF n, size, T, C
<1>6. /\ seen \in [0 .. size -> 0 .. n]
      /\ seen[0] = 0 /\ seen[size] = n
      /\ \A k \in 1 .. size :
           /\ order[k] <= n => seen[k] = seen[k - 1] + 1 /\ order[k] = seen[k]
           /\ ~(order[k] <= n) => seen[k] = seen[k - 1]
  BY <1>5 DEF Counts
<1> DEFINE Fine(k) == \E I \in SUBSET MealIssues :
                         C[k] = State(free(k), NodeAfter(stops, seen[k]), far[seen[k]], I)
           Good == {k \in 0 .. size : Fine(k)}
<1>7. 0 \in Good
  <2>1. Unchecked(d) = State(free(0), NodeAfter(stops, 0), far[0], {})
    BY <1>3 DEF Unchecked, State, NodeAfter
  <2>2. 0 \in 0 .. size
    BY <1>1
  <2> HIDE DEF free
  <2>3. QED  BY <1>4, <1>6, <2>1, <2>2
<1>8. ASSUME NEW k \in 1 .. size, k - 1 \in Good PROVE k \in Good
  <2>1. k \in 0 .. size /\ k - 1 \in 0 .. size
    BY <1>1
  <2>2. free(k) = T[k].depart
    OBVIOUS
  <2> DEFINE p == free(k - 1)
             node == NodeAfter(stops, seen[k - 1])
             walked == far[seen[k - 1]]
             late == When(T[k].arrive < p, "overlap")
  <2>3. late \subseteq MealIssues
    <3>1. CASE Crossing
      BY <3>1 DEF When, MealIssues
    <3>2. CASE ~Crossing
      <4>1. T[k] \in Spots
        BY <1>1
      <4>2. T[k].arrive >= p
        <5>1. CASE k = 1
          BY <1>1, <5>1
        <5>2. CASE k # 1
          <6>1. k - 1 \in 1 .. size /\ k - 1 < k /\ k - 1 # 0
            BY <1>1, <5>2
          <6>2. T[k - 1].depart <= T[k].arrive
            BY <1>1, <3>2, <6>1
          <6>3. QED  BY <6>1, <6>2
        <5>3. QED  BY <5>1, <5>2
      <4>3. p \in Int
        <5>1. CASE k = 1
          <6>1. Day(d).start \in Int
            BY DeadlineType
          <6>2. QED  BY <5>1, <6>1
        <5>2. CASE k # 1
          <6>1. k - 1 \in 1 .. size /\ k - 1 # 0
            BY <1>1, <5>2
          <6>2. T[k - 1] \in Spots
            BY <1>1, <6>1
          <6>3. QED  BY <6>1, <6>2, SpotType
        <5>3. QED  BY <5>1, <5>2
      <4> HIDE DEF p
      <4>4. ~(T[k].arrive < p)
        BY <4>1, <4>2, <4>3, SpotType
      <4>5. QED  BY <4>4 DEF When
    <3>3. QED  BY <3>1, <3>2
  <2> HIDE DEF free, p, late
  <2>4. PICK I \in SUBSET MealIssues : C[k - 1] = State(p, node, walked, I)
    BY <1>8 DEF p
  <2>5. C[k] = CheckStop(d, State(p, node, walked, I), T[k])
    BY <1>4, <2>4
  <2>6. CASE ~(order[k] <= n)
    <3>1. T[k].poi = Meal /\ seen[k] = seen[k - 1]
      BY <1>15, <1>6, <2>6
    <3>2. C[k] = State(T[k].depart, node, walked, I \cup late)
      <4> DEFINE stop == T[k]
      <4>1. stop.poi = Meal
        BY <3>1
      <4> HIDE DEF stop, node, walked
      <4>2. CheckStop(d, State(p, node, walked, I), stop) =
              State(stop.depart, node, walked, I \cup When(stop.arrive < p, "overlap"))
        BY <4>1 DEF CheckStop, State
      <4>3. QED  BY <2>5, <4>2 DEF late, stop
    <3>3. I \cup late \in SUBSET MealIssues
      BY <2>3
    <3>4. Fine(k)
      BY <2>2, <3>1, <3>2, <3>3
    <3>5. QED  BY <2>1, <3>4
  <2>7. CASE order[k] <= n
    <3> DEFINE i == order[k]
               stop == stops[i]
    <3>1. T[k] = stop /\ seen[k] = seen[k - 1] + 1 /\ i = seen[k]
      BY <1>15, <1>6, <2>7
    <3>2. seen[k] \in 0 .. n /\ seen[k - 1] \in 0 .. n
      BY <1>6, <2>1
    <3>3. i \in 1 .. n /\ seen[k - 1] = i - 1
      BY <1>1, <3>1, <3>2
    <3> HIDE DEF i
    <3>4. /\ stop \in Stops /\ Proper(d, stop)
          /\ far[i] = walked + Walked(Leg(node, stop.poi))
      BY <1>3, <3>3 DEF n
    <3> DEFINE before == State(p, node, walked, I)
               next == CheckStop(d, before, stop)
               hurry == When(stop.arrive < p + Leg(node, stop.poi).time, "travel_overlap")
    <3>5. /\ before.depart = p /\ before.node = node /\ before.walked = walked /\ before.issues = I
      BY DEF State
    <3> HIDE DEF before
    <3>6. next = [depart |-> next.depart, node |-> next.node, walked |-> next.walked, issues |-> next.issues]
      <4>1. stop.poi # Meal
        BY <3>4, PoiIsNoMeal DEF Stops
      <4> HIDE DEF stop
      <4>2. QED  BY <4>1 DEF CheckStop
    <3>7. late = When(stop.arrive < p, "overlap")
      BY <3>1 DEF late
    <3>8. /\ next.depart = stop.depart /\ next.node = stop.poi /\ next.walked = far[i]
          /\ next.issues = I \cup late \cup hurry
      <4> HIDE DEF stop, node, walked
      <4>1. QED  BY <3>4, <3>5, <3>7, VisitChecked
    <3>9. C[k] = next
      BY <2>5, <3>1 DEF before
    <3> HIDE DEF next
    <3>10. hurry \subseteq MealIssues
      BY DEF When, MealIssues
    <3> HIDE DEF hurry, node, walked
    <3>11. NodeAfter(stops, i) = stop.poi
      BY <3>3 DEF NodeAfter
    <3>12. C[k] = State(free(k), NodeAfter(stops, seen[k]), far[seen[k]], I \cup late \cup hurry)
      BY <2>2, <3>1, <3>6, <3>8, <3>9, <3>11 DEF State
    <3>13. I \cup late \cup hurry \in SUBSET MealIssues
      BY <2>3, <3>10
    <3>14. Fine(k)
      BY <3>12, <3>13
    <3>15. QED  BY <2>1, <3>14
  <2>8. QED  BY <2>6, <2>7
<1>9. \A k \in 0 .. size : k \in Good
  <2> HIDE DEF Good
  <2>1. QED  BY <1>1, <1>7, <1>8, UpTo
<1>10. Fine(size)
  BY <1>1, <1>9
<1>11. PICK I \in SUBSET MealIssues : C[size] = State(free(size), NodeAfter(stops, n), far[n], I)
  BY <1>6, <1>10
<1>12. C[size].node = NodeAfter(stops, n) /\ C[size].walked = far[n] /\ C[size].issues \subseteq MealIssues
  BY <1>11 DEF State
<1>13. QED  BY <1>1, <1>12 DEF C, n, T

\* Without meals the day is its visits.
LEMMA NoMeals ==
    ASSUME WellFormed(request), NEW d \in Days, NEW stops, NEW far, Timely(d, stops, far),
           Option.meals = {}
    PROVE  WithMeals(d, stops) = stops
<1> DEFINE n == Len(stops)
           T == WithMeals(d, stops)
<1>1. n \in Nat /\ T \in Seq(Spots) /\ Len(T) = n /\ Size(d, stops) = n
  BY Arranged DEF LaidOut
<1>2. PICK order : Order(d, stops, order)
  BY Arranged
<1>3. /\ order \in [1 .. n -> 1 .. n]
      /\ \A k \in 1 .. n : order[k] <= n => T[k] = stops[order[k]]
  BY <1>1, <1>2 DEF Order, Ascends
<1>4. PICK seen : Counts(seen, order, n, n)
  BY <1>1, <1>2, InTurn DEF Order
<1> DEFINE Good == {k \in 0 .. n : seen[k] = k}
<1>5. 0 \in Good
  BY <1>1, <1>4 DEF Counts
<1>6. ASSUME NEW k \in 1 .. n, k - 1 \in Good PROVE k \in Good
  <2>1. order[k] <= n
    BY <1>1, <1>3
  <2>2. seen[k] = seen[k - 1] + 1
    BY <1>4, <2>1 DEF Counts
  <2>3. QED  BY <1>1, <1>6, <2>2
<1>7. \A k \in 0 .. n : k \in Good
  <2> HIDE DEF Good, n
  <2>1. QED  BY <1>1, <1>5, <1>6, UpTo
<1>8. ASSUME NEW k \in 1 .. n PROVE T[k] = stops[k]
  <2>1. order[k] <= n /\ k \in 0 .. n
    BY <1>1, <1>3
  <2>2. order[k] = seen[k] /\ seen[k] = k
    BY <1>4, <1>7, <2>1 DEF Counts
  <2>3. QED  BY <1>3, <2>1, <2>2
<1>9. stops \in Seq(Spots)
  <2>1. stops \in Seq(Stops)
    BY DEF Timely
  <2>2. QED  BY <2>1, StopsAreSpots, SeqMonotonic
<1> HIDE DEF T
<1>10. T = stops
  BY <1>1, <1>8, <1>9, SeqEqual
<1>11. QED  BY <1>10 DEF T

LEMMA WalkShape ==
    ASSUME WellFormed(request), NEW d \in Days, NEW route, RouteOf(d, route)
    PROVE  DOMAIN Walk(d, route) = {"ok", "now", "node", "walked", "travel", "wait", "stops"}
<1> DEFINE n == Len(route)
<1>1. n \in Nat
  BY DEF RouteOf
<1>2. Walk(d, route) = Walks(d, route)[n]
  BY DEF Walk
<1>3. CASE n = 0
  <2>1. Walk(d, route) = Off(d)
    BY <1>2, <1>3, WalkSteps
  <2>2. QED  BY <2>1 DEF Off
<1>4. CASE n # 0
  <2>1. n \in 1 .. n
    BY <1>1, <1>4
  <2>2. Walk(d, route) = Visit(Walks(d, route)[n - 1], route[n])
    BY <1>1, <1>2, <2>1, WalkSteps
  <2>3. QED  BY <2>2 DEF Visit
<1>5. QED  BY <1>3, <1>4

\* A route that passes _materialize can be walked, and gets home in time and within its budget.
LEMMA AttemptParts ==
    ASSUME WellFormed(request), NEW d \in Days, NEW route, RouteOf(d, route)
    PROVE  /\ Attempt(d, route).stops = Walk(d, route).stops
           /\ Attempt(d, route).ok =>
                Walk(d, route).ok /\ Returns(d, Walk(d, route).node, Walk(d, route).now, Walk(d, route).walked)
<1> DEFINE there == Walk(d, route)
           home == Home(d, there.node)
<1>1. DOMAIN there = {"ok", "now", "node", "walked", "travel", "wait", "stops"}
  BY WalkShape
<1>2. Attempt(d, route) =
        [there EXCEPT !.travel = @ + home.time,
                      !.ok = @ /\ InTime(d, there.now + home.time) /\ InBudget(d, there.walked + Walked(home))]
  BY DEF Attempt
<1> HIDE DEF there
<1>3. Attempt(d, route).stops = there.stops
  BY <1>1, <1>2
<1>4. Attempt(d, route).ok = (there.ok /\ InTime(d, there.now + home.time) /\ InBudget(d, there.walked + Walked(home)))
  BY <1>1, <1>2
<1>5. QED  BY <1>3, <1>4 DEF Returns, there

LEMMA NothingIsTimely ==
    ASSUME NEW d
    PROVE  Timely(d, <<>>, [k \in 0 .. 0 |-> 0]) /\ Len(<<>>) = 0
BY DEF Timely

\* The visits of an emitted day are a walk that gets home, or nothing.
LEMMA EmittedVisits ==
    ASSUME WellFormed(request), NEW d \in Days, NEW route, RouteOf(d, route),
           route # <<>> => Attempt(d, route).ok
    PROVE  LET stops == IF Attempt(d, route).ok THEN Attempt(d, route).stops ELSE <<>> IN
           \E far :
             /\ Timely(d, stops, far)
             /\ Len(stops) = Len(route)
             /\ \A k \in 1 .. Len(route) : stops[k].poi = route[k].poi
             /\ route = <<>> => stops = <<>>
             /\ route # <<>> =>
                  Returns(d, NodeAfter(stops, Len(stops)), FreeAfter(d, stops, Len(stops)), far[Len(stops)])
<1> DEFINE stops == IF Attempt(d, route).ok THEN Attempt(d, route).stops ELSE <<>>
<1>1. Len(route) \in Nat /\ route \in Seq(AllVariants)
  BY DEF RouteOf
<1>2. CASE route = <<>>
  <2>1. Len(route) = 0
    BY <1>2
  <2>2. Walk(d, route) = Off(d)
    BY <2>1, WalkSteps DEF Walk
  <2>3. Attempt(d, route).stops = <<>>
    BY <2>2, AttemptParts DEF Off
  <2>4. stops = <<>>
    BY <2>3
  <2> HIDE DEF stops
  <2>5. Timely(d, stops, [k \in 0 .. 0 |-> 0]) /\ Len(stops) = 0
    BY <2>4, NothingIsTimely
  <2>6. \A k \in 1 .. Len(route) : stops[k].poi = route[k].poi
    BY <2>1
  <2>7. QED  BY <1>2, <2>1, <2>4, <2>5, <2>6 DEF stops
<1>3. CASE route # <<>>
  <2> DEFINE there == Walk(d, route)
             far == [k \in 0 .. Len(route) |-> Walks(d, route)[k].walked]
  <2>1. there.ok /\ Returns(d, there.node, there.now, there.walked) /\ stops = there.stops
    BY <1>3, AttemptParts
  <2> HIDE DEF stops
  <2>2. /\ Timely(d, stops, far)
        /\ Len(stops) = Len(route)
        /\ \A k \in 1 .. Len(route) : stops[k].poi = route[k].poi
        /\ NodeAfter(stops, Len(route)) = there.node
        /\ FreeAfter(d, stops, Len(route)) = there.now
    BY <2>1, WalkIsTimely
  <2>3. far[Len(route)] = there.walked
    BY <1>1 DEF Walk
  <2> HIDE DEF far, there
  <2>4. Returns(d, NodeAfter(stops, Len(stops)), FreeAfter(d, stops, Len(stops)), far[Len(stops)])
    BY <2>1, <2>2, <2>3
  <2>5. QED  BY <1>3, <2>2, <2>4 DEF stops
<1>4. QED  BY <1>2, <1>3

\* What greedy may leave for the check to find on day d, when its route is empty or not.
Allowed(d, route) ==
    (IF route = <<>> THEN CheckDay(d, <<>>) ELSE {})
      \cup (IF Option.meals = {} THEN {} ELSE {"travel_overlap", "missed_deadline"})
      \cup (IF Crossing THEN {"overlap"} ELSE {})

\* A day of timely visits with its meals: the check objects to nothing that is not allowed.
LEMMA DayPasses ==
    ASSUME WellFormed(request), NEW d \in Days, NEW stops, NEW far, Timely(d, stops, far),
           NEW route, route = <<>> => stops = <<>>,
           route # <<>> =>
             Returns(d, NodeAfter(stops, Len(stops)), FreeAfter(d, stops, Len(stops)), far[Len(stops)])
    PROVE  CheckDay(d, WithMeals(d, stops)) \subseteq Allowed(d, route)
<1> DEFINE n == Len(stops)
           T == WithMeals(d, stops)
           last == Checks(d, T)[Len(T)]
           home == Home(d, last.node)
           late == When(Deadline(d) # None /\ last.depart + home.time > Deadline(d), "missed_deadline")
           far2 == When(/\ Day(d).budget # None
                        /\ last.walked + Walked(home) > Day(d).budget + Metres(1), "walking_budget")
<1>1. CASE Option.meals = {}
  <2>1. T = stops
    BY <1>1, NoMeals
  <2>2. CASE route = <<>>
    BY <2>1, <2>2 DEF Allowed
  <2>3. CASE route # <<>>
    <3>1. CheckDay(d, stops) = {}
      BY <2>3, VisitsPass
    <3>2. QED  BY <2>1, <3>1
  <2>4. QED  BY <2>2, <2>3
<1>2. CASE Option.meals # {}
  <2>1. last.node = NodeAfter(stops, n) /\ last.walked = far[n] /\ last.issues \subseteq MealIssues
    BY DayChecked
  <2>2. CheckDay(d, T) = last.issues \cup late \cup far2
    BY DEF CheckDay
  <2>3. last.issues \subseteq Allowed(d, route)
    BY <1>2, <2>1 DEF MealIssues, Allowed
  <2>4. late \subseteq Allowed(d, route)
    BY <1>2 DEF When, Allowed
  <2>5. CASE route = <<>>
    <3>1. stops = <<>> /\ n = 0
      BY <2>5
    <3>2. far[n] = 0 /\ NodeAfter(stops, n) = Hotel
      BY <3>1 DEF Timely, NodeAfter
    <3>3. Checks(d, <<>>)[Len(<<>>)] = Unchecked(d)
      BY CheckSteps
    <3>4. Checks(d, <<>>)[Len(<<>>)].node = Hotel /\ Checks(d, <<>>)[Len(<<>>)].walked = 0
      BY <3>3 DEF Unchecked
    <3>5. last.node = Hotel /\ last.walked = 0
      BY <2>1, <3>2
    <3> HIDE DEF last
    <3>6. far2 \subseteq CheckDay(d, <<>>)
      BY <3>4, <3>5 DEF CheckDay
    <3>7. far2 \subseteq Allowed(d, route)
      BY <2>5, <3>6 DEF Allowed
    <3>8. QED  BY <2>2, <2>3, <2>4, <3>7
  <2>6. CASE route # <<>>
    <3>1. InBudget(d, far[n] + Walked(Home(d, NodeAfter(stops, n))))
      BY <2>6 DEF Returns
    <3>2. /\ far[n] \in Nat
          /\ NodeAfter(stops, n) \in Places
      <4>1. n \in Nat /\ far \in [0 .. n -> Nat]
        BY DEF Timely
      <4>2. n \in 0 .. n
        BY <4>1
      <4>3. QED  BY <4>1, <4>2, FreeType
    <3>3. InBudget(d, last.walked + Walked(home)) /\ last.walked \in Nat /\ Walked(home) \in Nat
      <4>1. Walked(Home(d, NodeAfter(stops, n))) \in Nat
        BY <3>2, HomeType
      <4> HIDE DEF last
      <4>2. QED  BY <2>1, <3>1, <3>2, <4>1
    <3>4. Day(d).budget # None => Day(d).budget \in Int
      BY DeadlineType
    <3> HIDE DEF last, home
    <3>5. ~(/\ Day(d).budget # None
            /\ last.walked + Walked(home) > Day(d).budget + Metres(1))
      BY <3>3, <3>4 DEF InBudget, Metres
    <3>6. far2 = {}
      BY <3>5 DEF When
    <3>7. QED  BY <2>2, <2>3, <2>4, <3>6
  <2>7. QED  BY <2>5, <2>6
<1>3. QED  BY <1>1, <1>2

\* How the visits of an emitted day and its route correspond.
Matches(schedule, route, order, size) ==
    /\ Len(route) \in Nat /\ size \in Nat /\ Len(route) <= size
    /\ schedule \in Seq(Spots) /\ Len(schedule) = size
    /\ Ascends(order, Len(route), size)
    /\ \A k \in 1 .. size :
         /\ order[k] <= Len(route) => schedule[k].poi = route[order[k]].poi
         /\ ~(order[k] <= Len(route)) => schedule[k].poi = Meal

\* The same for a day the engine emits, which holds its route's visits and no other.
LEMMA EmittedDay ==
    ASSUME WellFormed(request), NEW d \in Days, RouteOf(d, routes[d]),
           routes[d] # <<>> => Attempt(d, routes[d]).ok
    PROVE  /\ CheckDay(d, Emitted(d)) \subseteq Allowed(d, routes[d])
           /\ \E order, size : Matches(Emitted(d), routes[d], order, size)
<1> DEFINE route == routes[d]
           stops == IF Attempt(d, route).ok THEN Attempt(d, route).stops ELSE <<>>
<1>1. Emitted(d) = WithMeals(d, stops)
  BY DEF Emitted
<1>2. PICK far :
             /\ Timely(d, stops, far)
             /\ Len(stops) = Len(route)
             /\ \A k \in 1 .. Len(route) : stops[k].poi = route[k].poi
             /\ route = <<>> => stops = <<>>
             /\ route # <<>> =>
                  Returns(d, NodeAfter(stops, Len(stops)), FreeAfter(d, stops, Len(stops)), far[Len(stops)])
  BY EmittedVisits
<1> HIDE DEF stops
<1>3. CheckDay(d, Emitted(d)) \subseteq Allowed(d, route)
  BY <1>1, <1>2, DayPasses
<1>4. LaidOut(d, stops) /\ \E order : Order(d, stops, order)
  BY <1>2, Arranged
<1>5. PICK order : Order(d, stops, order)
  BY <1>4
<1> DEFINE size == Size(d, stops)
           n == Len(route)
<1>6. /\ n \in Nat /\ size \in Nat /\ n <= size
      /\ Emitted(d) \in Seq(Spots) /\ Len(Emitted(d)) = size
  BY <1>1, <1>2, <1>4 DEF LaidOut
<1>7. Ascends(order, n, size)
  BY <1>2, <1>5 DEF Order
<1>8. ASSUME NEW k \in 1 .. size
      PROVE  /\ order[k] <= n => Emitted(d)[k].poi = route[order[k]].poi
             /\ ~(order[k] <= n) => Emitted(d)[k].poi = Meal
  <2>1. order[k] \in 1 .. size
    BY <1>7 DEF Ascends
  <2>2. CASE order[k] <= n
    <3>1. order[k] \in 1 .. n
      BY <1>6, <2>1, <2>2
    <3>2. Emitted(d)[k] = stops[order[k]]
      BY <1>1, <1>2, <1>5, <2>2 DEF Order
    <3>3. stops[order[k]].poi = route[order[k]].poi
      BY <1>2, <3>1
    <3>4. QED  BY <2>2, <3>2, <3>3
  <2>3. CASE ~(order[k] <= n)
    BY <1>1, <1>2, <1>5, <2>3 DEF Order
  <2>4. QED  BY <2>2, <2>3
<1>9. Matches(Emitted(d), route, order, size)
  BY <1>6, <1>7, <1>8 DEF Matches
<1>10. QED  BY <1>3, <1>9

-----------------------------------------------------------------------------
(* A request never changes, nor does what is computed from it. *)

LEMMA SamePoi == ASSUME request' = request, NEW p PROVE Poi(p)' = Poi(p)
BY DEF Poi

LEMMA SameDay == ASSUME request' = request, NEW d PROVE Day(d)' = Day(d)
BY DEF Day

LEMMA SameOption == ASSUME request' = request PROVE Option' = Option
BY DEF Option

LEMMA SamePace == ASSUME request' = request PROVE Pace' = Pace
BY SameOption DEF Pace

LEMMA SameVerified == ASSUME request' = request, NEW p PROVE Verified(p)' <=> Verified(p)
BY SamePoi DEF Verified

LEMMA SameDuration == ASSUME request' = request, NEW p PROVE Duration(p)' = Duration(p)
BY SamePoi, SameOption, SamePace, SameVerified DEF Duration

LEMMA SameHours == ASSUME request' = request, NEW p PROVE NoHours(p)' <=> NoHours(p)
BY SamePoi DEF NoHours

LEMMA SameFits == ASSUME request' = request, NEW v, NEW p PROVE Fits(v, p)' <=> Fits(v, p)
BY SamePoi, SameDuration, SameHours DEF Fits

LEMMA SameDeadline == ASSUME request' = request, NEW d PROVE Deadline(d)' = Deadline(d)
<1>1. DepartureMargin' = DepartureMargin
  BY SameOption DEF DepartureMargin
<1>2. DepartureBuffer' = DepartureBuffer
  BY <1>1, SameOption, SamePace DEF DepartureBuffer
<1>3. QED  BY <1>2, SameDay DEF Deadline

LEMMA SameLeg == ASSUME request' = request, NEW from, NEW to PROVE Leg(from, to)' = Leg(from, to)
BY DEF Leg

LEMMA SameHome == ASSUME request' = request, NEW d, NEW node PROVE Home(d, node)' = Home(d, node)
BY SameDay, SameLeg DEF Home

\* What the lemmas about the steps of a recursion say of the next state.
WalksStep ==
    \A d, route : Len(route) \in Nat =>
        /\ Walks(d, route)[0] = Off(d)
        /\ \A k \in 1 .. Len(route) : \A before :
             before = Walks(d, route)[k - 1] => Walks(d, route)[k] = Visit(before, route[k])

MealsStep ==
    \A d, hours, stops : Len(stops) \in Nat =>
        /\ MealStarts(d, hours, stops)[0] = FirstServed(d, hours)
        /\ \A k \in 1 .. Len(stops) : \A before :
             before = MealStarts(d, hours, stops)[k - 1] =>
               MealStarts(d, hours, stops)[k] = Postponed(before, stops[k])

\* The equations again as closed formulas, so that they hold in the next state as well.
LEMMA WalksStepNow == WalksStep
BY WalkSteps DEF WalksStep

LEMMA MealsStepNow == MealsStep
BY MealSteps DEF MealsStep

LEMMA WalksStepNext == WalksStep'
BY WalksStepNow, PTL

LEMMA MealsStepNext == MealsStep'
BY MealsStepNow, PTL

LEMMA SameVisit == ASSUME request' = request, NEW here, NEW v PROVE Visit(here, v)' = Visit(here, v)
BY SameLeg, SameDuration DEF Visit

\* Nor a walk, an attempt or the meals, which are computed from it.
LEMMA SameWalk ==
    ASSUME request' = request, NEW d, NEW route, Len(route) \in Nat
    PROVE  Walk(d, route)' = Walk(d, route)
<1> DEFINE n == Len(route)
           W == Walks(d, route)
           V == Walks(d, route)'
           Good == {k \in 0 .. n : V[k] = W[k]}
<1>1. /\ W[0] = Off(d)
      /\ \A k \in 1 .. n : \A before : before = W[k - 1] => W[k] = Visit(before, route[k])
  BY WalksStepNow DEF WalksStep
<1>2. /\ V[0] = Off(d)'
      /\ \A k \in 1 .. n : \A before : before = V[k - 1] => V[k] = Visit(before, route[k])'
  BY WalksStepNext DEF WalksStep
<1>3. Off(d)' = Off(d)
  BY SameDay DEF Off
<1>4. Walk(d, route) = W[n] /\ Walk(d, route)' = V[n]
  BY DEF Walk
<1> HIDE DEF W, V
<1>5. 0 \in Good
  BY <1>1, <1>2, <1>3
<1>6. ASSUME NEW k \in 1 .. n, k - 1 \in Good PROVE k \in Good
  <2>1. PICK before : before = W[k - 1]
    OBVIOUS
  <2>2. W[k] = Visit(before, route[k])
    BY <1>1, <2>1
  <2>3. before = V[k - 1]
    BY <1>6, <2>1
  <2>4. V[k] = Visit(before, route[k])'
    BY <1>2, <2>3
  <2>5. V[k] = W[k]
    BY <2>2, <2>4, SameVisit
  <2>6. QED  BY <2>5
<1>7. \A k \in 0 .. n : k \in Good
  <2> HIDE DEF Good, n
  <2>1. n \in Nat
    BY DEF n
  <2>2. QED  BY <1>5, <1>6, <2>1, UpTo
<1>8. V[n] = W[n]
  BY <1>7
<1>9. QED  BY <1>4, <1>8

\* A walk taken home.
Homewards(d, there) ==
    [there EXCEPT !.travel = @ + Home(d, there.node).time,
                  !.ok = @ /\ InTime(d, there.now + Home(d, there.node).time)
                           /\ InBudget(d, there.walked + Walked(Home(d, there.node)))]

AttemptsStep ==
    \A d, route, there : there = Walk(d, route) => Attempt(d, route) = Homewards(d, there)

LEMMA AttemptsStepNow == AttemptsStep
BY DEF AttemptsStep, Attempt, Homewards

LEMMA AttemptsStepNext == AttemptsStep'
BY AttemptsStepNow, PTL

LEMMA SameAttempt ==
    ASSUME request' = request, NEW d, NEW route, Len(route) \in Nat
    PROVE  Attempt(d, route)' = Attempt(d, route)
<1>1. PICK there : there = Walk(d, route)
  OBVIOUS
<1>2. there = Walk(d, route)'
  BY <1>1, SameWalk
<1>3. \A t : InTime(d, t)' <=> InTime(d, t)
  BY SameDeadline DEF InTime
<1>4. \A meters : InBudget(d, meters)' <=> InBudget(d, meters)
  BY SameDay DEF InBudget
<1>5. Homewards(d, there)' = Homewards(d, there)
  BY <1>3, <1>4, SameHome DEF Homewards
<1>6. Attempt(d, route) = Homewards(d, there)
  BY <1>1, AttemptsStepNow DEF AttemptsStep
<1>7. Attempt(d, route)' = Homewards(d, there)'
  BY <1>2, AttemptsStepNext DEF AttemptsStep
<1>8. QED  BY <1>5, <1>6, <1>7

LEMMA SameMealStart ==
    ASSUME request' = request, NEW d, NEW hours, NEW stops, Len(stops) \in Nat
    PROVE  MealStart(d, hours, stops)' = MealStart(d, hours, stops)
<1> DEFINE n == Len(stops)
           W == MealStarts(d, hours, stops)
           V == MealStarts(d, hours, stops)'
           Good == {k \in 0 .. n : V[k] = W[k]}
<1>1. /\ W[0] = FirstServed(d, hours)
      /\ \A k \in 1 .. n : \A before : before = W[k - 1] => W[k] = Postponed(before, stops[k])
  BY MealsStepNow DEF MealsStep
<1>2. /\ V[0] = FirstServed(d, hours)'
      /\ \A k \in 1 .. n : \A before : before = V[k - 1] => V[k] = Postponed(before, stops[k])'
  BY MealsStepNext DEF MealsStep
<1>3. FirstServed(d, hours)' = FirstServed(d, hours)
  BY SameDay DEF FirstServed, Midnight
<1>4. \A before, stop : Postponed(before, stop)' = Postponed(before, stop)
  BY SameOption DEF Postponed
<1>5. MealStart(d, hours, stops) = W[n] /\ MealStart(d, hours, stops)' = V[n]
  BY DEF MealStart
<1> HIDE DEF W, V
<1>6. 0 \in Good
  BY <1>1, <1>2, <1>3
<1>7. ASSUME NEW k \in 1 .. n, k - 1 \in Good PROVE k \in Good
  <2>1. PICK before : before = W[k - 1]
    OBVIOUS
  <2>2. W[k] = Postponed(before, stops[k])
    BY <1>1, <2>1
  <2>3. before = V[k - 1]
    BY <1>7, <2>1
  <2>4. V[k] = Postponed(before, stops[k])'
    BY <1>2, <2>3
  <2>5. V[k] = W[k]
    BY <1>4, <2>2, <2>4
  <2>6. QED  BY <2>5
<1>8. \A k \in 0 .. n : k \in Good
  <2> HIDE DEF Good, n
  <2>1. n \in Nat
    BY DEF n
  <2>2. QED  BY <1>6, <1>7, <2>1, UpTo
<1>9. V[n] = W[n]
  BY <1>8
<1>10. QED  BY <1>5, <1>9

\* The meals for which there is time, and how they are served.
InHours(d, stops) ==
    {hours \in Option.meals :
       MealStart(d, hours, stops) + Minutes(Option.mealTime) <= Midnight(d) + At(hours[2])}

Serving(d, stops, served) ==
    LET begin == [i \in DOMAIN served |-> MealStart(d, served[i], stops)]
    IN  [i \in DOMAIN served |-> Stop(Meal, begin[i], begin[i] + Minutes(Option.mealTime))]

ServingStep ==
    /\ \A d, stops, hours : hours = InHours(d, stops) => Meals(d, stops) = Serving(d, stops, SetToSeq(hours))
    /\ \A d, route, there :
         route = routes[d] /\ there = Attempt(d, route) =>
           Emitted(d) = WithMeals(d, IF there.ok THEN there.stops ELSE <<>>)

LEMMA ServingStepNow == ServingStep
<1>1. ASSUME NEW d, NEW stops, NEW hours, hours = InHours(d, stops)
      PROVE  Meals(d, stops) = Serving(d, stops, SetToSeq(hours))
  BY <1>1 DEF Meals, Serving, InHours
<1>2. ASSUME NEW d, NEW route, NEW there, route = routes[d], there = Attempt(d, route)
      PROVE  Emitted(d) = WithMeals(d, IF there.ok THEN there.stops ELSE <<>>)
  BY <1>2 DEF Emitted
<1>3. QED  BY <1>1, <1>2 DEF ServingStep

LEMMA ServingStepNext == ServingStep'
BY ServingStepNow, PTL

LEMMA SameMeals ==
    ASSUME request' = request, NEW d, NEW stops, Len(stops) \in Nat
    PROVE  Meals(d, stops)' = Meals(d, stops)
<1>1. \A hours : MealStart(d, hours, stops)' = MealStart(d, hours, stops)
  BY SameMealStart
<1>2. Midnight(d)' = Midnight(d)
  BY SameDay DEF Midnight
<1>3. InHours(d, stops)' = InHours(d, stops)
  BY <1>1, <1>2, SameOption DEF InHours
<1>4. PICK hours : hours = InHours(d, stops)
  OBVIOUS
<1>5. Serving(d, stops, SetToSeq(hours))' = Serving(d, stops, SetToSeq(hours))
  BY <1>1, SameOption DEF Serving
<1>6. Meals(d, stops) = Serving(d, stops, SetToSeq(hours))
  BY <1>4, ServingStepNow DEF ServingStep
<1>7. Meals(d, stops)' = Serving(d, stops, SetToSeq(hours))'
  BY <1>3, <1>4, ServingStepNext DEF ServingStep
<1>8. QED  BY <1>5, <1>6, <1>7

\* A day is emitted the same as long as its route stays.
LEMMA SameEmitted ==
    ASSUME WellFormed(request), request' = request, NEW d \in Days, routes'[d] = routes[d],
           RouteOf(d, routes[d]), routes[d] # <<>> => Attempt(d, routes[d]).ok
    PROVE  Emitted(d)' = Emitted(d)
<1>1. PICK route : route = routes[d]
  OBVIOUS
<1>2. Len(route) \in Nat
  BY <1>1 DEF RouteOf
<1>3. PICK there : there = Attempt(d, route)
  OBVIOUS
<1> DEFINE stops == IF there.ok THEN there.stops ELSE <<>>
<1>4. Emitted(d) = WithMeals(d, stops)
  BY <1>1, <1>3, ServingStepNow DEF ServingStep
<1>5. there = Attempt(d, route)'
  BY <1>2, <1>3, SameAttempt
<1>6. Emitted(d)' = WithMeals(d, stops)'
  BY <1>1, <1>5, ServingStepNext DEF ServingStep
<1>7. Len(stops) \in Nat
  <2>1. PICK far : Timely(d, stops, far)
    BY <1>1, <1>3, EmittedVisits
  <2> HIDE DEF stops
  <2>2. QED  BY <2>1 DEF Timely
<1> HIDE DEF stops
<1>8. WithMeals(d, stops)' = WithMeals(d, stops)
  BY <1>7, SameMeals DEF WithMeals
<1>9. QED  BY <1>4, <1>6, <1>8

-----------------------------------------------------------------------------
(* Sequences the moves make. *)

\* Inserting an element, position by position.
LEMMA InsertedType ==
    ASSUME NEW S, NEW s \in Seq(S), NEW e \in S, NEW i \in 1 .. Len(s) + 1
    PROVE  LET t == InsertAt(s, i, e) IN
           /\ t \in Seq(S) /\ Len(t) = Len(s) + 1
           /\ \A k \in 1 .. Len(t) : t[k] = IF k < i THEN s[k] ELSE IF k = i THEN e ELSE s[k - 1]
<1> DEFINE n == Len(s)
           a == SubSeq(s, 1, i - 1)
           b == SubSeq(s, i, n)
           one == <<e>>
           t == InsertAt(s, i, e)
<1>1. n \in Nat /\ i \in Int /\ 1 <= i /\ i <= n + 1
  OBVIOUS
<1>2. a \in Seq(S) /\ Len(a) = i - 1 /\ \A k \in 1 .. i - 1 : a[k] = s[k]
  <2>1. \A k \in 1 .. i - 1 : s[k] \in S
    BY <1>1
  <2>2. /\ a \in Seq(S) /\ Len(a) = IF 1 <= i - 1 THEN (i - 1) - 1 + 1 ELSE 0
        /\ \A k \in 1 .. (i - 1) - 1 + 1 : a[k] = s[1 + k - 1]
    BY <1>1, <2>1, SubSeqProperties
  <2> HIDE DEF a
  <2>3. Len(a) = i - 1
    BY <1>1, <2>2
  <2>4. ASSUME NEW k \in 1 .. i - 1 PROVE a[k] = s[k]
    <3>1. k \in 1 .. (i - 1) - 1 + 1 /\ 1 + k - 1 = k
      BY <1>1
    <3>2. QED  BY <2>2, <3>1
  <2>5. QED  BY <2>2, <2>3, <2>4
<1>3. b \in Seq(S) /\ Len(b) = n - i + 1 /\ \A k \in 1 .. n - i + 1 : b[k] = s[i + k - 1]
  <2>1. \A k \in i .. n : s[k] \in S
    BY <1>1
  <2>2. /\ b \in Seq(S) /\ Len(b) = IF i <= n THEN n - i + 1 ELSE 0
        /\ \A k \in 1 .. n - i + 1 : b[k] = s[i + k - 1]
    BY <1>1, <2>1, SubSeqProperties
  <2> HIDE DEF b, n
  <2>3. Len(b) = n - i + 1
    BY <1>1, <2>2
  <2>4. QED  BY <2>2, <2>3
<1>4. one \in Seq(S) /\ Len(one) = 1 /\ one[1] = e
  OBVIOUS
<1>5. t = (a \o one) \o b
  BY DEF InsertAt
<1> DEFINE front == a \o one
<1> HIDE DEF a, b, one, t, n
<1>6. /\ front \in Seq(S) /\ Len(front) = i
      /\ \A k \in 1 .. i : front[k] = IF k <= i - 1 THEN a[k] ELSE one[k - (i - 1)]
  <2>1. /\ front \in Seq(S) /\ Len(front) = Len(a) + Len(one)
        /\ \A k \in 1 .. Len(a) + Len(one) : front[k] = IF k <= Len(a) THEN a[k] ELSE one[k - Len(a)]
    BY <1>2, <1>4, ConcatProperties
  <2> HIDE DEF front
  <2>2. Len(a) + Len(one) = i
    BY <1>1, <1>2, <1>4
  <2>3. QED  BY <1>2, <2>1, <2>2
<1> HIDE DEF front
<1>7. /\ t \in Seq(S) /\ Len(t) = n + 1
      /\ \A k \in 1 .. n + 1 : t[k] = IF k <= i THEN front[k] ELSE b[k - i]
  <2>1. t = front \o b
    BY <1>5 DEF front
  <2>2. /\ t \in Seq(S) /\ Len(t) = Len(front) + Len(b)
        /\ \A k \in 1 .. Len(front) + Len(b) : t[k] = IF k <= Len(front) THEN front[k] ELSE b[k - Len(front)]
    BY <1>3, <1>6, <2>1, ConcatProperties
  <2>3. Len(front) + Len(b) = n + 1
    BY <1>1, <1>3, <1>6
  <2>4. QED  BY <1>6, <2>2, <2>3
<1>8. ASSUME NEW k \in 1 .. n + 1
      PROVE  t[k] = IF k < i THEN s[k] ELSE IF k = i THEN e ELSE s[k - 1]
  <2>1. CASE k < i
    <3>1. k \in 1 .. i - 1 /\ k \in 1 .. i /\ k <= i /\ k <= i - 1
      BY <1>1, <2>1
    <3>2. t[k] = s[k]
      BY <1>2, <1>6, <1>7, <3>1
    <3>3. QED  BY <2>1, <3>2
  <2>2. CASE k = i
    <3>1. k \in 1 .. i /\ k <= i /\ ~(k <= i - 1) /\ k - (i - 1) = 1 /\ ~(k < i)
      BY <1>1, <2>2
    <3>2. t[k] = e
      BY <1>4, <1>6, <1>7, <3>1
    <3>3. QED  BY <2>2, <3>1, <3>2
  <2>3. CASE k > i
    <3>1. ~(k <= i) /\ k - i \in 1 .. n - i + 1 /\ i + (k - i) - 1 = k - 1 /\ ~(k < i) /\ k # i
      BY <1>1, <2>3
    <3>2. t[k] = s[k - 1]
      BY <1>3, <1>7, <3>1
    <3>3. QED  BY <3>1, <3>2
  <2>4. QED  BY <1>1, <2>1, <2>2, <2>3
<1>9. QED  BY <1>7, <1>8 DEF t, n

\* Where the stop at position k of a turned route stood before.
Turned(left, right, k) == IF k \in left .. right THEN left + right - k ELSE k

\* Turning a part of a route around, position by position; turned twice it is as before.
LEMMA ReversedType ==
    ASSUME NEW S, NEW s \in Seq(S), NEW left \in 1 .. Len(s), NEW right \in 1 .. Len(s), left < right
    PROVE  LET t == Reversed(s, left, right) IN
           /\ t \in Seq(S) /\ Len(t) = Len(s)
           /\ \A k \in 1 .. Len(s) :
                /\ Turned(left, right, k) \in 1 .. Len(s)
                /\ t[k] = s[Turned(left, right, k)]
                /\ Turned(left, right, Turned(left, right, k)) = k
<1> DEFINE n == Len(s)
           t == Reversed(s, left, right)
<1>1. n \in Nat /\ DOMAIN s = 1 .. n
  OBVIOUS
<1>2. t = [k \in 1 .. n |-> s[Turned(left, right, k)]]
  BY <1>1 DEF Reversed, Turned
<1>3. ASSUME NEW k \in 1 .. n
      PROVE  Turned(left, right, k) \in 1 .. n /\ Turned(left, right, Turned(left, right, k)) = k
  <2>1. CASE k \in left .. right
    <3>1. Turned(left, right, k) = left + right - k
      BY <2>1 DEF Turned
    <3>2. left + right - k \in left .. right
      BY <1>1, <2>1
    <3>3. Turned(left, right, left + right - k) = left + right - (left + right - k)
      BY <3>2 DEF Turned
    <3>4. QED  BY <1>1, <2>1, <3>1, <3>2, <3>3
  <2>2. CASE k \notin left .. right
    BY <2>2 DEF Turned
  <2>3. QED  BY <2>1, <2>2
<1>4. \A k \in 1 .. n : s[Turned(left, right, k)] \in S
  BY <1>3
<1> HIDE DEF t, n
<1>5. t \in Seq(S) /\ Len(t) = n
  BY <1>1, <1>2, <1>4
<1>6. \A k \in 1 .. n : t[k] = s[Turned(left, right, k)]
  BY <1>2
<1>7. QED  BY <1>3, <1>5, <1>6 DEF t, n

\* The elements of a finite set in any order.
LEMMA AnyOrder ==
    ASSUME NEW S, IsFiniteSet(S), NEW s \in SetToSeqs(S)
    PROVE  /\ s \in Seq(S)
           /\ \A i, j \in 1 .. Len(s) : s[i] = s[j] => i = j
           /\ \A x \in S : \E i \in 1 .. Len(s) : s[i] = x
<1> DEFINE n == Cardinality(S)
<1>1. n \in Nat
  BY FS_CardinalityType
<1>2. s \in [1 .. n -> S] /\ \A i, j \in 1 .. n : i # j => s[i] # s[j]
  BY DEF SetToSeqs
<1> HIDE DEF n
<1>3. s \in Injection(1 .. n, S)
  BY <1>2 DEF Injection, IsInjective
<1>4. IsFiniteSet(1 .. n) /\ Cardinality(1 .. n) = n
  BY <1>1, FS_Interval
<1>5. s \in Surjection(1 .. n, S)
  BY <1>3, <1>4, FS_Injection DEF n
<1>6. s \in Seq(S) /\ Len(s) = n
  BY <1>1, <1>2
<1>7. \A x \in S : \E i \in 1 .. n : s[i] = x
  BY <1>5 DEF Surjection
<1>8. QED  BY <1>2, <1>6, <1>7

-----------------------------------------------------------------------------
(* The routes of the greedy engine: every POI stands at most once. *)

\* No POI stands at two places of some routes.
OnceIn(some) ==
    \A d, e \in Days : \A i \in 1 .. Len(some[d]), j \in 1 .. Len(some[e]) :
        some[d][i].poi = some[e][j].poi => d = e /\ i = j

PlacedIn(some, p) == \E d \in Days : \E i \in 1 .. Len(some[d]) : some[d][i].poi = p

\* The stop at place k of the new route stood at place from[k] of the old one, or
\* is one of the fresh POIs.
MovedFrom(old, new, from, fresh) ==
    /\ \A k \in 1 .. Len(new) :
         \/ from[k] \in 1 .. Len(old) /\ new[k].poi = old[from[k]].poi
         \/ from[k] = 0 /\ new[k].poi \in fresh
    /\ \A j, k \in 1 .. Len(new) : from[j] = from[k] => j = k
    /\ \A m \in 1 .. Len(old) : \E k \in 1 .. Len(new) : from[k] = m
    /\ \A p \in fresh : \E k \in 1 .. Len(new) : from[k] = 0 /\ new[k].poi = p

\* A route replaced by one whose stops were in it, each once, or are new to all routes: no POI
\* stands twice, and the new ones have joined those that stand somewhere.
LEMMA Moved ==
    ASSUME NEW S, NEW old \in [Days -> S], OnceIn(old), NEW e \in Days, NEW new, NEW from, NEW fresh,
           MovedFrom(old[e], new, from, fresh), \A p \in fresh : ~PlacedIn(old, p)
    PROVE  LET some == [old EXCEPT ![e] = new] IN
           /\ OnceIn(some)
           /\ \A p : PlacedIn(some, p) <=> PlacedIn(old, p) \/ p \in fresh
<1> DEFINE some == [old EXCEPT ![e] = new]
<1>1. some[e] = new /\ \A d \in Days : d # e => some[d] = old[d]
  OBVIOUS
<1> HIDE DEF some
<1>2. ASSUME NEW d \in Days, NEW i \in 1 .. Len(some[d]), NEW j \in 1 .. Len(some[e]),
             some[d][i].poi = some[e][j].poi
      PROVE  d = e /\ i = j
  <2>1. CASE from[j] = 0
    <3>1. some[e][j].poi \in fresh
      <4>1. ~(0 \in 1 .. Len(old[e]))
        OBVIOUS
      <4>2. QED  BY <1>1, <2>1, <4>1 DEF MovedFrom
    <3>2. d = e
      BY <1>1, <1>2, <3>1 DEF PlacedIn
    <3>3. from[i] = 0
      <4>1. i \in 1 .. Len(new) /\ new[i].poi \in fresh
        BY <1>1, <1>2, <3>1, <3>2
      <4>2. ~(from[i] \in 1 .. Len(old[e]) /\ new[i].poi = old[e][from[i]].poi)
        BY <4>1 DEF PlacedIn
      <4>3. QED  BY <4>1, <4>2 DEF MovedFrom
    <3>4. QED  BY <1>1, <2>1, <3>2, <3>3 DEF MovedFrom
  <2>2. CASE from[j] # 0
    <3>1. from[j] \in 1 .. Len(old[e]) /\ some[e][j].poi = old[e][from[j]].poi
      BY <1>1, <2>2 DEF MovedFrom
    <3>2. CASE d # e
      BY <1>1, <1>2, <3>1, <3>2 DEF OnceIn
    <3>3. CASE d = e
      <4>1. from[i] \in 1 .. Len(old[e]) /\ some[e][i].poi = old[e][from[i]].poi
        BY <1>1, <1>2, <3>1, <3>3 DEF MovedFrom, PlacedIn
      <4>2. from[i] = from[j]
        BY <1>2, <3>1, <3>3, <4>1 DEF OnceIn
      <4>3. QED  BY <1>1, <3>3, <4>2 DEF MovedFrom
    <3>4. QED  BY <3>2, <3>3
  <2>3. QED  BY <2>1, <2>2
<1>3. OnceIn(some)
  <2> SUFFICES ASSUME NEW d \in Days, NEW g \in Days, NEW i \in 1 .. Len(some[d]),
                      NEW j \in 1 .. Len(some[g]), some[d][i].poi = some[g][j].poi
               PROVE  d = g /\ i = j
    BY DEF OnceIn
  <2>1. CASE g = e
    BY <1>2, <2>1
  <2>2. CASE d = e
    BY <1>2, <2>2
  <2>3. CASE d # e /\ g # e
    BY <1>1, <2>3 DEF OnceIn
  <2>4. QED  BY <2>1, <2>2, <2>3
<1>4. ASSUME NEW p, PlacedIn(some, p) PROVE PlacedIn(old, p) \/ p \in fresh
  <2>1. PICK d \in Days : \E i \in 1 .. Len(some[d]) : some[d][i].poi = p
    BY <1>4 DEF PlacedIn
  <2>2. PICK i \in 1 .. Len(some[d]) : some[d][i].poi = p
    BY <2>1
  <2>3. CASE d = e
    BY <1>1, <2>2, <2>3 DEF MovedFrom, PlacedIn
  <2>4. CASE d # e
    BY <1>1, <2>2, <2>4 DEF PlacedIn
  <2>5. QED  BY <2>3, <2>4
<1>5. ASSUME NEW p, PlacedIn(old, p) PROVE PlacedIn(some, p)
  <2>1. PICK d \in Days : \E i \in 1 .. Len(old[d]) : old[d][i].poi = p
    BY <1>5 DEF PlacedIn
  <2>2. PICK i \in 1 .. Len(old[d]) : old[d][i].poi = p
    BY <2>1
  <2>3. CASE d = e
    <3>1. PICK k \in 1 .. Len(new) : from[k] = i
      BY <2>2, <2>3 DEF MovedFrom
    <3>2. new[k].poi = old[e][i].poi
      <4>1. i # 0
        OBVIOUS
      <4>2. QED  BY <3>1, <4>1 DEF MovedFrom
    <3>3. QED  BY <1>1, <2>2, <2>3, <3>2 DEF PlacedIn
  <2>4. CASE d # e
    BY <1>1, <2>2, <2>4 DEF PlacedIn
  <2>5. QED  BY <2>3, <2>4
<1>6. ASSUME NEW p \in fresh PROVE PlacedIn(some, p)
  BY <1>1 DEF MovedFrom, PlacedIn
<1>7. QED  BY <1>3, <1>4, <1>5, <1>6 DEF some

(* The two ways in which a route changes. *)

\* An insertion moves the stops behind it and adds one.
LEMMA InsertMoves ==
    ASSUME NEW S, NEW old \in Seq(S), NEW v \in S, NEW i \in 1 .. Len(old) + 1
    PROVE  LET new == InsertAt(old, i, v) IN
           MovedFrom(old, new,
                     [k \in 1 .. Len(new) |-> IF k < i THEN k ELSE IF k = i THEN 0 ELSE k - 1], {v.poi})
<1> DEFINE n == Len(old)
           new == InsertAt(old, i, v)
<1>1. /\ Len(new) = n + 1 /\ n \in Nat
      /\ \A k \in 1 .. n + 1 : new[k] = IF k < i THEN old[k] ELSE IF k = i THEN v ELSE old[k - 1]
  BY InsertedType
<1> DEFINE from == [k \in 1 .. Len(new) |-> IF k < i THEN k ELSE IF k = i THEN 0 ELSE k - 1]
<1> HIDE DEF new
<1>2. i \in 1 .. n + 1
  OBVIOUS
<1> HIDE DEF n
<1>3. \A k \in 1 .. n + 1 : from[k] = IF k < i THEN k ELSE IF k = i THEN 0 ELSE k - 1
  BY <1>1
<1> HIDE DEF from
<1>4. ASSUME NEW k \in 1 .. n + 1
      PROVE  \/ from[k] \in 1 .. n /\ new[k].poi = old[from[k]].poi
             \/ from[k] = 0 /\ new[k].poi \in {v.poi}
  <2>1. CASE k < i
    BY <1>1, <1>2, <1>3, <2>1
  <2>2. CASE k = i
    BY <1>1, <1>2, <1>3, <2>2
  <2>3. CASE k > i
    BY <1>1, <1>2, <1>3, <2>3
  <2>4. QED  BY <1>2, <2>1, <2>2, <2>3
<1>5. \A j, k \in 1 .. n + 1 : from[j] = from[k] => j = k
  BY <1>1, <1>2, <1>3
<1>6. ASSUME NEW m \in 1 .. n PROVE \E k \in 1 .. n + 1 : from[k] = m
  <2>1. CASE m < i
    BY <1>1, <1>2, <1>3, <2>1
  <2>2. CASE m >= i
    <3>1. m + 1 \in 1 .. n + 1 /\ ~(m + 1 < i) /\ m + 1 # i /\ (m + 1) - 1 = m
      BY <1>1, <1>2, <2>2
    <3>2. from[m + 1] = m
      BY <1>3, <3>1
    <3>3. QED  BY <3>1, <3>2
  <2>3. QED  BY <1>2, <2>1, <2>2
<1>7. from[i] = 0 /\ new[i] = v
  BY <1>1, <1>2, <1>3
<1>8. MovedFrom(old, new, from, {v.poi})
  BY <1>1, <1>2, <1>4, <1>5, <1>6, <1>7 DEF MovedFrom, n
<1>9. QED  BY <1>8 DEF from, new

\* A turn of 2-opt moves stops and adds none.
LEMMA TurnMoves ==
    ASSUME NEW S, NEW old \in Seq(S), NEW left \in 1 .. Len(old), NEW right \in 1 .. Len(old), left < right
    PROVE  MovedFrom(old, Reversed(old, left, right), [k \in 1 .. Len(old) |-> Turned(left, right, k)], {})
<1> DEFINE n == Len(old)
           new == Reversed(old, left, right)
           from == [k \in 1 .. Len(old) |-> Turned(left, right, k)]
<1>1. /\ Len(new) = n /\ n \in Nat
      /\ \A k \in 1 .. n :
           /\ Turned(left, right, k) \in 1 .. n
           /\ new[k] = old[Turned(left, right, k)]
           /\ Turned(left, right, Turned(left, right, k)) = k
  BY ReversedType
<1>2. \A k \in 1 .. n : from[k] = Turned(left, right, k)
  OBVIOUS
<1> HIDE DEF new, n, from
<1>3. \A k \in 1 .. n : from[k] \in 1 .. n /\ new[k].poi = old[from[k]].poi /\ from[from[k]] = k
  BY <1>1, <1>2
<1>4. \A j, k \in 1 .. n : from[j] = from[k] => j = k
  BY <1>3
<1>5. \A m \in 1 .. n : \E k \in 1 .. n : from[k] = m
  BY <1>3
<1>6. MovedFrom(old, new, from, {})
  BY <1>1, <1>3, <1>4, <1>5 DEF MovedFrom, n
<1>7. QED  BY <1>6 DEF new, from

-----------------------------------------------------------------------------
(* The inductive invariant of the greedy engine. *)

VariantsFit == \A p \in Pois : \A v \in variants[p] : Fits(v, p)

\* Each day's route can be walked, home included.
RoutesFit ==
    /\ routes \in [Days -> Seq(AllVariants)]
    /\ \A d \in Days : \A route : route = routes[d] =>
         RouteOf(d, route) /\ (route # <<>> => Attempt(d, route).ok)

TodoOnce == todo \in Seq(Pois) /\ \A i, j \in 1 .. Len(todo) : todo[i] = todo[j] => i = j

Waiting(p) == \E i \in 1 .. Len(todo) : todo[i] = p

\* Every POI is placed, waiting or skipped: one of them, once started.
Parted ==
    /\ OnceIn(routes)
    /\ skipped \subseteq {p \in Pois : ~Poi(p).mustDo}
    /\ \A p \in Pois :
         /\ ~(PlacedIn(routes, p) /\ Waiting(p))
         /\ ~(PlacedIn(routes, p) /\ p \in skipped)
         /\ ~(Waiting(p) /\ p \in skipped)
         /\ stage # "new" => PlacedIn(routes, p) \/ Waiting(p) \/ p \in skipped

Staged ==
    /\ stage = "new" => routes = NoRoutes /\ todo = <<>> /\ skipped = {}
    /\ stage = "improving" => todo = <<>>
    /\ stage # "answered" => answer = NoAnswer
    /\ answer.status = "feasible" => todo = <<>> /\ \A d \in Days : answer.days[d] = Emitted(d)

GreedyPart == VariantsFit /\ RoutesFit /\ TodoOnce /\ Parted /\ Staged

Asked == WellFormed(request) /\ engine \in {"greedy", "routing"}

GreedyInv == Asked /\ (engine = "greedy" => GreedyPart)

LEMMA SameRouteOf ==
    ASSUME request' = request, variants' = variants, NEW d, NEW route
    PROVE  RouteOf(d, route)' <=> RouteOf(d, route)
<1>1. AllVariants' = AllVariants
  BY DEF AllVariants
<1>2. \A v : Usable(v)' <=> Usable(v)
  BY SameFits DEF Usable
<1>3. QED  BY <1>1, <1>2 DEF RouteOf

LEMMA SameVariantsFit ==
    ASSUME request' = request, variants' = variants, VariantsFit
    PROVE  VariantsFit'
BY SameFits DEF VariantsFit

LEMMA SameAsked == ASSUME request' = request, engine' = engine, Asked PROVE Asked'
<1>1. WellFormed(request)'
  BY DEF Asked, WellFormed
<1>2. QED  BY <1>1 DEF Asked

LEMMA EmptyRoute == ASSUME NEW d PROVE RouteOf(d, <<>>)
BY DEF RouteOf

LEMMA NothingRouted == ASSUME NEW d, NEW route, route = <<>> PROVE RouteOf(d, route)'
<1>1. Len(route) = 0 /\ route \in Seq(AllVariants')
  OBVIOUS
<1>2. QED  BY <1>1 DEF RouteOf

\* Nothing is routed at the start.
LEMMA GreedyStarts == Init => GreedyInv
<1> SUFFICES ASSUME Init PROVE GreedyInv
  OBVIOUS
<1>1. Asked
  <2>1. engine \in {"greedy", "routing"} /\ request \in Requests[engine]
    BY DEF Init
  <2>2. WellFormed(request)
    BY <2>1, RequestsAssumption
  <2>3. QED  BY <2>1, <2>2 DEF Asked
<1>2. /\ variants = [p \in Pois |-> {}] /\ routes = NoRoutes /\ todo = <<>> /\ skipped = {}
      /\ stage = "new" /\ answer = NoAnswer
  BY DEF Init
<1>3. VariantsFit
  BY <1>2 DEF VariantsFit
<1>4. \A d \in Days : routes[d] = <<>>
  BY <1>2 DEF NoRoutes
<1>5. RoutesFit
  <2>1. routes \in [Days -> Seq(AllVariants)]
    BY <1>2 DEF NoRoutes
  <2>2. ASSUME NEW d \in Days, NEW route, route = routes[d]
        PROVE  RouteOf(d, route) /\ (route # <<>> => Attempt(d, route).ok)
    BY <1>4, <2>2, EmptyRoute
  <2>3. QED  BY <2>1, <2>2 DEF RoutesFit
<1>6. TodoOnce
  BY <1>2 DEF TodoOnce
<1>7. Parted
  BY <1>2, <1>4 DEF Parted, OnceIn, PlacedIn, Waiting
<1>8. Staged
  <2>1. answer.status = "none"
    BY <1>2 DEF NoAnswer
  <2>2. QED  BY <1>2, <2>1 DEF Staged
<1>9. QED  BY <1>1, <1>3, <1>5, <1>6, <1>7, <1>8 DEF GreedyInv, GreedyPart

\* expand_variants makes variants that fit, and both sorted halves together ask for each POI once.
LEMMA StartGreedyKeeps == GreedyInv /\ StartGreedy => GreedyInv'
<1> SUFFICES ASSUME GreedyInv, StartGreedy PROVE GreedyInv'
  OBVIOUS
<1>1. /\ engine = "greedy" /\ stage = "new" /\ stage' = "building"
      /\ variants' = [p \in Pois |-> Variants(p)]
      /\ request' = request /\ engine' = engine /\ routes' = routes
      /\ skipped' = skipped /\ answer' = answer
  BY DEF StartGreedy
<1>2. WellFormed(request) /\ GreedyPart
  BY <1>1 DEF GreedyInv, Asked
<1>3. Asked'
  BY <1>1, SameAsked DEF GreedyInv
<1>4. VariantsFit'
  <2>1. ASSUME NEW p \in Pois, NEW v \in variants'[p] PROVE Fits(v, p)'
    <3>1. v \in Variants(p)
      BY <1>1
    <3>2. Fits(v, p)
      BY <1>2, <3>1, VariantFits
    <3>3. QED  BY <1>1, <3>2, SameFits
  <2>2. QED  BY <2>1 DEF VariantsFit
<1>5. routes = NoRoutes /\ todo = <<>> /\ skipped = {} /\ answer = NoAnswer
  BY <1>1, <1>2 DEF GreedyPart, Staged
<1>6. \A d \in Days : routes'[d] = <<>>
  BY <1>1, <1>5 DEF NoRoutes
<1>7. RoutesFit'
  <2>1. routes' \in [Days -> Seq(AllVariants)']
    BY <1>1, <1>5 DEF NoRoutes
  <2>2. ASSUME NEW d \in Days, NEW route, route = routes'[d]
        PROVE  RouteOf(d, route)' /\ (route # <<>> => Attempt(d, route)'.ok)
    <3>1. route = <<>>
      BY <1>6, <2>2
    <3>2. RouteOf(d, route)'
      BY <3>1, NothingRouted
    <3>3. QED  BY <3>1, <3>2
  <2>3. QED  BY <2>1, <2>2 DEF RoutesFit
<1> DEFINE musts == {p \in Pois : Poi(p).mustDo}
           others == {p \in Pois : ~Poi(p).mustDo}
<1>8. PICK first, rest : /\ first \in SetToSeqs(musts) /\ rest \in SetToSeqs(others)
                         /\ todo' = first \o rest
  BY DEF StartGreedy, InOrder
<1>9. IsFiniteSet(musts) /\ IsFiniteSet(others)
  BY SolverAssumption, FS_Subset
<1>10. /\ first \in Seq(musts)
       /\ \A i, j \in 1 .. Len(first) : first[i] = first[j] => i = j
       /\ \A x \in musts : \E i \in 1 .. Len(first) : first[i] = x
  <2> HIDE DEF musts
  <2>1. QED  BY <1>8, <1>9, AnyOrder
<1>11. /\ rest \in Seq(others)
       /\ \A i, j \in 1 .. Len(rest) : rest[i] = rest[j] => i = j
       /\ \A x \in others : \E i \in 1 .. Len(rest) : rest[i] = x
  <2> HIDE DEF others
  <2>1. QED  BY <1>8, <1>9, AnyOrder
<1> DEFINE m == Len(first)
           n == Len(rest)
<1>12. m \in Nat /\ n \in Nat /\ first \in Seq(Pois) /\ rest \in Seq(Pois)
  BY <1>10, <1>11
<1>13. /\ todo' \in Seq(Pois) /\ Len(todo') = m + n
       /\ \A k \in 1 .. m + n : todo'[k] = IF k <= m THEN first[k] ELSE rest[k - m]
  BY <1>8, <1>12, ConcatProperties
<1>14. \A k \in 1 .. m : first[k] \in musts
  BY <1>10
<1>15. \A k \in 1 .. n : rest[k] \in others
  BY <1>11
<1>16. musts \cap others = {} /\ Pois = musts \cup others
  OBVIOUS
<1> HIDE DEF m, n, musts, others
<1>17. ASSUME NEW i \in 1 .. m + n, NEW j \in 1 .. m + n, todo'[i] = todo'[j]
       PROVE  i = j
  <2>1. CASE i <= m /\ j <= m
    <3>1. i \in 1 .. m /\ j \in 1 .. m
      BY <1>12, <2>1
    <3>2. QED  BY <1>10, <1>13, <1>17, <2>1, <3>1 DEF m
  <2>2. CASE ~(i <= m) /\ ~(j <= m)
    <3>1. i - m \in 1 .. n /\ j - m \in 1 .. n
      BY <1>12, <2>2
    <3>2. rest[i - m] = rest[j - m]
      BY <1>13, <1>17, <2>2
    <3>3. i - m = j - m
      BY <1>11, <3>1, <3>2 DEF n
    <3>4. QED  BY <1>12, <3>3
  <2>3. CASE i <= m /\ ~(j <= m)
    <3>1. i \in 1 .. m /\ j - m \in 1 .. n
      BY <1>12, <2>3
    <3>2. QED  BY <1>13, <1>14, <1>15, <1>16, <1>17, <2>3, <3>1
  <2>4. CASE ~(i <= m) /\ j <= m
    <3>1. i - m \in 1 .. n /\ j \in 1 .. m
      BY <1>12, <2>4
    <3>2. QED  BY <1>13, <1>14, <1>15, <1>16, <1>17, <2>4, <3>1
  <2>5. QED  BY <2>1, <2>2, <2>3, <2>4
<1>18. TodoOnce'
  BY <1>13, <1>17 DEF TodoOnce
<1>19. ASSUME NEW p \in Pois PROVE \E k \in 1 .. m + n : todo'[k] = p
  <2>1. CASE p \in musts
    <3>1. PICK i \in 1 .. m : first[i] = p
      BY <1>10, <2>1 DEF m
    <3>2. i \in 1 .. m + n /\ i <= m
      BY <1>12
    <3>3. QED  BY <1>13, <3>1, <3>2
  <2>2. CASE p \in others
    <3>1. PICK i \in 1 .. n : rest[i] = p
      BY <1>11, <2>2 DEF n
    <3>2. m + i \in 1 .. m + n /\ ~(m + i <= m) /\ (m + i) - m = i
      BY <1>12
    <3>3. QED  BY <1>13, <3>1, <3>2
  <2>3. QED  BY <1>16, <2>1, <2>2
<1>20. Parted'
  <2>1. \A p \in Pois : Waiting(p)'
    BY <1>13, <1>19 DEF Waiting
  <2>2. OnceIn(routes)' /\ \A p \in Pois : ~PlacedIn(routes, p)'
    BY <1>6 DEF OnceIn, PlacedIn
  <2>3. skipped' = {}
    BY <1>1, <1>5
  <2>4. QED  BY <2>1, <2>2, <2>3 DEF Parted
<1>21. Staged'
  <2>1. answer'.status = "none" /\ answer' = NoAnswer
    BY <1>1, <1>5 DEF NoAnswer
  <2>2. QED  BY <1>1, <2>1 DEF Staged, NoAnswer, NoRoutes
<1>22. QED  BY <1>3, <1>4, <1>7, <1>18, <1>20, <1>21 DEF GreedyInv, GreedyPart

\* The first POI of the list leaves it.
LEMMA TakenFirst ==
    ASSUME TodoOnce, todo # <<>>, todo' = Tail(todo)
    PROVE  /\ Head(todo) \in Pois /\ Waiting(Head(todo))
           /\ TodoOnce'
           /\ \A p : Waiting(p)' <=> Waiting(p) /\ p # Head(todo)
<1> DEFINE n == Len(todo)
<1>1. n \in Nat /\ n > 0 /\ Head(todo) = todo[1] /\ todo[1] \in Pois
  BY DEF TodoOnce
<1>2. /\ todo' \in Seq(Pois) /\ Len(todo') = n - 1
      /\ \A k \in 1 .. n - 1 : todo'[k] = todo[k + 1]
  <2>1. todo \in Seq(Pois)
    BY DEF TodoOnce
  <2>2. QED  BY <2>1
<1>3. \A i, j \in 1 .. n : todo[i] = todo[j] => i = j
  BY DEF TodoOnce
<1>4. \A p : Waiting(p) <=> \E i \in 1 .. n : todo[i] = p
  BY DEF Waiting
<1>5. \A p : Waiting(p)' <=> \E i \in 1 .. n - 1 : todo'[i] = p
  BY <1>2 DEF Waiting
<1> HIDE DEF n
<1>6. \A i, j \in 1 .. n - 1 : todo'[i] = todo'[j] => i = j
  BY <1>1, <1>2, <1>3
<1>7. TodoOnce'
  BY <1>2, <1>6 DEF TodoOnce
<1>8. Waiting(Head(todo))
  BY <1>1, <1>4
<1>9. ASSUME NEW p, Waiting(p)' PROVE Waiting(p) /\ p # Head(todo)
  <2>1. PICK i \in 1 .. n - 1 : todo'[i] = p
    BY <1>5, <1>9
  <2>2. i + 1 \in 1 .. n /\ todo[i + 1] = p /\ i + 1 # 1 /\ 1 \in 1 .. n
    BY <1>1, <1>2, <2>1
  <2>3. QED  BY <1>1, <1>3, <1>4, <2>2
<1>10. ASSUME NEW p, Waiting(p), p # Head(todo) PROVE Waiting(p)'
  <2>1. PICK i \in 1 .. n : todo[i] = p
    BY <1>4, <1>10
  <2>2. i # 1
    BY <1>1, <1>10, <2>1
  <2>3. i - 1 \in 1 .. n - 1 /\ (i - 1) + 1 = i
    BY <1>1, <2>2
  <2>4. todo'[i - 1] = p
    BY <1>2, <2>1, <2>3
  <2>5. QED  BY <1>5, <2>3, <2>4
<1>11. QED  BY <1>1, <1>7, <1>8, <1>9, <1>10

\* A route that is replaced by one that can be walked.
LEMMA RoutesKept ==
    ASSUME request' = request, variants' = variants, RoutesFit, NEW e \in Days, NEW new,
           RouteOf(e, new), Attempt(e, new).ok, routes' = [routes EXCEPT ![e] = new]
    PROVE  RoutesFit'
<1>1. AllVariants' = AllVariants
  BY DEF AllVariants
<1>2. routes \in [Days -> Seq(AllVariants)] /\ new \in Seq(AllVariants)
  BY DEF RoutesFit, RouteOf
<1>3. routes' \in [Days -> Seq(AllVariants')]
  BY <1>1, <1>2
<1>4. routes'[e] = new /\ \A d \in Days : d # e => routes'[d] = routes[d]
  BY <1>2
<1>5. ASSUME NEW d \in Days, NEW route, route = routes'[d]
      PROVE  RouteOf(d, route)' /\ (route # <<>> => Attempt(d, route)'.ok)
  <2>1. RouteOf(d, route) /\ (route # <<>> => Attempt(d, route).ok)
    <3>1. CASE d = e
      BY <1>4, <1>5, <3>1
    <3>2. CASE d # e
      BY <1>4, <1>5, <3>2 DEF RoutesFit
    <3>3. QED  BY <3>1, <3>2
  <2>2. Len(route) \in Nat
    BY <2>1 DEF RouteOf
  <2>3. Attempt(d, route)' = Attempt(d, route)
    BY <2>2, SameAttempt
  <2>4. QED  BY <2>1, <2>3, SameRouteOf
<1>6. QED  BY <1>3, <1>5 DEF RoutesFit

LEMMA RoutesStay ==
    ASSUME request' = request, variants' = variants, routes' = routes, RoutesFit
    PROVE  RoutesFit'
<1>1. AllVariants' = AllVariants
  BY DEF AllVariants
<1>2. routes' \in [Days -> Seq(AllVariants')]
  BY <1>1 DEF RoutesFit
<1>3. ASSUME NEW d \in Days, NEW route, route = routes'[d]
      PROVE  RouteOf(d, route)' /\ (route # <<>> => Attempt(d, route)'.ok)
  <2>1. RouteOf(d, route) /\ (route # <<>> => Attempt(d, route).ok)
    BY <1>3 DEF RoutesFit
  <2>2. Len(route) \in Nat
    BY <2>1 DEF RouteOf
  <2>3. Attempt(d, route)' = Attempt(d, route)
    BY <2>2, SameAttempt
  <2>4. QED  BY <2>1, <2>3, SameRouteOf
<1>4. QED  BY <1>2, <1>3 DEF RoutesFit

\* Moved, of the routes of this step and the next.
LEMMA RoutesMoved ==
    ASSUME RoutesFit, OnceIn(routes), NEW e \in Days, NEW new, NEW from, NEW fresh,
           MovedFrom(routes[e], new, from, fresh), \A p \in fresh : ~PlacedIn(routes, p),
           routes' = [routes EXCEPT ![e] = new]
    PROVE  /\ OnceIn(routes)'
           /\ \A p : PlacedIn(routes, p)' <=> PlacedIn(routes, p) \/ p \in fresh
<1>1. PICK old : old = routes
  OBVIOUS
<1>2. PICK some : some = [old EXCEPT ![e] = new]
  OBVIOUS
<1>3. OnceIn(old) /\ MovedFrom(old[e], new, from, fresh) /\ \A p \in fresh : ~PlacedIn(old, p)
  BY <1>1
<1>4. old \in [Days -> Seq(AllVariants)]
  BY <1>1 DEF RoutesFit
<1>5. PICK S : old \in [Days -> S]
  BY <1>4
<1>6. OnceIn(some) /\ \A p : PlacedIn(some, p) <=> PlacedIn(old, p) \/ p \in fresh
  BY <1>2, <1>3, <1>5, Moved
<1>7. some = routes'
  BY <1>1, <1>2
<1>8. OnceIn(routes)'
  BY <1>6, <1>7 DEF OnceIn
<1>9. \A p : PlacedIn(routes, p)' <=> PlacedIn(some, p)
  BY <1>7 DEF PlacedIn
<1>10. QED  BY <1>1, <1>6, <1>8, <1>9

\* What an insertion of POI p is.
LEMMA InsertionFits ==
    ASSUME VariantsFit, RoutesFit, NEW p \in Pois, NEW f \in Insertions(p)
    PROVE  /\ f.day \in Days /\ RouteOf(f.day, f.route) /\ Attempt(f.day, f.route).ok
           /\ \E from : MovedFrom(routes[f.day], f.route, from, {p})
<1> DEFINE insertion(v, i, route) ==
               {[day |-> v.day, route |-> route,
                 cost |-> <<-v.prize, a.travel - Attempt(v.day, routes[v.day]).travel, a.wait, i,
                            v.day, v.opens>>] :
                   a \in {x \in {Attempt(v.day, route)} : x.ok}}
<1>1. Insertions(p) =
         UNION {UNION {insertion(v, i, InsertAt(routes[v.day], i, v)) :
                    i \in 1 .. Len(routes[v.day]) + 1} : v \in variants[p]}
  BY DEF Insertions
<1> HIDE DEF insertion
<1>2. PICK v \in variants[p] : \E i \in 1 .. Len(routes[v.day]) + 1 :
          f \in insertion(v, i, InsertAt(routes[v.day], i, v))
  BY <1>1
<1>3. PICK i \in 1 .. Len(routes[v.day]) + 1 : f \in insertion(v, i, InsertAt(routes[v.day], i, v))
  BY <1>2
<1> DEFINE d == v.day
           old == routes[v.day]
           new == InsertAt(routes[v.day], i, v)
<1>4. f.day = d /\ f.route = new /\ Attempt(d, new).ok
  BY <1>3 DEF insertion
<1>5. v.poi = p /\ d \in Days /\ Usable(v) /\ v \in AllVariants
  BY DEF VariantsFit, Fits, Usable, AllVariants
<1>6. RouteOf(d, old) /\ old \in Seq(AllVariants)
  BY <1>5 DEF RoutesFit
<1>7. /\ new \in Seq(AllVariants) /\ Len(new) = Len(old) + 1 /\ Len(old) \in Nat
      /\ \A k \in 1 .. Len(new) : new[k] = IF k < i THEN old[k] ELSE IF k = i THEN v ELSE old[k - 1]
  BY <1>5, <1>6, InsertedType
<1>8. \E from : MovedFrom(old, new, from, {p})
  BY <1>5, <1>6, InsertMoves
<1>9. i \in 1 .. Len(old) + 1
  OBVIOUS
<1>10. v.day = d
  OBVIOUS
<1> HIDE DEF d, old, new
<1>11. ASSUME NEW k \in 1 .. Len(new) PROVE Usable(new[k]) /\ new[k].day = d
  <2>1. CASE k < i
    BY <1>6, <1>7, <1>9, <2>1 DEF RouteOf
  <2>2. CASE k = i
    BY <1>5, <1>7, <1>10, <2>2
  <2>3. CASE k > i
    BY <1>6, <1>7, <1>9, <2>3 DEF RouteOf
  <2>4. QED  BY <1>7, <1>9, <2>1, <2>2, <2>3
<1>12. RouteOf(d, new)
  BY <1>7, <1>11 DEF RouteOf
<1>13. QED  BY <1>4, <1>5, <1>8, <1>12 DEF old, d

\* The best insertion is one that was attempted: its route can be walked.
LEMMA InsertKeeps == GreedyInv /\ Insert => GreedyInv'
<1> SUFFICES ASSUME GreedyInv, Insert PROVE GreedyInv'
  OBVIOUS
<1>1. /\ engine = "greedy" /\ stage = "building" /\ todo # <<>> /\ todo' = Tail(todo)
      /\ request' = request /\ engine' = engine /\ variants' = variants
      /\ stage' = stage /\ skipped' = skipped /\ answer' = answer
  BY DEF Insert
<1>2. PICK f \in Insertions(Head(todo)) : routes' = [routes EXCEPT ![f.day] = f.route]
  BY DEF Insert
<1>3. GreedyPart
  BY <1>1 DEF GreedyInv
<1>4. VariantsFit /\ RoutesFit /\ TodoOnce /\ Parted /\ Staged
  BY <1>3 DEF GreedyPart
<1>5. PICK p : p = Head(todo)
  OBVIOUS
<1>6. /\ p \in Pois /\ Waiting(p) /\ TodoOnce'
      /\ \A q : Waiting(q)' <=> Waiting(q) /\ q # p
  BY <1>1, <1>4, <1>5, TakenFirst
<1>7. PICK from : /\ f.day \in Days /\ RouteOf(f.day, f.route) /\ Attempt(f.day, f.route).ok
                  /\ MovedFrom(routes[f.day], f.route, from, {p})
  BY <1>2, <1>4, <1>5, <1>6, InsertionFits
<1>8. RoutesFit'
  BY <1>1, <1>2, <1>4, <1>7, RoutesKept
<1>9. ~PlacedIn(routes, p) /\ OnceIn(routes)
  BY <1>4, <1>6 DEF Parted
<1>10. /\ OnceIn(routes)'
       /\ \A q : PlacedIn(routes, q)' <=> PlacedIn(routes, q) \/ q \in {p}
  BY <1>2, <1>4, <1>7, <1>9, RoutesMoved
<1>11. \A q : PlacedIn(routes, q)' <=> PlacedIn(routes, q) \/ q = p
  BY <1>10
<1>12. Parted'
  <2>1. OnceIn(routes)'
    BY <1>10
  <2>2. (skipped \subseteq {q \in Pois : ~Poi(q).mustDo})'
    BY <1>1, <1>4, SamePoi DEF Parted
  <2>3. QED  BY <1>1, <1>4, <1>6, <1>11, <2>1, <2>2 DEF Parted
<1>13. Staged'
  <2>1. answer = NoAnswer /\ answer.status = "none"
    BY <1>1, <1>4 DEF Staged, NoAnswer
  <2>2. QED  BY <1>1, <2>1 DEF Staged, NoAnswer, NoRoutes
<1>14. VariantsFit' /\ Asked'
  BY <1>1, <1>4, SameVariantsFit, SameAsked DEF GreedyInv
<1>15. QED  BY <1>6, <1>8, <1>12, <1>13, <1>14 DEF GreedyInv, GreedyPart

\* What fits nowhere leaves the list for the skipped ones, or the job fails.
LEMMA SkipKeeps == GreedyInv /\ Skip => GreedyInv'
<1> SUFFICES ASSUME GreedyInv, Skip PROVE GreedyInv'
  OBVIOUS
<1>1. /\ engine = "greedy" /\ stage = "building" /\ todo # <<>>
      /\ request' = request /\ engine' = engine /\ variants' = variants /\ routes' = routes
  BY DEF Skip
<1>2. VariantsFit /\ RoutesFit /\ TodoOnce /\ Parted /\ Staged
  BY <1>1 DEF GreedyInv, GreedyPart
<1>3. RoutesFit' /\ VariantsFit' /\ Asked'
  BY <1>1, <1>2, RoutesStay, SameVariantsFit, SameAsked DEF GreedyInv
<1>4. \A q : PlacedIn(routes, q)' <=> PlacedIn(routes, q)
  BY <1>1 DEF PlacedIn
<1>5. OnceIn(routes)'
  BY <1>1, <1>2 DEF Parted, OnceIn
<1>6. answer = NoAnswer /\ answer.status = "none"
  BY <1>1, <1>2 DEF Staged, NoAnswer
<1>7. CASE Poi(Head(todo)).mustDo
  <2>1. stage' = "answered" /\ answer' = Infeasible /\ todo' = todo /\ skipped' = skipped
    BY <1>7 DEF Skip, Reply
  <2>2. answer'.status = "infeasible"
    BY <2>1 DEF Infeasible, NoAnswer
  <2>3. Staged'
    BY <2>1, <2>2 DEF Staged
  <2>4. TodoOnce' /\ \A q : Waiting(q)' <=> Waiting(q)
    BY <1>2, <2>1 DEF TodoOnce, Waiting
  <2>5. Parted'
    BY <1>1, <1>2, <1>4, <1>5, <2>1, <2>4, SamePoi DEF Parted
  <2>6. QED  BY <1>3, <2>3, <2>4, <2>5 DEF GreedyInv, GreedyPart
<1>8. CASE ~Poi(Head(todo)).mustDo
  <2>1. /\ skipped' = skipped \cup {Head(todo)} /\ todo' = Tail(todo)
        /\ stage' = stage /\ answer' = answer
    BY <1>8 DEF Skip
  <2>2. PICK p : p = Head(todo)
    OBVIOUS
  <2>3. /\ p \in Pois /\ Waiting(p) /\ TodoOnce'
        /\ \A q : Waiting(q)' <=> Waiting(q) /\ q # p
    BY <1>1, <1>2, <2>1, <2>2, TakenFirst
  <2>4. Staged'
    BY <1>1, <1>6, <2>1 DEF Staged, NoAnswer, NoRoutes
  <2>5. (skipped \subseteq {q \in Pois : ~Poi(q).mustDo})'
    BY <1>1, <1>2, <1>8, <2>1, <2>2, <2>3, SamePoi DEF Parted
  <2>6. ~PlacedIn(routes, p)
    BY <1>2, <2>3 DEF Parted
  <2>7. Parted'
    BY <1>1, <1>2, <1>4, <1>5, <2>1, <2>2, <2>3, <2>5, <2>6 DEF Parted
  <2>8. QED  BY <1>3, <2>3, <2>4, <2>7 DEF GreedyInv, GreedyPart
<1>9. QED  BY <1>7, <1>8

\* A turn is taken only after it was attempted.
LEMMA TwoOptKeeps == GreedyInv /\ TwoOpt => GreedyInv'
<1> SUFFICES ASSUME GreedyInv, TwoOpt PROVE GreedyInv'
  OBVIOUS
<1>1. /\ engine = "greedy" /\ stage = "improving"
      /\ request' = request /\ engine' = engine /\ variants' = variants
      /\ stage' = stage /\ todo' = todo /\ skipped' = skipped /\ answer' = answer
  BY DEF TwoOpt
<1>2. VariantsFit /\ RoutesFit /\ TodoOnce /\ Parted /\ Staged
  BY <1>1 DEF GreedyInv, GreedyPart
<1>3. PICK d \in Days : \E c \in Shorter(d, routes[d]) :
          routes' = [routes EXCEPT ![d] = Reversed(routes[d], c[1], c[2])]
  BY DEF TwoOpt
<1>4. PICK c \in Shorter(d, routes[d]) :
          routes' = [routes EXCEPT ![d] = Reversed(routes[d], c[1], c[2])]
  BY <1>3
<1>5. PICK old, new : old = routes[d] /\ new = Reversed(old, c[1], c[2])
  OBVIOUS
<1>6. c \in Turns(old) /\ Attempt(d, new).ok
  BY <1>4, <1>5 DEF Shorter
<1>7. RouteOf(d, old) /\ old \in Seq(AllVariants)
  BY <1>2, <1>5 DEF RoutesFit
<1>8. c[1] \in 1 .. Len(old) /\ c[2] \in 1 .. Len(old) /\ c[1] < c[2]
  <2>1. Len(old) \in Nat
    BY <1>7
  <2>2. c \in (1 .. Len(old) - 2) \X (1 .. Len(old)) /\ c[1] < c[2]
    BY <1>6 DEF Turns
  <2>3. c[1] \in 1 .. Len(old) - 2 /\ c[2] \in 1 .. Len(old)
    BY <2>2
  <2>4. QED  BY <2>1, <2>2, <2>3
<1>9. /\ new \in Seq(AllVariants) /\ Len(new) = Len(old)
      /\ \A k \in 1 .. Len(old) : Turned(c[1], c[2], k) \in 1 .. Len(old)
                                  /\ new[k] = old[Turned(c[1], c[2], k)]
  BY <1>5, <1>7, <1>8, ReversedType
<1>10. RouteOf(d, new)
  BY <1>7, <1>9 DEF RouteOf
<1>11. routes' = [routes EXCEPT ![d] = new]
  BY <1>4, <1>5
<1>12. RoutesFit'
  BY <1>1, <1>2, <1>6, <1>10, <1>11, RoutesKept
<1>13. \E from : MovedFrom(old, new, from, {})
  BY <1>5, <1>7, <1>8, TurnMoves
<1>14. /\ OnceIn(routes)'
       /\ \A q : PlacedIn(routes, q)' <=> PlacedIn(routes, q) \/ q \in {}
  <2>1. PICK from : MovedFrom(old, new, from, {})
    BY <1>13
  <2>2. OnceIn(routes)
    BY <1>2 DEF Parted
  <2>3. PICK fresh : fresh = {}
    OBVIOUS
  <2>4. MovedFrom(routes[d], new, from, fresh) /\ \A p \in fresh : ~PlacedIn(routes, p)
    BY <1>5, <2>1, <2>3
  <2>5. /\ OnceIn(routes)'
        /\ \A q : PlacedIn(routes, q)' <=> PlacedIn(routes, q) \/ q \in fresh
    BY <1>2, <1>11, <2>2, <2>4, RoutesMoved
  <2>6. QED  BY <2>3, <2>5
<1>15. Parted'
  <2>1. \A q : PlacedIn(routes, q)' <=> PlacedIn(routes, q)
    BY <1>14
  <2>2. OnceIn(routes)'
    BY <1>14
  <2>3. \A q : Waiting(q)' <=> Waiting(q)
    BY <1>1 DEF Waiting
  <2>4. QED  BY <1>1, <1>2, <2>1, <2>2, <2>3, SamePoi DEF Parted
<1>16. TodoOnce'
  BY <1>1, <1>2 DEF TodoOnce
<1>17. Staged'
  <2>1. answer = NoAnswer /\ answer.status = "none" /\ todo = <<>>
    BY <1>1, <1>2 DEF Staged, NoAnswer
  <2>2. QED  BY <1>1, <2>1 DEF Staged, NoAnswer, NoRoutes
<1>18. VariantsFit' /\ Asked'
  BY <1>1, <1>2, SameVariantsFit, SameAsked DEF GreedyInv
<1>19. QED  BY <1>12, <1>15, <1>16, <1>17, <1>18 DEF GreedyInv, GreedyPart

\* With an empty list every POI is routed or skipped.
LEMMA FilledKeeps == GreedyInv /\ Filled => GreedyInv'
<1> SUFFICES ASSUME GreedyInv, Filled PROVE GreedyInv'
  OBVIOUS
<1>1. /\ engine = "greedy" /\ stage = "building" /\ todo = <<>> /\ stage' = "improving"
      /\ request' = request /\ engine' = engine /\ variants' = variants /\ routes' = routes
      /\ todo' = todo /\ skipped' = skipped /\ answer' = answer
  BY DEF Filled
<1>2. VariantsFit /\ RoutesFit /\ TodoOnce /\ Parted /\ Staged
  BY <1>1 DEF GreedyInv, GreedyPart
<1>3. RoutesFit' /\ VariantsFit' /\ Asked'
  BY <1>1, <1>2, RoutesStay, SameVariantsFit, SameAsked DEF GreedyInv
<1>4. TodoOnce'
  BY <1>1, <1>2 DEF TodoOnce
<1>5. Parted'
  <2>1. OnceIn(routes)' /\ \A q : PlacedIn(routes, q)' <=> PlacedIn(routes, q)
    BY <1>1, <1>2 DEF Parted, OnceIn, PlacedIn
  <2>2. \A q : Waiting(q)' <=> Waiting(q)
    BY <1>1 DEF Waiting
  <2>3. QED  BY <1>1, <1>2, <2>1, <2>2, SamePoi DEF Parted
<1>6. Staged'
  <2>1. answer = NoAnswer /\ answer.status = "none"
    BY <1>1, <1>2 DEF Staged, NoAnswer
  <2>2. QED  BY <1>1, <2>1 DEF Staged, NoAnswer, NoRoutes
<1>7. QED  BY <1>3, <1>4, <1>5, <1>6 DEF GreedyInv, GreedyPart

\* An answer keeps showing the days as they are.
LEMMA DaysStay ==
    ASSUME Asked, RoutesFit, request' = request, routes' = routes, NEW d \in Days
    PROVE  Emitted(d)' = Emitted(d)
<1>1. RouteOf(d, routes[d]) /\ (routes[d] # <<>> => Attempt(d, routes[d]).ok)
  BY DEF RoutesFit
<1>2. QED  BY <1>1, SameEmitted DEF Asked

\* What is answered is what the days emit.
LEMMA EmitKeeps == GreedyInv /\ Emit => GreedyInv'
<1> SUFFICES ASSUME GreedyInv, Emit PROVE GreedyInv'
  OBVIOUS
<1>1. /\ engine = "greedy" /\ stage = "improving" /\ stage' = "answered"
      /\ answer' = Feasible([d \in Days |-> Emitted(d)], skipped)
      /\ request' = request /\ engine' = engine /\ variants' = variants /\ routes' = routes
      /\ todo' = todo /\ skipped' = skipped
  BY DEF Emit, Reply
<1>2. VariantsFit /\ RoutesFit /\ TodoOnce /\ Parted /\ Staged
  BY <1>1 DEF GreedyInv, GreedyPart
<1>3. RoutesFit' /\ VariantsFit' /\ Asked'
  BY <1>1, <1>2, RoutesStay, SameVariantsFit, SameAsked DEF GreedyInv
<1>4. TodoOnce'
  BY <1>1, <1>2 DEF TodoOnce
<1>5. Parted'
  <2>1. OnceIn(routes)' /\ \A q : PlacedIn(routes, q)' <=> PlacedIn(routes, q)
    BY <1>1, <1>2 DEF Parted, OnceIn, PlacedIn
  <2>2. \A q : Waiting(q)' <=> Waiting(q)
    BY <1>1 DEF Waiting
  <2>3. QED  BY <1>1, <1>2, <2>1, <2>2, SamePoi DEF Parted
<1>6. Staged'
  <2>1. \A d \in Days : answer'.days[d] = Emitted(d)
    BY <1>1 DEF Feasible
  <2>2. \A d \in Days : Emitted(d)' = Emitted(d)
    BY <1>1, <1>2, DaysStay DEF GreedyInv
  <2>3. todo' = <<>>
    BY <1>1, <1>2 DEF Staged
  <2>4. QED  BY <1>1, <2>1, <2>2, <2>3 DEF Staged
<1>7. QED  BY <1>3, <1>4, <1>5, <1>6 DEF GreedyInv, GreedyPart

LEMMA StutterKeeps == GreedyInv /\ UNCHANGED vars => GreedyInv'
<1> SUFFICES ASSUME GreedyInv, UNCHANGED vars PROVE GreedyInv'
  OBVIOUS
<1>1. /\ request' = request /\ engine' = engine /\ variants' = variants /\ routes' = routes
      /\ todo' = todo /\ skipped' = skipped /\ stage' = stage /\ answer' = answer
  BY DEF vars
<1>2. Asked' /\ Asked
  BY <1>1, SameAsked DEF GreedyInv
<1>3. CASE engine # "greedy"
  BY <1>1, <1>2, <1>3 DEF GreedyInv
<1>4. CASE engine = "greedy"
  <2>1. VariantsFit /\ RoutesFit /\ TodoOnce /\ Parted /\ Staged
    BY <1>4 DEF GreedyInv, GreedyPart
  <2>2. RoutesFit' /\ VariantsFit'
    BY <1>1, <2>1, RoutesStay, SameVariantsFit
  <2>3. TodoOnce'
    BY <1>1, <2>1 DEF TodoOnce
  <2>4. Parted'
    <3>1. OnceIn(routes)' /\ \A q : PlacedIn(routes, q)' <=> PlacedIn(routes, q)
      BY <1>1, <2>1 DEF Parted, OnceIn, PlacedIn
    <3>2. \A q : Waiting(q)' <=> Waiting(q)
      BY <1>1 DEF Waiting
    <3>3. QED  BY <1>1, <2>1, <3>1, <3>2, SamePoi DEF Parted
  <2>5. Staged'
    <3>1. \A d \in Days : Emitted(d)' = Emitted(d)
      BY <1>1, <1>2, <2>1, DaysStay
    <3>2. QED  BY <1>1, <2>1, <3>1 DEF Staged, NoAnswer, NoRoutes
  <2>6. QED  BY <1>2, <2>2, <2>3, <2>4, <2>5 DEF GreedyInv, GreedyPart
<1>5. QED  BY <1>3, <1>4

\* The steps of the other engine are none of a greedy job.
LEMMA RoutingKeepsGreedy ==
    GreedyInv /\ (StartRouting \/ Route \/ Publish \/ NoRoute) => GreedyInv'
<1> SUFFICES ASSUME GreedyInv, StartRouting \/ Route \/ Publish \/ NoRoute PROVE GreedyInv'
  OBVIOUS
<1>1. engine = "routing" /\ request' = request /\ engine' = engine
  BY DEF StartRouting, Route, Publish, Complete, NoRoute
<1>2. QED  BY <1>1, SameAsked DEF GreedyInv

\* Every step keeps the invariant.
LEMMA GreedyKeeps == GreedyInv /\ [Next]_vars => GreedyInv'
BY StartGreedyKeeps, InsertKeeps, SkipKeeps, FilledKeeps, TwoOptKeeps, EmitKeeps, RoutingKeepsGreedy,
   StutterKeeps DEF Next

\* In every reachable state of a greedy job each route can be walked, home included, and each POI
\* is on one route, once, or still to do, or skipped.
THEOREM GreedyInvariance == Spec => []GreedyInv
BY GreedyStarts, GreedyKeeps, PTL DEF Spec

(* What the invariant says of an answer. *)

\* A set without two elements has none or one.
LEMMA AtMostOne ==
    ASSUME NEW S, \A x, y \in S : x = y
    PROVE  Cardinality(S) = IF S = {} THEN 0 ELSE 1
<1>1. CASE S = {}
  BY <1>1, FS_EmptySet
<1>2. CASE S # {}
  <2>1. PICK x : S = {x}
    BY <1>2
  <2>2. QED  BY <1>2, <2>1, FS_Singleton
<1>3. QED  BY <1>1, <1>2

\* The visits of a POI on days on which it stands at most once.
LEMMA VisitedOnce ==
    ASSUME NEW S, NEW some, \A d \in Days : some[d] \in Seq(S), NEW p,
           \A d, e \in Days : \A i \in 1 .. Len(some[d]), j \in 1 .. Len(some[e]) :
             some[d][i].poi = p /\ some[e][j].poi = p => d = e /\ i = j
    PROVE  Cardinality(Visits(some, p)) = IF PlacedIn(some, p) THEN 1 ELSE 0
<1>1. \A d \in Days : DOMAIN some[d] = 1 .. Len(some[d])
  OBVIOUS
<1>2. \A x : x \in Visits(some, p) <=>
               \E d \in Days : \E i \in 1 .. Len(some[d]) : x = <<d, i>> /\ some[d][i].poi = p
  BY <1>1 DEF Visits
<1>3. ASSUME NEW x \in Visits(some, p), NEW y \in Visits(some, p) PROVE x = y
  <2>1. PICK d \in Days : \E i \in 1 .. Len(some[d]) : x = <<d, i>> /\ some[d][i].poi = p
    BY <1>2
  <2>2. PICK i \in 1 .. Len(some[d]) : x = <<d, i>> /\ some[d][i].poi = p
    BY <2>1
  <2>3. PICK e \in Days : \E j \in 1 .. Len(some[e]) : y = <<e, j>> /\ some[e][j].poi = p
    BY <1>2
  <2>4. PICK j \in 1 .. Len(some[e]) : y = <<e, j>> /\ some[e][j].poi = p
    BY <2>3
  <2>5. d = e /\ i = j
    BY <2>2, <2>4
  <2>6. QED  BY <2>2, <2>4, <2>5
<1>4. Visits(some, p) # {} <=> PlacedIn(some, p)
  BY <1>2 DEF PlacedIn
<1>5. QED  BY <1>3, <1>4, AtMostOne

-----------------------------------------------------------------------------
(* Greedy answers are feasible. *)

\* The days of an answer: every POI of a route is visited on them, once, and no other.
LEMMA EmittedOnce ==
    ASSUME NEW some, NEW days, OnceIn(some),
           \A d \in Days : \E order, size : Matches(days[d], some[d], order, size),
           NEW p \in Pois
    PROVE  Cardinality(Visits(days, p)) = IF PlacedIn(some, p) THEN 1 ELSE 0
<1>1. \A d \in Days : days[d] \in Seq(Spots)
  BY DEF Matches
<1>2. p # Meal
  BY SolverAssumption DEF Meal
<1>3. ASSUME NEW d \in Days, NEW i \in 1 .. Len(days[d]), days[d][i].poi = p,
             NEW order, NEW size, Matches(days[d], some[d], order, size)
      PROVE  order[i] \in 1 .. Len(some[d]) /\ some[d][order[i]].poi = p
  <2>1. i \in 1 .. size /\ order[i] \in 1 .. size /\ Len(some[d]) \in Nat
    BY <1>3 DEF Matches, Ascends
  <2>2. order[i] <= Len(some[d])
    BY <1>2, <1>3, <2>1 DEF Matches
  <2>3. QED  BY <1>3, <2>1, <2>2 DEF Matches
<1>4. ASSUME NEW d \in Days, NEW e \in Days, NEW i \in 1 .. Len(days[d]), NEW j \in 1 .. Len(days[e]),
             days[d][i].poi = p, days[e][j].poi = p
      PROVE  d = e /\ i = j
  <2>1. PICK order, size : Matches(days[d], some[d], order, size)
    OBVIOUS
  <2>2. PICK more, large : Matches(days[e], some[e], more, large)
    OBVIOUS
  <2>3. order[i] \in 1 .. Len(some[d]) /\ some[d][order[i]].poi = p
    BY <1>3, <1>4, <2>1
  <2>4. more[j] \in 1 .. Len(some[e]) /\ some[e][more[j]].poi = p
    BY <1>3, <1>4, <2>2
  <2>5. d = e
    BY <2>3, <2>4 DEF OnceIn
  <2>6. order[j] \in 1 .. Len(some[d]) /\ some[d][order[j]].poi = p
    BY <1>3, <1>4, <2>1, <2>5
  <2>7. order[i] = order[j]
    BY <2>3, <2>6 DEF OnceIn
  <2>8. i \in 1 .. size /\ j \in 1 .. size
    BY <2>1, <2>5 DEF Matches
  <2>9. i = j
    BY <2>1, <2>7, <2>8 DEF Matches, Ascends
  <2>10. QED  BY <2>5, <2>9
<1>5. Cardinality(Visits(days, p)) = IF PlacedIn(days, p) THEN 1 ELSE 0
  BY <1>1, <1>4, VisitedOnce
<1>6. ASSUME PlacedIn(days, p) PROVE PlacedIn(some, p)
  <2>1. PICK d \in Days : \E i \in 1 .. Len(days[d]) : days[d][i].poi = p
    BY <1>6 DEF PlacedIn
  <2>2. PICK i \in 1 .. Len(days[d]) : days[d][i].poi = p
    BY <2>1
  <2>3. PICK order, size : Matches(days[d], some[d], order, size)
    OBVIOUS
  <2>4. QED  BY <1>3, <2>2, <2>3 DEF PlacedIn
<1>7. ASSUME PlacedIn(some, p) PROVE PlacedIn(days, p)
  <2>1. PICK d \in Days : \E i \in 1 .. Len(some[d]) : some[d][i].poi = p
    BY <1>7 DEF PlacedIn
  <2>2. PICK i \in 1 .. Len(some[d]) : some[d][i].poi = p
    BY <2>1
  <2>3. PICK order, size : Matches(days[d], some[d], order, size)
    OBVIOUS
  <2>4. Len(some[d]) \in Nat /\ size \in Nat /\ Len(some[d]) <= size /\ Len(days[d]) = size
    BY <2>3 DEF Matches
  <2>5. i \in 1 .. size
    BY <2>4
  <2>6. PICK k \in 1 .. size : order[k] = i
    BY <2>3, <2>5 DEF Matches, Ascends
  <2>7. i <= Len(some[d])
    BY <2>4
  <2>8. days[d][k].poi = p
    BY <2>2, <2>3, <2>6, <2>7 DEF Matches
  <2>9. QED  BY <2>4, <2>6, <2>8 DEF PlacedIn
<1>8. QED  BY <1>5, <1>6, <1>7

\* GreedyIsFeasible: follows from the invariant.
LEMMA InvIsFeasible == GreedyInv => GreedyIsFeasible
<1> SUFFICES ASSUME GreedyInv, engine = "greedy", answer.status = "feasible"
             PROVE  /\ Issues(answer.days) \subseteq
                          (UNION {CheckDay(d, <<>>) : d \in {e \in Days : routes[e] = <<>>}})
                            \cup (IF Option.meals = {} THEN {} ELSE {"travel_overlap", "missed_deadline"})
                            \cup (IF \E g, h \in Option.meals : g # h /\ Overlap(g, h) THEN {"overlap"} ELSE {})
                    /\ \A p \in Pois :
                          Cardinality(Visits(routes, p)) + (IF p \in skipped THEN 1 ELSE 0) = 1
  BY DEF GreedyIsFeasible
<1> DEFINE empties == UNION {CheckDay(d, <<>>) : d \in {e \in Days : routes[e] = <<>>}}
           late == IF Option.meals = {} THEN {} ELSE {"travel_overlap", "missed_deadline"}
           crossing == IF Crossing THEN {"overlap"} ELSE {}
           days == answer.days
<1>1. WellFormed(request) /\ RoutesFit /\ Parted /\ Staged
  BY DEF GreedyInv, Asked, GreedyPart
<1>2. /\ stage # "new" /\ todo = <<>>
      /\ \A d \in Days : days[d] = Emitted(d)
  <2>1. stage = "answered"
    BY <1>1 DEF Staged, NoAnswer
  <2>2. QED  BY <1>1, <2>1 DEF Staged
<1>3. ASSUME NEW d \in Days
      PROVE  /\ CheckDay(d, days[d]) \subseteq Allowed(d, routes[d])
             /\ \E order, size : Matches(days[d], routes[d], order, size)
  <2>1. RouteOf(d, routes[d]) /\ (routes[d] # <<>> => Attempt(d, routes[d]).ok)
    BY <1>1 DEF RoutesFit
  <2>2. QED  BY <1>1, <1>2, <2>1, EmittedDay
<1>4. OnceIn(routes) /\ \A d \in Days : routes[d] \in Seq(AllVariants)
  BY <1>1 DEF Parted, RoutesFit
<1> HIDE DEF days
<1>5. \A p \in Pois : ~Waiting(p)
  BY <1>2 DEF Waiting
<1>6. \A p \in Pois : /\ PlacedIn(routes, p) \/ p \in skipped
                      /\ ~(PlacedIn(routes, p) /\ p \in skipped)
  BY <1>1, <1>2, <1>5 DEF Parted
<1>7. \A p \in Pois : Cardinality(Visits(days, p)) = IF PlacedIn(routes, p) THEN 1 ELSE 0
  BY <1>3, <1>4, EmittedOnce
<1>8. \A p \in Pois : Cardinality(Visits(routes, p)) = IF PlacedIn(routes, p) THEN 1 ELSE 0
  <2>1. \A p \in Pois : \A d, e \in Days : \A i \in 1 .. Len(routes[d]), j \in 1 .. Len(routes[e]) :
             routes[d][i].poi = p /\ routes[e][j].poi = p => d = e /\ i = j
    BY <1>4 DEF OnceIn
  <2>2. QED  BY <1>4, <2>1, VisitedOnce
<1>9. ~\E p \in Pois : Cardinality(Visits(days, p)) > 1
  BY <1>7
<1>10. ~\E p \in Pois : Poi(p).mustDo /\ Visits(days, p) = {}
  <2> SUFFICES ASSUME NEW p \in Pois, Poi(p).mustDo, Visits(days, p) = {} PROVE FALSE
    OBVIOUS
  <2>1. p \notin skipped
    BY <1>1 DEF Parted
  <2>2. Cardinality(Visits(days, p)) = 1
    BY <1>6, <1>7, <2>1
  <2>3. QED  BY <2>2, FS_EmptySet
<1>11. Issues(days) = UNION {CheckDay(d, days[d]) : d \in Days}
  BY <1>9, <1>10 DEF Issues, When
<1>12. \A d \in Days : Allowed(d, routes[d]) \subseteq empties \cup late \cup crossing
  BY DEF Allowed
<1>13. Issues(days) \subseteq empties \cup late \cup crossing
  <2> HIDE DEF empties, late, crossing
  <2>1. QED  BY <1>3, <1>11, <1>12
<1>14. \A p \in Pois : Cardinality(Visits(routes, p)) + (IF p \in skipped THEN 1 ELSE 0) = 1
  BY <1>6, <1>8
<1>15. crossing = IF \E g, h \in Option.meals : g # h /\ Overlap(g, h) THEN {"overlap"} ELSE {}
  BY Zenon DEF Crossing
<1>16. Issues(answer.days) \subseteq empties \cup late \cup crossing
  BY <1>13 DEF days
<1> HIDE DEF crossing, days
<1>17. QED  BY Zenon, <1>14, <1>15, <1>16

\* GreedyIsFeasible.  What the greedy engine returns passes the independent check it
\* never runs, but for what its meals may do; every POI is visited once or left out.
THEOREM GreedyFeasible == Spec => []GreedyIsFeasible
BY GreedyInvariance, InvIsFeasible, PTL

-----------------------------------------------------------------------------
(* The routing engine's minutes and metres. *)

\* A finite set of numbers has a least one.
LEMMA FirstOfAll ==
    ASSUME NEW S, IsFiniteSet(S), S # {}, S \subseteq Int
    PROVE  Min(S) \in S
<1> DEFINE HasFirst(T) == \E x \in T : \A y \in T : x <= y
           Good == {n \in Nat : \A T \in SUBSET Int :
                        IsFiniteSet(T) /\ Cardinality(T) = n + 1 => HasFirst(T)}
<1>1. 0 \in Good
  <2> SUFFICES ASSUME NEW T \in SUBSET Int, IsFiniteSet(T), Cardinality(T) = 0 + 1 PROVE HasFirst(T)
    OBVIOUS
  <2>0. Cardinality(T) = 1
    OBVIOUS
  <2>1. PICK x : T = {x}
    BY <2>0, FS_Singleton
  <2>2. x \in Int /\ \A y \in T : x <= y
    BY <2>1
  <2>3. QED  BY <2>1, <2>2
<1>2. ASSUME NEW n \in Good PROVE n + 1 \in Good
  <2> SUFFICES ASSUME NEW T \in SUBSET Int, IsFiniteSet(T), Cardinality(T) = (n + 1) + 1 PROVE HasFirst(T)
    OBVIOUS
  <2>1. n \in Nat
    OBVIOUS
  <2>2. T # {}
    BY <2>1, FS_EmptySet
  <2>3. PICK x \in T : TRUE
    BY <2>2
  <2>4. IsFiniteSet(T \ {x}) /\ Cardinality(T \ {x}) = n + 1
    BY <2>1, FS_RemoveElement
  <2>5. HasFirst(T \ {x})
    BY <2>4
  <2>6. PICK m \in T \ {x} : \A y \in T \ {x} : m <= y
    BY <2>5
  <2>7. CASE m <= x
    BY <2>6, <2>7
  <2>8. CASE ~(m <= x)
    <3>1. \A y \in T : x <= y
      BY <2>6, <2>8
    <3>2. QED  BY <3>1
  <2>9. QED  BY <2>7, <2>8
<1>3. Good = Nat
  <2>1. Good \subseteq Nat
    OBVIOUS
  <2> HIDE DEF Good
  <2>2. QED  BY <1>1, <1>2, <2>1, SetInduction
<1>4. HasFirst(S)
  <2>1. Cardinality(S) \in Nat /\ Cardinality(S) # 0
    BY FS_CardinalityType, FS_EmptySet
  <2>2. Cardinality(S) - 1 \in Good /\ Cardinality(S) = (Cardinality(S) - 1) + 1
    BY <1>3, <2>1
  <2>3. QED  BY <2>2
<1>5. QED  BY <1>4 DEF Min

LEMMA SameParity == ASSUME NEW t \in Int, NEW e \in Int, e % 2 = 0 PROVE (t - e) % 2 = t % 2
<1>1. PICK q \in Int : e = 2 * q
  <2>1. e = 2 * (e \div 2)
    OBVIOUS
  <2>2. QED  BY <2>1
<1>2. QED  BY <1>1

\* Half minutes to whole minutes and back.
LEMMA Halved == ASSUME NEW n \in Int PROVE n \div 2 \in Int /\ 2 * (n \div 2) = n - (n % 2)
OBVIOUS

\* The routing engine counts from a whole minute.
LEMMA EpochType ==
    ASSUME WellFormed(request)
    PROVE  Epoch \in Int /\ Epoch % 2 = 0
<1> DEFINE starts == {Day(d).start : d \in Days}
           first == Min(starts)
<1>1. starts \subseteq Int /\ starts # {}
  BY DeadlineType, SolverAssumption
<1>2. IsFiniteSet(starts)
  <2> DEFINE start == [d \in Days |-> Day(d).start]
  <2>1. start \in Surjection(Days, starts)
    BY DEF Surjection
  <2> HIDE DEF start, starts
  <2>2. QED  BY <2>1, SolverAssumption, FS_Surjection
<1> HIDE DEF starts
<1>3. first \in Int
  BY <1>1, <1>2, FirstOfAll
<1>4. Epoch = first - (first % 2)
  BY DEF Epoch, starts, Minutes
<1> HIDE DEF first
<1>5. QED  BY <1>3, <1>4

\* A time becomes a minute by dropping its seconds.
LEMMA MinuteDrops ==
    ASSUME WellFormed(request), NEW t \in Int
    PROVE  Minute(t) \in Int /\ Epoch + Minutes(Minute(t)) = t - (t % 2)
<1>1. Epoch \in Int /\ Epoch % 2 = 0
  BY EpochType
<1>2. Minute(t) = (t - Epoch) \div 2
  BY DEF Minute, Minutes
<1> DEFINE past == t - Epoch
<1>3. past \in Int /\ past % 2 = t % 2
  BY <1>1, SameParity
<1>4. Minute(t) = past \div 2
  BY <1>2
<1> HIDE DEF past
<1>5. past \div 2 \in Int /\ 2 * (past \div 2) = past - (past % 2)
  BY <1>3, Halved
<1>6. Minutes(Minute(t)) = past - (t % 2)
  BY <1>3, <1>4, <1>5 DEF Minutes
<1> DEFINE odd == t % 2
<1>7. odd \in Int
  OBVIOUS
<1> HIDE DEF odd
<1>8. Epoch + Minutes(Minute(t)) = t - odd
  BY <1>1, <1>6, <1>7 DEF past, odd
<1>9. QED  BY <1>4, <1>5, <1>8 DEF odd

\* A leg's whole minutes are no less than its time.
LEMMA TransitType ==
    ASSUME WellFormed(request), NEW from \in Places, NEW to \in Goals
    PROVE  Transit(Leg(from, to)) \in Nat /\ Minutes(Transit(Leg(from, to))) >= Leg(from, to).time
<1> DEFINE time == Leg(from, to).time
<1>1. time \in Nat
  BY LegType
<1>2. Transit(Leg(from, to)) = (time + 1) \div 2
  BY DEF Transit, Minutes
<1> HIDE DEF time
<1>3. QED  BY <1>1, <1>2 DEF Minutes, time

\* A leg's whole metres are its metres if no leg has tenths.
LEMMA PacesType ==
    ASSUME WellFormed(request), NEW from \in Places, NEW to \in Goals
    PROVE  /\ Paces(Leg(from, to)) \in Nat
           /\ ~HasTenths => Metres(Paces(Leg(from, to))) = Walked(Leg(from, to))
<1> DEFINE leg == Leg(from, to)
           far == Walked(leg)
<1>1. far \in Nat
  BY LegType
<1>2. Paces(leg) = (far + 5) \div 10
  BY DEF Paces, Rounded, Metres
<1>3. Metres(Paces(leg)) = 10 * Paces(leg)
  BY DEF Metres
<1>4. ~HasTenths => far % 10 = 0
  <2> SUFFICES ASSUME ~HasTenths PROVE far % 10 = 0
    OBVIOUS
  <2>1. CASE from = to
    BY <2>1 DEF Leg, Walked
  <2>2. CASE from # to
    <3>1. <<from, to>> \in DOMAIN request.legs
      BY <2>2 DEF WellFormed, Places, Goals, Day
    <3>2. request.legs[<<from, to>>].meters % 10 = 0
      BY <3>1 DEF HasTenths, Metres
    <3>3. leg = request.legs[<<from, to>>]
      BY <2>2 DEF Leg
    <3>4. QED  BY <3>2, <3>3 DEF Walked
  <2>3. QED  BY <2>1, <2>2
<1> HIDE DEF leg, far
<1>5. QED  BY <1>1, <1>2, <1>3, <1>4 DEF leg, far

\* A walking budget in whole metres is not half a metre more than it says.
LEMMA BudgetRounds ==
    ASSUME NEW n \in Int PROVE Rounded(n, Metres(1)) \in Int /\ Metres(Rounded(n, Metres(1))) <= n + 5
<1>1. Rounded(n, Metres(1)) = (n + 5) \div 10
  BY DEF Rounded, Metres
<1>2. QED  BY <1>1 DEF Metres

-----------------------------------------------------------------------------
(* The routes of the routing engine. *)

\* Where the vehicle of day d is after k stops, and when it may leave.
Where(route, k) == IF k = 0 THEN Hotel ELSE route[k].poi
Free(d, route, k) ==
    IF k = 0 THEN Minute(Day(d).start)
    ELSE route[k].minute + Duration(route[k].poi) \div Minutes(1)

\* A stop within the range of a variant, after the way from the one before.
Reachable(d, route, k) ==
    /\ \E v \in AllVariants :
         /\ Usable(v) /\ v.poi = route[k].poi /\ v.day = d
         /\ Minute(v.opens) <= route[k].minute /\ route[k].minute <= Minute(v.latest)
    /\ Free(d, route, k - 1) + Transit(Leg(Where(route, k - 1), route[k].poi)) <= route[k].minute

Stations == [poi : Pois, minute : Int]

Driven(d, route) == route \in Seq(Stations) /\ \A k \in 1 .. Len(route) : Reachable(d, route, k)

LEMMA FreeIsMinute ==
    ASSUME WellFormed(request), NEW d \in Days, NEW route \in Seq(Stations), NEW k \in 0 .. Len(route)
    PROVE  Where(route, k) \in Places /\ Free(d, route, k) \in Int
<1>1. CASE k = 0
  <2>1. Day(d).start \in Int
    BY DeadlineType
  <2>2. Minute(Day(d).start) \in Int
    BY <2>1, MinuteDrops
  <2>3. QED  BY <1>1, <2>2 DEF Where, Free, Places
<1>2. CASE k # 0
  <2>1. k \in 1 .. Len(route)
    BY <1>2
  <2>2. route[k] \in Stations
    BY <2>1
  <2>3. route[k].poi \in Pois /\ route[k].minute \in Int
    BY <2>2 DEF Stations
  <2>4. Duration(route[k].poi) \in Nat
    BY <2>3, DurationType
  <2>5. Duration(route[k].poi) \div Minutes(1) \in Int
    BY <2>4 DEF Minutes
  <2>6. QED  BY <1>2, <2>3, <2>5 DEF Where, Free, Places
<1>3. QED  BY <1>1, <1>2

\* The vehicle is where the route says.
LEMMA DriveTrace ==
    ASSUME NEW d, NEW route, Len(route) \in Nat, NEW k \in 0 .. Len(route)
    PROVE  Drives(d, route)[k].node = Where(route, k) /\ Drives(d, route)[k].free = Free(d, route, k)
<1>1. CASE k = 0
  <2>1. Drives(d, route)[k] = Parked(d)
    BY <1>1, DriveSteps
  <2>2. QED  BY <1>1, <2>1 DEF Parked, Where, Free
<1>2. CASE k # 0
  <2>1. k \in 1 .. Len(route)
    BY <1>2
  <2>2. Drives(d, route)[k] = Drive(Drives(d, route)[k - 1], route[k])
    BY <2>1, DriveSteps
  <2>3. QED  BY <1>2, <2>2 DEF Drive, Where, Free
<1>3. QED  BY <1>1, <1>2

\* A route that goes on by one stop.
LEMMA DrivenOn ==
    ASSUME NEW d, NEW route, Driven(d, route), NEW s \in Stations,
           NEW v \in AllVariants, Usable(v), v.poi = s.poi, v.day = d,
           Minute(v.opens) <= s.minute, s.minute <= Minute(v.latest),
           Free(d, route, Len(route)) + Transit(Leg(Where(route, Len(route)), s.poi)) <= s.minute
    PROVE  Driven(d, Append(route, s))
<1> DEFINE n == Len(route)
           new == Append(route, s)
<1>1. /\ n \in Nat /\ route \in Seq(Stations)
      /\ new \in Seq(Stations) /\ Len(new) = n + 1 /\ new[n + 1] = s
      /\ \A k \in 1 .. n : new[k] = route[k]
  BY DEF Driven
<1> HIDE DEF new
<1>2. \A k \in 0 .. n : Where(new, k) = Where(route, k) /\ Free(d, new, k) = Free(d, route, k)
  <2> SUFFICES ASSUME NEW k \in 0 .. n PROVE Where(new, k) = Where(route, k) /\ Free(d, new, k) = Free(d, route, k)
    OBVIOUS
  <2>1. k # 0 => new[k] = route[k]
    BY <1>1
  <2>2. QED  BY <2>1 DEF Where, Free
<1>3. ASSUME NEW k \in 1 .. n + 1 PROVE Reachable(d, new, k)
  <2>1. CASE k = n + 1
    <3>1. k - 1 = n /\ n \in 0 .. n /\ new[k] = s
      BY <1>1, <2>1
    <3>2. Where(new, k - 1) = Where(route, n) /\ Free(d, new, k - 1) = Free(d, route, n)
      BY <1>2, <3>1
    <3>3. QED  BY <3>1, <3>2 DEF Reachable
  <2>2. CASE k # n + 1
    <3>1. k \in 1 .. n /\ k - 1 \in 0 .. n
      BY <1>1, <2>2
    <3>2. new[k] = route[k]
      BY <1>1, <3>1
    <3>3. Where(new, k - 1) = Where(route, k - 1) /\ Free(d, new, k - 1) = Free(d, route, k - 1)
      BY <1>2, <3>1
    <3>4. Reachable(d, route, k)
      BY <3>1 DEF Driven
    <3>5. QED  BY <3>2, <3>3, <3>4 DEF Reachable
  <2>3. QED  BY <2>1, <2>2
<1>4. QED  BY <1>1, <1>3 DEF Driven, new

LEMMA SameMinute == ASSUME request' = request, NEW t PROVE Minute(t)' = Minute(t)
<1>1. {Day(d).start : d \in Days}' = {Day(d).start : d \in Days}
  BY SameDay
<1>2. Epoch' = Epoch
  BY <1>1 DEF Epoch
<1>3. QED  BY <1>2 DEF Minute

LEMMA SameDriven ==
    ASSUME request' = request, variants' = variants, NEW d, NEW route
    PROVE  Driven(d, route)' <=> Driven(d, route)
<1>1. AllVariants' = AllVariants
  BY DEF AllVariants
<1>2. \A v : Usable(v)' <=> Usable(v)
  BY SameFits DEF Usable
<1>3. \A k : Free(d, route, k)' = Free(d, route, k)
  BY SameMinute, SameDay, SameDuration DEF Free
<1>4. \A k : Reachable(d, route, k)' <=> Reachable(d, route, k)
  BY <1>1, <1>2, <1>3, SameMinute, SameLeg DEF Reachable, Transit
<1>5. QED  BY <1>4 DEF Driven

RoutesDriven ==
    /\ routes \in [Days -> Seq(Stations)]
    /\ \A d \in Days : \A route : route = routes[d] => Driven(d, route)
    /\ OnceIn(routes)

RoutingPart == VariantsFit /\ RoutesDriven /\ (stage = "new" => routes = NoRoutes)

RoutingInv == Asked /\ (engine = "routing" => RoutingPart)

LEMMA NothingDriven == ASSUME routes = NoRoutes PROVE RoutesDriven
<1>1. routes \in [Days -> Seq(Stations)] /\ \A d \in Days : routes[d] = <<>>
  BY DEF NoRoutes
<1>2. ASSUME NEW d \in Days, NEW route, route = routes[d] PROVE Driven(d, route)
  <2>1. route = <<>>
    BY <1>1, <1>2
  <2>2. route \in Seq(Stations) /\ Len(route) = 0
    BY <2>1
  <2>3. QED  BY <2>2 DEF Driven
<1>3. OnceIn(routes)
  BY <1>1 DEF OnceIn
<1>4. QED  BY <1>1, <1>2, <1>3 DEF RoutesDriven

LEMMA RoutingStarts == Init => RoutingInv
<1> SUFFICES ASSUME Init PROVE RoutingInv
  OBVIOUS
<1>1. variants = [p \in Pois |-> {}] /\ routes = NoRoutes
  BY DEF Init
<1>2. Asked
  BY GreedyStarts DEF GreedyInv
<1>3. VariantsFit
  BY <1>1 DEF VariantsFit
<1>4. QED  BY <1>1, <1>2, <1>3, NothingDriven DEF RoutingInv, RoutingPart

EmptyIsDriven == routes = NoRoutes => RoutesDriven

LEMMA EmptyIsDrivenNow == EmptyIsDriven
BY NothingDriven DEF EmptyIsDriven

LEMMA EmptyIsDrivenNext == EmptyIsDriven'
BY EmptyIsDrivenNow, PTL

\* Routes that stay are driven as before.
LEMMA DrivenStays ==
    ASSUME request' = request, variants' = variants, routes' = routes, RoutesDriven
    PROVE  RoutesDriven'
<1>1. routes' \in [Days -> Seq(Stations)]
  BY DEF RoutesDriven
<1>2. \A d \in Days : \A route : route = routes'[d] => Driven(d, route)'
  BY SameDriven DEF RoutesDriven
<1>3. OnceIn(routes)'
  BY DEF RoutesDriven, OnceIn
<1>4. QED  BY <1>1, <1>2, <1>3 DEF RoutesDriven

\* The search begins with empty vehicles.
LEMMA StartRoutingKeeps == RoutingInv /\ StartRouting => RoutingInv'
<1> SUFFICES ASSUME RoutingInv, StartRouting PROVE RoutingInv'
  OBVIOUS
<1>1. /\ engine = "routing" /\ stage = "new" /\ variants' = [p \in Pois |-> Variants(p)]
      /\ request' = request /\ engine' = engine /\ routes' = routes /\ stage' # "new"
  BY DEF StartRouting, Reply
<1>2. Asked /\ Asked' /\ routes = NoRoutes
  BY <1>1, SameAsked DEF RoutingInv, RoutingPart
<1>3. VariantsFit'
  <2>1. ASSUME NEW p \in Pois, NEW v \in variants'[p] PROVE Fits(v, p)'
    <3>1. v \in Variants(p)
      BY <1>1
    <3>2. Fits(v, p)
      BY <1>2, <3>1, VariantFits DEF Asked
    <3>3. QED  BY <1>1, <3>2, SameFits
  <2>2. QED  BY <2>1 DEF VariantsFit
<1>4. RoutesDriven'
  <2>1. routes' = NoRoutes'
    BY <1>1, <1>2 DEF NoRoutes
  <2>2. QED  BY <2>1, EmptyIsDrivenNext DEF EmptyIsDriven
<1>5. QED  BY <1>1, <1>2, <1>3, <1>4 DEF RoutingInv, RoutingPart

\* The POIs on the routes are those Routed names.
LEMMA RoutedIsPlaced ==
    ASSUME routes \in [Days -> Seq(Stations)], NEW p
    PROVE  p \in Routed <=> PlacedIn(routes, p)
<1>1. \A d \in Days : DOMAIN routes[d] = 1 .. Len(routes[d])
  OBVIOUS
<1>2. \A d \in Days : ToSet(routes[d]) = {routes[d][i] : i \in 1 .. Len(routes[d])}
  BY <1>1 DEF ToSet
<1>3. p \in Routed <=> \E d \in Days : \E s \in ToSet(routes[d]) : s.poi = p
  BY DEF Routed
<1>4. QED  BY <1>2, <1>3 DEF PlacedIn

\* A stop is appended to the route of its day within its range and after the way to it, if its POI
\* is on none yet.
LEMMA RouteKeeps == RoutingInv /\ Route => RoutingInv'
<1> SUFFICES ASSUME RoutingInv, Route PROVE RoutingInv'
  OBVIOUS
<1>1. /\ engine = "routing" /\ stage = "building" /\ request' = request /\ engine' = engine
      /\ variants' = variants /\ stage' = stage
  BY DEF Route
<1>2. Asked /\ Asked' /\ VariantsFit /\ RoutesDriven
  BY <1>1, SameAsked DEF RoutingInv, RoutingPart
<1>3. WellFormed(request)
  BY <1>2 DEF Asked
<1>4. PICK p \in Pois \ Routed : \E v \in variants[p] :
        LET from == Vehicle(v.day)
            earliest == Max({Minute(v.opens), from.free + Transit(Leg(from.node, p))})
        IN  \E minute \in {earliest + w : w \in Delays} :
              /\ minute <= Minute(v.latest)
              /\ routes' = [routes EXCEPT ![v.day] = Append(@, [poi |-> p, minute |-> minute])]
  BY DEF Route
<1>5. PICK v \in variants[p] :
        LET from == Vehicle(v.day)
            earliest == Max({Minute(v.opens), from.free + Transit(Leg(from.node, p))})
        IN  \E minute \in {earliest + w : w \in Delays} :
              /\ minute <= Minute(v.latest)
              /\ routes' = [routes EXCEPT ![v.day] = Append(@, [poi |-> p, minute |-> minute])]
  BY <1>4
<1> DEFINE from == Vehicle(v.day)
           arrive == from.free + Transit(Leg(from.node, p))
           earliest == Max({Minute(v.opens), arrive})
<1>6. PICK w \in Delays :
        /\ earliest + w <= Minute(v.latest)
        /\ routes' = [routes EXCEPT ![v.day] = Append(@, [poi |-> p, minute |-> earliest + w])]
  BY <1>5
<1>7. PICK d, route, s : d = v.day /\ route = routes[d] /\ s = [poi |-> p, minute |-> earliest + w]
  OBVIOUS
<1>8. Fits(v, p) /\ p \in Pois
  BY <1>2 DEF VariantsFit
<1>9. /\ v \in AllVariants /\ Usable(v) /\ v.poi = p /\ d \in Days
      /\ v.opens \in Int /\ v.latest \in Int
  BY <1>7, <1>8 DEF Fits, Usable, AllVariants
<1>10. Driven(d, route) /\ routes \in [Days -> Seq(Stations)] /\ OnceIn(routes)
  BY <1>2, <1>7, <1>9 DEF RoutesDriven
<1> DEFINE n == Len(route)
<1>11. n \in Nat /\ n \in 0 .. n /\ route \in Seq(Stations)
  BY <1>10 DEF Driven
<1>12. from.node = Where(route, n) /\ from.free = Free(d, route, n)
  <2>1. Vehicle(v.day) = Drives(d, route)[n]
    BY <1>7 DEF Vehicle
  <2>2. QED  BY <1>11, <2>1, DriveTrace
<1> HIDE DEF from
<1>13. Where(route, n) \in Places /\ Free(d, route, n) \in Int /\ p \in Goals
  BY <1>3, <1>8, <1>9, <1>11, FreeIsMinute DEF Goals, Places
<1>14. Transit(Leg(Where(route, n), p)) \in Nat
  BY <1>3, <1>13, TransitType
<1>15. arrive \in Int /\ arrive = Free(d, route, n) + Transit(Leg(Where(route, n), p))
  BY <1>12, <1>13, <1>14
<1>16. Minute(v.opens) \in Int /\ Minute(v.latest) \in Int /\ w \in Nat
  BY <1>3, <1>9, MinuteDrops, RequestsAssumption
<1> HIDE DEF arrive
<1>17. earliest = IF Minute(v.opens) >= arrive THEN Minute(v.opens) ELSE arrive
  BY <1>15, <1>16, MaxOfTwo
<1> HIDE DEF earliest
<1>18. /\ earliest + w \in Int /\ Minute(v.opens) <= earliest + w /\ arrive <= earliest + w
       /\ earliest + w <= Minute(v.latest)
  BY <1>6, <1>15, <1>16, <1>17
<1>19. s \in Stations /\ s.poi = p /\ s.minute = earliest + w
  BY <1>7, <1>8, <1>18 DEF Stations
<1>20. PICK new : new = Append(route, s)
  OBVIOUS
<1>21. Driven(d, new)
  BY <1>7, <1>9, <1>10, <1>15, <1>18, <1>19, <1>20, DrivenOn
<1>22. routes' = [routes EXCEPT ![d] = new]
  BY <1>6, <1>7, <1>10, <1>20
<1>23. /\ new \in Seq(Stations) /\ Len(new) = n + 1 /\ new[n + 1] = s
       /\ \A k \in 1 .. n : new[k] = route[k]
  BY <1>11, <1>19, <1>20
<1>24. \A q : q \in Routed <=> PlacedIn(routes, q)
  BY <1>10, RoutedIsPlaced
<1>25. ~PlacedIn(routes, p)
  BY <1>24
<1>26. routes' \in [Days -> Seq(Stations)] /\ routes'[d] = new
       /\ \A e \in Days : e # d => routes'[e] = routes[e]
  BY <1>9, <1>10, <1>22, <1>23
<1>27. ASSUME NEW e \in Days, NEW r, r = routes'[e] PROVE Driven(e, r)'
  <2>1. CASE e = d
    BY <1>1, <1>21, <1>26, <1>27, <2>1, SameDriven
  <2>2. CASE e # d
    <3>1. Driven(e, r)
      BY <1>2, <1>26, <1>27, <2>2 DEF RoutesDriven
    <3>2. QED  BY <1>1, <3>1, SameDriven
  <2>3. QED  BY <2>1, <2>2
<1>28. OnceIn(routes)'
  <2> SUFFICES ASSUME NEW e \in Days, NEW g \in Days, NEW i \in 1 .. Len(routes'[e]),
                      NEW j \in 1 .. Len(routes'[g]), routes'[e][i].poi = routes'[g][j].poi
               PROVE  e = g /\ i = j
    BY DEF OnceIn
  <2>1. ASSUME NEW h \in Days, NEW k \in 1 .. Len(routes'[h]), ~(h = d /\ k = n + 1)
        PROVE  k \in 1 .. Len(routes[h]) /\ routes'[h][k] = routes[h][k]
    <3>1. CASE h = d
      <4>1. routes'[h] = new /\ routes[h] = route /\ k \in 1 .. n + 1 /\ k # n + 1
        BY <1>7, <1>23, <1>26, <2>1, <3>1
      <4>2. k \in 1 .. n
        BY <1>11, <4>1
      <4>3. QED  BY <1>23, <4>1, <4>2
    <3>2. CASE h # d
      BY <1>26, <3>2
    <3>3. QED  BY <3>1, <3>2
  <2>2. ASSUME NEW h \in Days, NEW k \in 1 .. Len(routes'[h]), ~(h = d /\ k = n + 1)
        PROVE  routes'[h][k].poi # p
    BY <1>25, <2>1, <2>2 DEF PlacedIn
  <2>3. routes'[d][n + 1].poi = p
    BY <1>19, <1>23, <1>26
  <2>4. CASE e = d /\ i = n + 1
    BY <2>2, <2>3, <2>4
  <2>5. CASE g = d /\ j = n + 1
    BY <2>2, <2>3, <2>5
  <2>6. CASE ~(e = d /\ i = n + 1) /\ ~(g = d /\ j = n + 1)
    <3>1. /\ i \in 1 .. Len(routes[e]) /\ routes'[e][i] = routes[e][i]
          /\ j \in 1 .. Len(routes[g]) /\ routes'[g][j] = routes[g][j]
      BY <2>1, <2>6
    <3>2. QED  BY <1>10, <3>1 DEF OnceIn
  <2>7. QED  BY <2>4, <2>5, <2>6
<1>29. RoutesDriven'
  BY <1>26, <1>27, <1>28 DEF RoutesDriven
<1>30. VariantsFit'
  BY <1>1, <1>2, SameVariantsFit
<1>31. QED  BY <1>1, <1>2, <1>29, <1>30 DEF RoutingInv, RoutingPart

\* The steps that touch neither the routes nor what they are built from.
LEMMA StillRouted ==
    ASSUME RoutingInv, request' = request, engine' = engine, variants' = variants, routes' = routes,
           stage' = "new" => stage = "new"
    PROVE  RoutingInv'
<1>1. Asked'
  BY SameAsked DEF RoutingInv
<1>2. CASE engine # "routing"
  BY <1>1, <1>2 DEF RoutingInv
<1>3. CASE engine = "routing"
  <2>1. VariantsFit /\ RoutesDriven /\ (stage = "new" => routes = NoRoutes)
    BY <1>3 DEF RoutingInv, RoutingPart
  <2>2. VariantsFit' /\ RoutesDriven'
    BY <2>1, SameVariantsFit, DrivenStays
  <2>3. (stage = "new" => routes = NoRoutes)'
    BY <2>1 DEF NoRoutes
  <2>4. QED  BY <1>1, <2>2, <2>3 DEF RoutingInv, RoutingPart
<1>4. QED  BY <1>2, <1>3

\* The steps of the greedy engine are none of a routing job.
LEMMA GreedyKeepsRouting ==
    RoutingInv /\ (StartGreedy \/ Insert \/ Skip \/ Filled \/ TwoOpt \/ Emit) => RoutingInv'
<1> SUFFICES ASSUME RoutingInv, StartGreedy \/ Insert \/ Skip \/ Filled \/ TwoOpt \/ Emit
             PROVE  RoutingInv'
  OBVIOUS
<1>1. engine = "greedy" /\ request' = request /\ engine' = engine
  BY DEF StartGreedy, Insert, Skip, Filled, TwoOpt, Emit
<1>2. Asked'
  BY <1>1, SameAsked DEF RoutingInv
<1>3. QED  BY <1>1, <1>2 DEF RoutingInv

\* Every step keeps the invariant.
LEMMA RoutingKeeps == RoutingInv /\ [Next]_vars => RoutingInv'
<1> SUFFICES ASSUME RoutingInv, [Next]_vars PROVE RoutingInv'
  OBVIOUS
<1>1. CASE Publish \/ NoRoute
  <2>1. /\ request' = request /\ engine' = engine /\ variants' = variants /\ routes' = routes
        /\ stage' = "answered"
    BY <1>1 DEF Publish, NoRoute, Reply
  <2>2. QED  BY <2>1, StillRouted
<1>2. CASE UNCHANGED vars
  BY <1>2, StillRouted DEF vars
<1>3. QED  BY <1>1, <1>2, StartRoutingKeeps, RouteKeeps, GreedyKeepsRouting DEF Next

\* In every reachable state of a routing job each stop is reachable from the one before it, in the
\* minutes of the model, and no POI stands twice.
THEOREM RoutingInvariance == Spec => []RoutingInv
BY RoutingStarts, RoutingKeeps, PTL DEF Spec

-----------------------------------------------------------------------------
(* The check of what the routing engine reads back. *)

\* The stops of a day, as they are read back.
ReadBack(route) ==
    [i \in DOMAIN route |->
        LET s == route[i]
            arrive == Epoch + Minutes(s.minute)
        IN  Stop(s.poi, arrive, arrive + Duration(s.poi))]

\* When stop k begins, and when it is over.
Comes(route, k) == Epoch + Minutes(route[k].minute)
Ends(d, route, k) ==
    IF k = 0 THEN Day(d).start ELSE Comes(route, k) + Duration(route[k].poi)

\* What the seconds, and the tenths of a metre, may make the check find.
Seconds == IF HasSeconds THEN {"overlap", "travel_overlap", "outside_hours", "missed_deadline"} ELSE {}
Tenths == IF HasTenths THEN {"walking_budget"} ELSE {}

\* What is read back of a stop: its POI, and its minute as a time.
LEMMA StationType ==
    ASSUME WellFormed(request), NEW route \in Seq(Stations), NEW k \in 1 .. Len(route)
    PROVE  /\ route[k].poi \in Pois /\ route[k].minute \in Int /\ Comes(route, k) \in Int
           /\ ReadBack(route)[k].poi = route[k].poi
           /\ ReadBack(route)[k].arrive = Comes(route, k)
           /\ ReadBack(route)[k].depart = Comes(route, k) + Duration(route[k].poi)
<1>1. route[k] \in Stations /\ DOMAIN route = 1 .. Len(route)
  OBVIOUS
<1>2. route[k].poi \in Pois /\ route[k].minute \in Int
  BY <1>1 DEF Stations
<1>3. Epoch \in Int
  BY EpochType
<1>4. Comes(route, k) \in Int
  BY <1>2, <1>3 DEF Comes, Minutes
<1>5. ReadBack(route)[k] = Stop(route[k].poi, Comes(route, k), Comes(route, k) + Duration(route[k].poi))
  BY <1>1 DEF ReadBack, Comes
<1>6. QED  BY <1>2, <1>4, <1>5 DEF Stop

\* A start without seconds.
LEMMA StartIsEven ==
    ASSUME WellFormed(request), NEW d \in Days, ~HasSeconds
    PROVE  Day(d).start % 2 = 0
BY DEF HasSeconds, Minutes

\* Without odd seconds every opening is a whole minute.
LEMMA OpeningIsEven ==
    ASSUME NEW p \in Pois, NEW d \in Days, NEW w \in Poi(p).windows[d], ~HasSeconds
    PROVE  w[1] % 2 = 0
<1> DEFINE Openings(q, e) == {x[1] : x \in Poi(q).windows[e]}
           all == {Openings(q, e) : q \in Pois, e \in Days}
<1>1. w[1] \in Openings(p, d)
  OBVIOUS
<1> HIDE DEF Openings
<1>2. Openings(p, d) \in all
  OBVIOUS
<1>3. w[1] \in UNION all
  BY <1>1, <1>2
<1>4. w[1] \in UNION {{x[1] : x \in Poi(q).windows[e]} : q \in Pois, e \in Days}
  BY <1>3 DEF Openings
<1>5. QED  BY <1>4 DEF HasSeconds, Minutes

\* The vehicle is free when the stop is over; a day may begin some seconds later.
LEMMA EndIsFree ==
    ASSUME WellFormed(request), NEW d \in Days, NEW route \in Seq(Stations), NEW k \in 0 .. Len(route)
    PROVE  /\ Ends(d, route, k) \in Int
           /\ k # 0 \/ ~HasSeconds => Ends(d, route, k) = Epoch + Minutes(Free(d, route, k))
<1>1. CASE k = 0
  <2>1. Day(d).start \in Int
    BY DeadlineType
  <2>2. Epoch + Minutes(Minute(Day(d).start)) = Day(d).start - (Day(d).start % 2)
    BY <2>1, MinuteDrops
  <2>3. ~HasSeconds => Day(d).start % 2 = 0
    BY StartIsEven
  <2>4. QED  BY <1>1, <2>1, <2>2, <2>3 DEF Ends, Free
<1>2. CASE k # 0
  <2>1. k \in 1 .. Len(route)
    BY <1>2
  <2>2. route[k].poi \in Pois /\ route[k].minute \in Int
    BY <2>1, StationType
  <2> DEFINE stay == Duration(route[k].poi)
  <2>3. stay \in Nat /\ stay % 2 = 0
    BY <2>2, DurationType
  <2>4. Epoch \in Int
    BY EpochType
  <2>5. Ends(d, route, k) = Epoch + 2 * route[k].minute + stay
    BY <1>2 DEF Ends, Comes, Minutes
  <2>6. Minutes(Free(d, route, k)) = 2 * (route[k].minute + stay \div 2)
    BY <1>2 DEF Free, Minutes
  <2> HIDE DEF stay
  <2>7. stay \div 2 \in Int /\ 2 * (stay \div 2) = stay
    BY <2>3
  <2> DEFINE half == stay \div 2
             m == route[k].minute
  <2>8. half \in Int /\ m \in Int /\ Epoch + 2 * m + stay = Epoch + 2 * (m + half)
    <3>1. half \in Int /\ m \in Int /\ stay = 2 * half
      BY <2>2, <2>7
    <3> HIDE DEF half, m
    <3>2. QED  BY <2>4, <3>1
  <2>9. Minutes(Free(d, route, k)) = 2 * (m + half) /\ Ends(d, route, k) = Epoch + 2 * m + stay
    BY <2>5, <2>6
  <2>10. Epoch + 2 * m + stay \in Int
    <3> HIDE DEF m
    <3>1. QED  BY <2>3, <2>4, <2>8
  <2>11. QED  BY <2>8, <2>9, <2>10
<1>3. QED  BY <1>1, <1>2

\* A stop read back begins after the way to it, and within hours, unless seconds were dropped.
LEMMA StopPasses ==
    ASSUME WellFormed(request), NEW d \in Days, NEW route, Driven(d, route), NEW k \in 1 .. Len(route)
    PROVE  /\ k # 1 \/ ~HasSeconds =>
                Comes(route, k) >= Ends(d, route, k - 1) + Leg(Where(route, k - 1), route[k].poi).time
           /\ ~HasSeconds /\ ~NoHours(route[k].poi) =>
                \E w \in Poi(route[k].poi).windows[d] :
                    w[1] <= Comes(route, k) /\ Comes(route, k) + Duration(route[k].poi) <= w[2]
<1> DEFINE p == route[k].poi
           leg == Leg(Where(route, k - 1), p)
           begin == Comes(route, k)
           free == Free(d, route, k - 1)
<1>1. route \in Seq(Stations) /\ Reachable(d, route, k) /\ k - 1 \in 0 .. Len(route)
  BY DEF Driven
<1>2. p \in Pois /\ route[k].minute \in Int /\ begin \in Int
  BY <1>1, StationType
<1>3. Epoch \in Int
  BY EpochType
<1>4. Where(route, k - 1) \in Places /\ free \in Int
  BY <1>1, FreeIsMinute
<1>5. leg.time \in Nat /\ Transit(leg) \in Nat /\ Minutes(Transit(leg)) >= leg.time
  BY <1>2, <1>4, LegType, TransitType DEF Goals, Places
<1>6. free + Transit(leg) <= route[k].minute
  BY <1>1 DEF Reachable
<1>7. /\ Ends(d, route, k - 1) \in Int
      /\ k - 1 # 0 \/ ~HasSeconds => Ends(d, route, k - 1) = Epoch + Minutes(free)
  BY <1>1, EndIsFree
<1>8. begin = Epoch + Minutes(route[k].minute)
  BY DEF Comes
<1>9. k # 1 \/ ~HasSeconds => begin >= Ends(d, route, k - 1) + leg.time
  <2> SUFFICES ASSUME k # 1 \/ ~HasSeconds PROVE begin >= Ends(d, route, k - 1) + leg.time
    OBVIOUS
  <2> DEFINE way == Transit(leg)
             end == Ends(d, route, k - 1)
             minute == route[k].minute
             time == leg.time
  <2>1. k - 1 # 0 \/ ~HasSeconds
    OBVIOUS
  <2>2. end = Epoch + 2 * free
    BY <1>7, <2>1 DEF Minutes
  <2>3. 2 * way >= time /\ begin = Epoch + 2 * minute
    BY <1>5, <1>8 DEF Minutes
  <2> HIDE DEF begin, free, way, end, minute, time
  <2>4. minute \in Int /\ free \in Int /\ way \in Nat /\ time \in Nat /\ free + way <= minute
    BY <1>2, <1>4, <1>5, <1>6 DEF minute, free, way, time
  <2>5. begin >= end + time
    BY <1>3, <2>2, <2>3, <2>4
  <2>6. QED  BY <2>5 DEF end, time
<1>10. ASSUME ~HasSeconds, ~NoHours(p)
       PROVE  \E w \in Poi(p).windows[d] : w[1] <= begin /\ begin + Duration(p) <= w[2]
  <2>1. PICK v \in AllVariants :
             /\ Usable(v) /\ v.poi = p /\ v.day = d
             /\ Minute(v.opens) <= route[k].minute /\ route[k].minute <= Minute(v.latest)
    BY <1>1 DEF Reachable
  <2>2. Fits(v, p)
    BY <2>1 DEF Usable
  <2>3. PICK w \in Poi(p).windows[d] :
             w \in Int \X Int /\ w[1] <= v.opens /\ v.latest + Duration(p) <= w[2]
    BY <1>10, <2>1, <2>2 DEF Fits
  <2>4. v.opens \in Int /\ v.latest \in Int
    BY <2>2 DEF Fits
  <2>5. w[1] \in Int /\ w[2] \in Int
    BY <2>3
  <2>6. w[1] % 2 = 0
    BY <1>2, <1>10, OpeningIsEven
  <2>7. /\ Minute(v.opens) \in Int /\ Epoch + Minutes(Minute(v.opens)) = v.opens - (v.opens % 2)
        /\ Minute(v.latest) \in Int /\ Epoch + Minutes(Minute(v.latest)) = v.latest - (v.latest % 2)
    BY <2>4, MinuteDrops
  <2>8. begin >= v.opens - (v.opens % 2) /\ begin <= v.latest
    <3> DEFINE a == v.opens % 2
               b == v.latest % 2
    <3>1. a \in Int /\ b \in Int /\ b >= 0
      BY <2>4
    <3> HIDE DEF a, b, begin
    <3>2. /\ Epoch + Minutes(Minute(v.opens)) = v.opens - a
          /\ Epoch + Minutes(Minute(v.latest)) = v.latest - b
      BY <2>7 DEF a, b
    <3> DEFINE minute == route[k].minute
               first == Minute(v.opens)
               last == Minute(v.latest)
    <3>3. /\ begin = Epoch + 2 * minute /\ Epoch + 2 * first = v.opens - a
          /\ Epoch + 2 * last = v.latest - b
      BY <1>8, <3>2 DEF Minutes
    <3> HIDE DEF minute, first, last
    <3>4. minute \in Int /\ first \in Int /\ last \in Int /\ first <= minute /\ minute <= last
      BY <1>2, <2>1, <2>7 DEF minute, first, last
    <3>5. begin >= v.opens - a /\ begin <= v.latest
      BY <1>3, <2>4, <3>1, <3>3, <3>4
    <3>6. QED  BY <3>5 DEF a
  <2>9. v.opens - (v.opens % 2) >= w[1]
    BY <2>3, <2>4, <2>5, <2>6
  <2>10. w[1] <= begin
    <3> DEFINE a == v.opens - (v.opens % 2)
    <3>1. a \in Int
      BY <2>4
    <3> HIDE DEF begin, a
    <3>2. begin >= a /\ a >= w[1]
      BY <2>8, <2>9 DEF a
    <3>3. QED  BY <1>2, <2>5, <3>1, <3>2
  <2>11. Duration(p) \in Nat
    BY <1>2, DurationType
  <2>12. begin + Duration(p) <= w[2]
    <3> HIDE DEF begin, p
    <3>1. QED  BY <1>2, <2>3, <2>4, <2>5, <2>8, <2>11
  <2>13. QED  BY <2>10, <2>12
<1>11. QED  BY <1>9, <1>10

\* The check after k stops of a route that is read back.
OnTheWay(d, route, k, state, vehicle) ==
    /\ state.depart = Ends(d, route, k) /\ state.node = Where(route, k)
    /\ state.walked \in Nat /\ vehicle.paces \in Nat
    /\ ~HasTenths => state.walked = Metres(vehicle.paces)
    /\ state.issues \subseteq Seconds

\* The check meets one stop after the other with nothing but the roundings against it.
LEMMA NextStop ==
    ASSUME WellFormed(request), NEW d \in Days, NEW route, Driven(d, route), NEW k \in 1 .. Len(route),
           NEW state, NEW vehicle, OnTheWay(d, route, k - 1, state, vehicle),
           vehicle.node = Where(route, k - 1)
    PROVE  OnTheWay(d, route, k, CheckStop(d, state, ReadBack(route)[k]), Drive(vehicle, route[k]))
<1> DEFINE p == route[k].poi
           stop == ReadBack(route)[k]
           leg == Leg(state.node, p)
           begin == Comes(route, k)
           overlap == When(stop.arrive < state.depart, "overlap")
           short == When(stop.depart - stop.arrive < Minutes(Poi(p).duration), "short_visit")
           outside == When(/\ ~NoHours(p)
                           /\ ~\E w \in Poi(p).windows[d] : w[1] <= stop.arrive /\ stop.depart <= w[2],
                           "outside_hours")
           hasty == When(stop.arrive < state.depart + leg.time, "travel_overlap")
           next == CheckStop(d, state, stop)
<1>1. route \in Seq(Stations) /\ k - 1 \in 0 .. Len(route) /\ k # 0
  BY DEF Driven
<1>2. /\ p \in Pois /\ begin \in Int /\ stop.poi = p /\ stop.arrive = begin
      /\ stop.depart = begin + Duration(p)
  BY <1>1, StationType
<1>3. /\ state.depart = Ends(d, route, k - 1) /\ state.node = Where(route, k - 1)
      /\ state.walked \in Nat /\ vehicle.paces \in Nat
      /\ ~HasTenths => state.walked = Metres(vehicle.paces)
      /\ state.issues \subseteq Seconds
  BY DEF OnTheWay
<1>4. p # Meal
  BY <1>2, PoiIsNoMeal
<1> HIDE DEF stop, p
<1>5. next = [depart |-> stop.depart, node |-> p, walked |-> state.walked + Walked(leg),
              issues |-> state.issues \cup overlap \cup short \cup outside \cup hasty]
  BY <1>2, <1>4 DEF CheckStop
<1> HIDE DEF overlap, short, outside, hasty, next
<1>6. /\ next.depart = begin + Duration(p) /\ next.node = p /\ next.walked = state.walked + Walked(leg)
      /\ next.issues = state.issues \cup overlap \cup short \cup outside \cup hasty
  BY <1>2, <1>5
<1>7. state.depart \in Int
  BY <1>1, <1>3, EndIsFree
<1>8. /\ k # 1 \/ ~HasSeconds => begin >= state.depart + leg.time
      /\ ~HasSeconds /\ ~NoHours(p) =>
           \E w \in Poi(p).windows[d] : w[1] <= begin /\ begin + Duration(p) <= w[2]
  BY <1>3, StopPasses DEF p
<1>9. state.node \in Places /\ p \in Goals
  BY <1>1, <1>2, <1>3, FreeIsMinute DEF Goals, Places
<1>10. leg.time \in Nat /\ Walked(leg) \in Nat
  BY <1>9, LegType
<1> HIDE DEF begin
<1>11. ~HasSeconds => overlap = {} /\ hasty = {}
  <2> DEFINE end == state.depart
             time == leg.time
  <2>1. end \in Int /\ time \in Nat /\ begin \in Int
    BY <1>2, <1>7, <1>10
  <2>2. ~HasSeconds => begin >= end + time
    BY <1>8
  <2>3. overlap = When(begin < end, "overlap") /\ hasty = When(begin < end + time, "travel_overlap")
    BY <1>2 DEF overlap, hasty
  <2> HIDE DEF end, time
  <2>4. QED  BY <2>1, <2>2, <2>3 DEF When
<1>12. overlap \subseteq Seconds /\ hasty \subseteq Seconds
  <2>1. overlap \subseteq {"overlap"} /\ hasty \subseteq {"travel_overlap"}
    BY DEF overlap, hasty, When
  <2>2. QED  BY <1>11, <2>1 DEF Seconds
<1>13. short = {}
  <2>1. Duration(p) \in Nat /\ Minutes(Poi(p).duration) \in Nat /\ Duration(p) >= Minutes(Poi(p).duration)
    BY <1>2, DurationType
  <2>2. short = When((begin + Duration(p)) - begin < Minutes(Poi(p).duration), "short_visit")
    BY <1>2 DEF short
  <2> DEFINE stay == Duration(p)
             least == Minutes(Poi(p).duration)
  <2> HIDE DEF stay, least
  <2>3. ~((begin + stay) - begin < least)
    BY <1>2, <2>1 DEF stay, least
  <2>4. QED  BY <2>2, <2>3 DEF When, stay, least
<1>14. outside \subseteq Seconds
  <2>1. outside \subseteq {"outside_hours"}
    BY DEF outside, When
  <2>2. ~HasSeconds => outside = {}
    BY <1>2, <1>8 DEF outside, When
  <2>3. QED  BY <2>1, <2>2 DEF Seconds
<1>15. next.issues \subseteq Seconds
  BY <1>3, <1>6, <1>12, <1>13, <1>14
<1>16. next.depart = Ends(d, route, k) /\ next.node = Where(route, k)
  BY <1>1, <1>6 DEF Ends, Where, begin, p
<1>17. Drive(vehicle, route[k]).paces = vehicle.paces + Paces(leg)
  BY <1>3 DEF Drive, p
<1>18. Paces(leg) \in Nat /\ (~HasTenths => Metres(Paces(leg)) = Walked(leg))
  BY <1>9, PacesType
<1>19. /\ next.walked \in Nat /\ Drive(vehicle, route[k]).paces \in Nat
       /\ ~HasTenths => next.walked = Metres(Drive(vehicle, route[k]).paces)
  <2> DEFINE far == Walked(leg)
             more == Paces(leg)
             old == vehicle.paces
  <2>1. /\ far \in Nat /\ more \in Nat /\ old \in Nat /\ state.walked \in Nat
        /\ ~HasTenths => 10 * more = far /\ state.walked = 10 * old
    BY <1>3, <1>10, <1>18 DEF Metres
  <2> DEFINE gone == state.walked
             all == next.walked
             paces == Drive(vehicle, route[k]).paces
  <2>2. all = gone + far /\ paces = old + more
    BY <1>6, <1>17
  <2> HIDE DEF far, more, old, gone, all, paces
  <2>3. all \in Nat /\ paces \in Nat
    BY <2>1, <2>2 DEF gone
  <2>4. ~HasTenths => all = 10 * paces
    BY <2>1, <2>2 DEF gone
  <2>5. QED  BY <2>3, <2>4 DEF Metres, all, paces
<1>20. OnTheWay(d, route, k, next, Drive(vehicle, route[k]))
  BY <1>15, <1>16, <1>19 DEF OnTheWay
<1>21. QED  BY <1>20 DEF next, stop

\* So it does along the whole route, in step with the vehicle.
LEMMA AllTheWay ==
    ASSUME WellFormed(request), NEW d \in Days, NEW route, Driven(d, route)
    PROVE  \A k \in 0 .. Len(route) :
              OnTheWay(d, route, k, Checks(d, ReadBack(route))[k], Drives(d, route)[k])
<1> DEFINE n == Len(route)
           stops == ReadBack(route)
           Good == {k \in 0 .. n : OnTheWay(d, route, k, Checks(d, stops)[k], Drives(d, route)[k])}
<1>1. n \in Nat /\ DOMAIN route = 1 .. n
  BY DEF Driven
<1>2. Len(stops) = n
  BY <1>1 DEF ReadBack
<1>3. /\ Checks(d, stops)[0] = Unchecked(d)
      /\ \A k \in 1 .. n : Checks(d, stops)[k] = CheckStop(d, Checks(d, stops)[k - 1], stops[k])
  BY <1>1, <1>2, CheckSteps
<1>4. /\ Drives(d, route)[0] = Parked(d)
      /\ \A k \in 1 .. n : Drives(d, route)[k] = Drive(Drives(d, route)[k - 1], route[k])
  BY <1>1, DriveSteps
<1> HIDE DEF stops
<1>5. 0 \in Good
  <2>1. OnTheWay(d, route, 0, Unchecked(d), Parked(d))
    BY DEF OnTheWay, Unchecked, Parked, Ends, Where, Metres
  <2>2. QED  BY <1>1, <1>3, <1>4, <2>1
<1>6. ASSUME NEW k \in 1 .. n, k - 1 \in Good PROVE k \in Good
  <2>1. Drives(d, route)[k - 1].node = Where(route, k - 1)
    BY <1>1, <1>6, DriveTrace
  <2>2. OnTheWay(d, route, k, CheckStop(d, Checks(d, stops)[k - 1], stops[k]),
                 Drive(Drives(d, route)[k - 1], route[k]))
    BY <1>6, <2>1, NextStop DEF stops
  <2>3. OnTheWay(d, route, k, Checks(d, stops)[k], Drives(d, route)[k])
    BY <1>3, <1>4, <2>2
  <2>4. QED  BY <1>1, <2>3
<1>7. \A k \in 0 .. n : k \in Good
  <2> HIDE DEF Good, n
  <2>1. QED  BY <1>1, <1>5, <1>6, UpTo
<1>8. QED  BY <1>7 DEF stops

\* A day that can be closed passes the check, but for the seconds and the tenths.
LEMMA ClosedPasses ==
    ASSUME WellFormed(request), NEW d \in Days, Driven(d, routes[d]), Closed(d)
    PROVE  CheckDay(d, ReadBack(routes[d])) \subseteq Seconds \cup Tenths
<1> DEFINE route == routes[d]
           n == Len(route)
           last == Checks(d, ReadBack(route))[n]
           from == Vehicle(d)
           goal == IF Day(d).end = None THEN Hotel ELSE Day(d).end
           drive == Leg(from.node, goal)
           home == Home(d, last.node)
           late == When(Deadline(d) # None /\ last.depart + home.time > Deadline(d), "missed_deadline")
           far == When(/\ Day(d).budget # None
                       /\ last.walked + Walked(home) > Day(d).budget + Metres(1), "walking_budget")
<1>1. n \in Nat /\ n \in 0 .. n /\ DOMAIN route = 1 .. n /\ route \in Seq(Stations)
  BY DEF Driven
<1>2. Len(ReadBack(route)) = n
  BY <1>1 DEF ReadBack
<1>3. CheckDay(d, ReadBack(route)) = last.issues \cup late \cup far
  BY <1>2 DEF CheckDay
<1>4. OnTheWay(d, route, n, last, from)
  BY <1>1, AllTheWay DEF Vehicle
<1>5. from.node = Where(route, n) /\ from.free = Free(d, route, n)
  BY <1>1, DriveTrace DEF Vehicle
<1>6. /\ from.free + Transit(drive) <= Minute(DayEnd(d))
      /\ Day(d).budget # None => from.paces + Paces(drive) <= Rounded(Day(d).budget, Metres(1))
  BY DEF Closed
<1> HIDE DEF route, n, last, from, late, far
<1>7. Where(route, n) \in Places /\ Free(d, route, n) \in Int
  BY <1>1, FreeIsMinute
<1>8. goal \in Goals /\ from.node \in Places /\ last.node = from.node
  BY <1>4, <1>5, <1>7 DEF OnTheWay, Goals, Places
<1>9. /\ drive.time \in Nat /\ Walked(drive) \in Nat /\ Transit(drive) \in Nat
      /\ Minutes(Transit(drive)) >= drive.time
      /\ Paces(drive) \in Nat /\ (~HasTenths => Metres(Paces(drive)) = Walked(drive))
  BY <1>8, LegType, TransitType, PacesType
<1>10. home.time \in Nat /\ Walked(home) \in Nat
  BY <1>8, HomeType
<1>11. home.time <= drive.time /\ Walked(home) <= Walked(drive)
  <2>1. CASE Day(d).end = None
    <3>1. home = Leg(last.node, last.node)
      BY <2>1 DEF Home
    <3>2. home.time = 0 /\ Walked(home) = 0
      BY <3>1 DEF Leg, Walked
    <3> HIDE DEF home, drive
    <3>3. QED  BY <1>9, <3>2
  <2>2. CASE Day(d).end # None
    <3>1. home = drive
      BY <1>8, <2>2 DEF Home
    <3> HIDE DEF home, drive
    <3>2. QED  BY <1>9, <3>1
  <2>3. QED  BY <2>1, <2>2
<1> HIDE DEF home, drive
<1>12. late \subseteq Seconds
  <2>1. late \subseteq {"missed_deadline"}
    BY DEF late, When
  <2>2. CASE HasSeconds
    BY <2>1, <2>2 DEF Seconds
  <2>3. CASE ~HasSeconds
    <3> DEFINE free == Free(d, route, n)
               way == Transit(drive)
               deadline == Deadline(d)
               closing == Minute(DayEnd(d))
               odd == DayEnd(d) % 2
    <3>1. last.depart = Epoch + 2 * free
      <4>1. last.depart = Ends(d, route, n)
        BY <1>4 DEF OnTheWay
      <4>2. QED  BY <1>1, <2>3, <4>1, EndIsFree DEF Minutes
    <3>2. ASSUME deadline # None PROVE ~(last.depart + home.time > deadline)
      <4>1. deadline \in Int /\ DayEnd(d) = deadline
        BY <3>2, DeadlineType
      <4>2. closing \in Int /\ Epoch + 2 * closing = deadline - odd
        BY <4>1, MinuteDrops DEF Minutes
      <4>3. odd \in Int /\ odd >= 0
        BY <4>1
      <4>4. Epoch \in Int
        BY EpochType
      <4>5. free \in Int /\ way \in Nat /\ 2 * way >= drive.time /\ free + way <= closing
        BY <1>5, <1>6, <1>7, <1>9 DEF Minutes
      <4> HIDE DEF free, way, deadline, closing, odd
      <4>6. QED  BY <1>9, <1>10, <1>11, <3>1, <4>1, <4>2, <4>3, <4>4, <4>5
    <3>3. late = {}
      BY <3>2 DEF late, When
    <3>4. QED  BY <3>3
  <2>4. QED  BY <2>2, <2>3
<1>13. far \subseteq Tenths
  <2>1. far \subseteq {"walking_budget"}
    BY DEF far, When
  <2>2. CASE HasTenths
    BY <2>1, <2>2 DEF Tenths
  <2>3. CASE ~HasTenths
    <3> DEFINE budget == Day(d).budget
               most == Rounded(budget, Metres(1))
               steps == from.paces
               more == Paces(drive)
    <3>1. ASSUME budget # None PROVE ~(last.walked + Walked(home) > budget + Metres(1))
      <4>1. budget \in Int
        BY <3>1, DeadlineType
      <4>2. most \in Int /\ 10 * most <= budget + 5
        BY <4>1, BudgetRounds DEF Metres
      <4>3. steps \in Nat /\ more \in Nat /\ steps + more <= most
        BY <1>4, <1>6, <1>9, <3>1 DEF OnTheWay
      <4>4. last.walked = 10 * steps /\ Walked(drive) = 10 * more
        BY <1>4, <1>9, <2>3 DEF OnTheWay, Metres
      <4> HIDE DEF budget, most, steps, more
      <4>5. last.walked + Walked(home) <= budget + 5
        BY <1>9, <1>10, <1>11, <4>1, <4>2, <4>3, <4>4
      <4>6. last.walked \in Int /\ Walked(home) \in Int
        BY <1>10, <4>3, <4>4
      <4>7. QED  BY <4>1, <4>5, <4>6 DEF Metres
    <3>2. far = {}
      BY <3>1 DEF far, When
    <3>3. QED  BY <3>2
  <2>4. QED  BY <2>2, <2>3
<1>14. last.issues \subseteq Seconds
  BY <1>4 DEF OnTheWay
<1>15. QED  BY <1>3, <1>12, <1>13, <1>14 DEF route

\* RoutedPassesGate: follows from the invariant.
LEMMA InvPassesGate == RoutingInv => RoutedPassesGate
<1> SUFFICES ASSUME RoutingInv, Complete
             PROVE  Issues(Schedule) \subseteq
                      (IF HasSeconds THEN {"overlap", "travel_overlap", "outside_hours", "missed_deadline"} ELSE {})
                        \cup (IF HasTenths THEN {"walking_budget"} ELSE {})
  BY DEF RoutedPassesGate
<1>1. /\ engine = "routing"
      /\ \A p \in Pois : Poi(p).mustDo => p \in Routed
      /\ \A d \in Days : Closed(d)
  BY DEF Complete
<1>2. WellFormed(request) /\ RoutesDriven
  BY <1>1 DEF RoutingInv, RoutingPart, Asked
<1>3. routes \in [Days -> Seq(Stations)] /\ OnceIn(routes) /\ \A d \in Days : Driven(d, routes[d])
  BY <1>2 DEF RoutesDriven
<1>4. \A d \in Days : Schedule[d] = ReadBack(routes[d])
  BY DEF Schedule, ReadBack
<1>5. \A d \in Days : CheckDay(d, Schedule[d]) \subseteq Seconds \cup Tenths
  BY <1>1, <1>2, <1>3, <1>4, ClosedPasses
<1>6. ASSUME NEW d \in Days
      PROVE  /\ Schedule[d] \in Seq([poi : Pois, arrive : Int, depart : Int])
             /\ Len(Schedule[d]) = Len(routes[d])
             /\ \A i \in 1 .. Len(routes[d]) : Schedule[d][i].poi = routes[d][i].poi
  <2>1. PICK route : route = routes[d]
    OBVIOUS
  <2>2. route \in Seq(Stations) /\ Len(route) \in Nat /\ DOMAIN route = 1 .. Len(route)
    BY <1>3, <2>1
  <2>3. ASSUME NEW i \in 1 .. Len(route)
        PROVE  /\ ReadBack(route)[i] \in [poi : Pois, arrive : Int, depart : Int]
               /\ ReadBack(route)[i].poi = route[i].poi
    <3>1. /\ route[i].poi \in Pois /\ Comes(route, i) \in Int
          /\ ReadBack(route)[i].poi = route[i].poi
      BY <1>2, <2>2, StationType
    <3>2. Duration(route[i].poi) \in Nat
      BY <1>2, <3>1, DurationType
    <3>3. ReadBack(route)[i] = Stop(route[i].poi, Comes(route, i), Comes(route, i) + Duration(route[i].poi))
      BY <2>2 DEF ReadBack, Comes
    <3>4. QED  BY <3>1, <3>2, <3>3 DEF Stop
  <2>4. /\ ReadBack(route) \in Seq([poi : Pois, arrive : Int, depart : Int])
        /\ Len(ReadBack(route)) = Len(route)
    <3> DEFINE T == ReadBack(route)
               S == [poi : Pois, arrive : Int, depart : Int]
    <3>1. T = [i \in 1 .. Len(route) |-> T[i]]
      BY <2>2 DEF ReadBack
    <3>2. \A i \in 1 .. Len(route) : T[i] \in S
      BY <2>3
    <3> HIDE DEF T, S
    <3>3. T \in Seq(S) /\ Len(T) = Len(route)
      BY <2>2, <3>1, <3>2
    <3>4. QED  BY <3>3 DEF T, S
  <2>5. QED  BY <1>4, <2>1, <2>3, <2>4
<1>7. PICK days : days = Schedule
  OBVIOUS
<1>8. \A p \in Pois : Cardinality(Visits(days, p)) = IF PlacedIn(days, p) THEN 1 ELSE 0
  <2>1. PICK S : \A d \in Days : days[d] \in Seq(S)
    BY <1>6, <1>7
  <2>2. ASSUME NEW p \in Pois, NEW d \in Days, NEW e \in Days, NEW i \in 1 .. Len(days[d]),
               NEW j \in 1 .. Len(days[e]), days[d][i].poi = p, days[e][j].poi = p
        PROVE  d = e /\ i = j
    <3>1. i \in 1 .. Len(routes[d]) /\ j \in 1 .. Len(routes[e])
      BY <1>6, <1>7
    <3>2. routes[d][i].poi = p /\ routes[e][j].poi = p
      BY <1>6, <1>7, <2>2, <3>1
    <3>3. QED  BY <1>3, <3>1, <3>2 DEF OnceIn
  <2>3. QED  BY <2>1, <2>2, VisitedOnce
<1>9. \A p : PlacedIn(days, p) <=> PlacedIn(routes, p)
  BY <1>6, <1>7 DEF PlacedIn
<1>10. ~\E p \in Pois : Cardinality(Visits(days, p)) > 1
  BY <1>8
<1>11. ~\E p \in Pois : Poi(p).mustDo /\ Visits(days, p) = {}
  <2> SUFFICES ASSUME NEW p \in Pois, Poi(p).mustDo, Visits(days, p) = {} PROVE FALSE
    OBVIOUS
  <2>1. PlacedIn(routes, p)
    BY <1>1, <1>3, RoutedIsPlaced
  <2>2. Cardinality(Visits(days, p)) = 1
    BY <1>8, <1>9, <2>1
  <2>3. QED  BY <2>2, FS_EmptySet
<1>12. Issues(days) = UNION {CheckDay(d, days[d]) : d \in Days}
  BY <1>10, <1>11 DEF Issues, When
<1>13. Issues(days) \subseteq Seconds \cup Tenths
  BY <1>5, <1>7, <1>12
<1>14. QED  BY <1>7, <1>13 DEF Seconds, Tenths

\* RoutedPassesGate.  Nothing that the dimensions of the routing model allow is lost to
\* the independent check, but for seconds and for tenths of a metre.
THEOREM RoutedPasses == Spec => []RoutedPassesGate
BY RoutingInvariance, InvPassesGate, PTL

====
