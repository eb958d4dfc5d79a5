----------------------------- MODULE SolverModel ------------------------------
(****************************************************************************)
(* What the two engines of the itinerary solver share: a request, the       *)
(* scheduling policy, the expansion of its POIs into visit variants, and    *)
(* the independent check of an emitted schedule (policy.py, variants.py,    *)
(* matrix.py, feasibility.py).                                              *)
(*                                                                          *)
(* Time is counted in half minutes from a midnight, so that the rounding to *)
(* whole minutes of the routing engine can be seen; distances in tenths of  *)
(* a metre.                                                                 *)
(****************************************************************************)
EXTENDS Integers, FiniteSets, SequencesExt, FiniteSetsExt

CONSTANTS
    Pois,           \* numbers, in the order of their ids
    Days,           \* numbers: the day indexes
    Hotel,          \* the node every day starts from
    None            \* no deadline, no walking budget, no end anchor

ASSUME SolverAssumption ==
    /\ IsFiniteSet(Pois) /\ Pois \subseteq Nat \ {0}
    /\ IsFiniteSet(Days) /\ Days # {}
    /\ None \notin Int

\* What a request that has been parsed satisfies: the times are numbers, the visits
\* and the meals last a while, and every way that is asked for has a leg.
WellFormed(job) ==
    /\ \A p \in Pois :
         /\ job.poi[p].duration \in Nat \ {0}
         /\ \A d \in Days : job.poi[p].windows[d] \cup job.poi[p].best[d] \subseteq Int \X Int
    /\ \A d \in Days :
         /\ job.days[d].start \in Int
         /\ {job.days[d].deadline, job.days[d].budget} \subseteq Int \cup {None}
    /\ \A from \in Pois \cup {Hotel} :
         \A to \in Pois \cup {Hotel} \cup ({job.days[d].end : d \in Days} \ {None}) :
           from # to => /\ <<from, to>> \in DOMAIN job.legs
                        /\ job.legs[<<from, to>>] \in [walk : BOOLEAN, time : Nat, meters : Nat]
    /\ \A sky \in job.weather : sky.span \in Int \X Int
    /\ {job.options.age, job.options.accessBuffer, job.options.maxDay} \subseteq Nat
    /\ job.options.mealTime \in Nat \ {0}
    /\ IsFiniteSet(job.options.meals)
    /\ \A hours \in job.options.meals : {hours[1], hours[2]} \subseteq Nat

VARIABLE request    \* what the job asks; never changes

\* The element of a set of one.  TLC evaluates a bound variable once, a parameter
\* of an operator each time it is used.
The(S) == CHOOSE x \in S : TRUE

Minutes(n) == 2 * n
At(hour) == Minutes(60 * hour)
Metres(n) == 10 * n

Poi(p) == request.poi[p]
Day(d) == request.days[d]
Option == request.options

-----------------------------------------------------------------------------
(* Scheduling policy *)

\* An explicit pacing wins over the age; an unknown age counts as 40.
Pace ==
    CASE Option.pacing # "none" -> Option.pacing
      [] Option.pacing = "none" /\ Option.age < 30 -> "packed"
      [] Option.pacing = "none" /\ Option.age >= 60 -> "relaxed"
      [] OTHER -> "balanced"

DepartureMargin ==
    CASE Option.departure = "train" -> 45
      [] Option.departure = "flight" -> 150
      [] Option.departure \in {"bus", "ferry"} -> 40
      [] OTHER -> 0

DepartureBuffer ==
    LET brisk == IF Option.age < 30 /\ Pace = "packed"
                 THEN Max({0, DepartureMargin - 10}) ELSE DepartureMargin
    IN  Minutes(brisk + CASE Option.limited -> 30
                          [] ~Option.limited /\ Option.age >= 60 -> 15
                          [] OTHER -> 0)

Deadline(d) ==
    IF Day(d).deadline = None THEN None ELSE Day(d).deadline - DepartureBuffer

Verified(p) == ~Poi(p).outOfTown \/ Poi(p).access

AutoInsertable(p) == Verified(p) \/ Poi(p).forced

\* Four to the priority: one stop outweighs two of the level below.
Prize(p) == Min({250000000, 64 * 4 ^ Min({12, Poi(p).priority})})

\* What the rain and the temperature leave of the prize, in ten thousandths.
WeatherMultiplier(exposure, sky) ==
    LET outdoor == exposure = "outdoor"
        rain == CASE sky.rain = "storm" -> (IF outdoor THEN 0 ELSE 50)
                  [] sky.rain = "rain"  -> (IF outdoor THEN 50 ELSE 75)
                  [] OTHER -> 100
        heat == CASE sky.heat = "extreme" -> (IF outdoor THEN 25 ELSE 75)
                  [] sky.heat = "harsh"   -> (IF outdoor THEN 65 ELSE 90)
                  [] OTHER -> 100
    IN  IF exposure = "indoor" THEN 10000 ELSE rain * heat

-----------------------------------------------------------------------------
(* Travel: an edge of the matrix, or the estimate that stands for a missing one *)

Leg(from, to) ==
    IF from = to THEN [walk |-> request.walkByDefault, time |-> 0, meters |-> 0]
                 ELSE request.legs[<<from, to>>]

Walked(leg) == IF leg.walk THEN leg.meters ELSE 0

\* A day without an end anchor ends at its last stop.
Home(d, node) == Leg(node, IF Day(d).end = None THEN node ELSE Day(d).end)

-----------------------------------------------------------------------------
(* Variants: the day and the part of the day in which a POI may be visited *)

Duration(p) ==
    Minutes(Poi(p).duration
            + (IF Verified(p) THEN 0 ELSE Option.accessBuffer)
            + (IF Pace = "relaxed" THEN Min({Poi(p).duration, 60}) ELSE 0))

DayEnd(d) ==
    IF Deadline(d) = None THEN Day(d).start + Minutes(Option.maxDay) ELSE Deadline(d)

NoHours(p) == \A d \in Days : Poi(p).windows[d] = {}

\* The part of the day that the opening hours leave, before it is split.
BaseIntervals(p, d) ==
    LET opens == Day(d).start + (IF Pace = "packed" THEN Minutes(30) ELSE 0)
    IN  IF NoHours(p) THEN {<<opens, DayEnd(d)>>}
        ELSE {i \in {<<Max({opens, w[1]}), Min({DayEnd(d), w[2]})>> : w \in Poi(p).windows[d]} :
                i[2] > i[1]}

Overlap(a, b) == a[1] < b[2] /\ b[1] < a[2]

\* The hours of the day at which the weather, or the light, changes.
Cuts(p, d) == {b.span : b \in {sky \in request.weather : sky.day = d}} \cup Poi(p).best[d]

Segments(p, d, i) ==
    LET within(c) == {Max({i[1], c[1]}), Min({i[2], c[2]})}
        bounds == {i[1], i[2]} \cup UNION {within(c) : c \in {x \in Cuts(p, d) : Overlap(x, i)}}
    IN  {s \in bounds \X bounds : s[1] < s[2] /\ ~\E b \in bounds : s[1] < b /\ b < s[2]}

\* The weather in the middle of the segment; the buckets of a day do not overlap.
Weather(p, d, s) ==
    LET now == {b \in request.weather : /\ b.day = d
                                        /\ 2 * b.span[1] <= s[1] + s[2]
                                        /\ s[1] + s[2] < 2 * b.span[2]}
    IN  IF now = {} THEN 10000 ELSE WeatherMultiplier(Poi(p).exposure, CHOOSE b \in now : TRUE)

\* A golden hour of the POI, of whatever day, multiplies the prize by 1.875.
Golden(p, s) == \E d \in Days : \E w \in Poi(p).best[d] : Overlap(w, s)

Rounded(n, by) == (n + by \div 2) \div by

VariantPrize(p, d, s) ==
    LET scaled == Prize(p) * Weather(p, d, s)
    IN  IF Golden(p, s) THEN Rounded(15 * scaled, 80000) ELSE Rounded(scaled, 10000)

Variant(p, d, s) ==
    [poi |-> p, day |-> d, opens |-> s[1], latest |-> s[2] - Duration(p),
     prize |-> VariantPrize(p, d, s)]

Variants(p) ==
    IF ~AutoInsertable(p) THEN {}
    ELSE {v \in UNION {UNION {{Variant(p, d, s) : s \in Segments(p, d, i)} :
                          i \in BaseIntervals(p, d)} : d \in Days} :
            v.opens <= v.latest}

-----------------------------------------------------------------------------
(* The independent check of a schedule: a sequence of stops per day *)

Meal == 0
Stop(poi, arrive, depart) == [poi |-> poi, arrive |-> arrive, depart |-> depart]
When(condition, code) == IF condition THEN {code} ELSE {}

\* before: when and where the previous stop ended, what has been walked and
\* found wrong so far.
CheckStop(d, before, stop) ==
    LET p == stop.poi
        leg == Leg(before.node, p)
        overlap == When(stop.arrive < before.depart, "overlap")
    IN  IF p = Meal
        THEN [before EXCEPT !.depart = stop.depart, !.issues = @ \cup overlap]
        ELSE [depart |-> stop.depart, node |-> p, walked |-> before.walked + Walked(leg),
              issues |-> before.issues \cup overlap
                \cup When(stop.depart - stop.arrive < Minutes(Poi(p).duration), "short_visit")
                \cup When(/\ ~NoHours(p)
                          /\ ~\E w \in Poi(p).windows[d] : w[1] <= stop.arrive /\ stop.depart <= w[2],
                          "outside_hours")
                \cup When(stop.arrive < before.depart + leg.time, "travel_overlap")]

Checks(d, stops) ==
    LET after[k \in 0 .. Len(stops)] ==
            IF k = 0 THEN [depart |-> Day(d).start, node |-> Hotel, walked |-> 0, issues |-> {}]
                     ELSE The({CheckStop(d, before, stops[k]) : before \in {after[k - 1]}})
    IN  after

CheckDay(d, stops) ==
    LET last == Checks(d, stops)[Len(stops)]
        home == Home(d, last.node)
    IN  last.issues
          \cup When(Deadline(d) # None /\ last.depart + home.time > Deadline(d), "missed_deadline")
          \cup When(/\ Day(d).budget # None
                    /\ last.walked + Walked(home) > Day(d).budget + Metres(1), "walking_budget")

Visits(schedule, p) ==
    UNION {{<<d, i>> : i \in {j \in DOMAIN schedule[d] : schedule[d][j].poi = p}} : d \in Days}

\* check_response
Issues(schedule) ==
    (UNION {CheckDay(d, schedule[d]) : d \in Days})
      \cup When(\E p \in Pois : Cardinality(Visits(schedule, p)) > 1, "duplicate_poi")
      \cup When(\E p \in Pois : Poi(p).mustDo /\ Visits(schedule, p) = {}, "missing_must_do")

==============================================================================
