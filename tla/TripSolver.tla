------------------------------ MODULE TripSolver ------------------------------
(****************************************************************************)
(* One solve of a trip's days by either engine: the greedy one, which       *)
(* inserts the POIs one by one where they cost least, shortens the routes   *)
(* by 2-opt and adds the meals, and the routing one, which registers the    *)
(* days with OR-Tools, reads an assignment back and passes it through the   *)
(* independent check.                                                       *)
(*                                                                          *)
(* OR-Tools is external: it may return any assignment its dimensions allow  *)
(* (built here stop by stop), or none.                                      *)
(****************************************************************************)
EXTENDS SolverModel

CONSTANTS
    Requests,       \* engine -> the jobs it is given
    Delays          \* how much later than possible a routed stop may begin, in minutes

ASSUME RequestsAssumption ==
    /\ \A e \in {"greedy", "routing"} : \A job \in Requests[e] : WellFormed(job)
    /\ Delays \subseteq Nat

VARIABLES
    engine,         \* "greedy" or "routing"
    stage,          \* "new", "building", "improving" or "answered"
    variants,       \* POI -> its variants
    routes,         \* day -> greedy: the variants in order; routing: with their arrival
    todo,           \* the POIs greedy has yet to consider
    skipped,        \* the POIs greedy could not fit
    answer          \* what the caller gets

vars == <<request, engine, stage, variants, routes, todo, skipped, answer>>

NoRoutes == [d \in Days |-> <<>>]
NoAnswer == [status |-> "none", days |-> NoRoutes, unscheduled |-> {}]
Infeasible == [NoAnswer EXCEPT !.status = "infeasible"]
Feasible(days, unscheduled) == [status |-> "feasible", days |-> days, unscheduled |-> unscheduled]

Init ==
    /\ engine \in {"greedy", "routing"}
    /\ request \in Requests[engine]
    /\ stage = "new"
    /\ variants = [p \in Pois |-> {}]
    /\ routes = NoRoutes
    /\ todo = <<>>
    /\ skipped = {}
    /\ answer = NoAnswer

Reply(a) ==
    /\ stage' = "answered"
    /\ answer' = a

-----------------------------------------------------------------------------
(* The greedy engine *)

\* The next stop of a walk, as early as it can be.
Visit(before, v) ==
    LET leg == Leg(before.node, v.poi)
        arrive == Max({before.now + leg.time, v.opens})
        depart == arrive + Duration(v.poi)
    IN  [ok |-> before.ok /\ arrive <= v.latest, now |-> depart, node |-> v.poi,
         walked |-> before.walked + Walked(leg), travel |-> before.travel + leg.time,
         wait |-> before.wait + (arrive - v.opens),
         stops |-> Append(before.stops, Stop(v.poi, arrive, depart))]

\* One day walked in the given order.
Walks(d, route) ==
    LET after[k \in 0 .. Len(route)] ==
            IF k = 0 THEN [ok |-> TRUE, now |-> Day(d).start, node |-> Hotel, walked |-> 0,
                           travel |-> 0, wait |-> 0, stops |-> <<>>]
                     ELSE The({Visit(before, route[k]) : before \in {after[k - 1]}})
    IN  after

Walk(d, route) == Walks(d, route)[Len(route)]

InTime(d, t) == Deadline(d) = None \/ t <= Deadline(d)
InBudget(d, meters) == Day(d).budget = None \/ meters <= Day(d).budget

\* The wrong attempt: the way home is not walked.
AttemptAway(d, route) ==
    LET there == Walk(d, route)
    IN  [there EXCEPT !.ok = @ /\ InTime(d, there.now) /\ InBudget(d, there.walked)]

\* _materialize
Attempt(d, route) ==
    LET there == Walk(d, route)
        home == Home(d, there.node)
    IN  [there EXCEPT !.travel = @ + home.time,
                      !.ok = @ /\ InTime(d, there.now + home.time)
                               /\ InBudget(d, there.walked + Walked(home))]

Before(a, b) == \E k \in DOMAIN a : a[k] < b[k] /\ \A j \in 1 .. k - 1 : a[j] = b[j]

\* The highest first, by id among equals.
InOrder(S, rank) ==
    {s \in SetToSeqs(S) : \A i, j \in DOMAIN s :
        i < j => Before(<<-rank[s[i]], s[i]>>, <<-rank[s[j]], s[j]>>)}

StartGreedy ==
    /\ engine = "greedy" /\ stage = "new"
    /\ stage' = "building"
    /\ variants' = [p \in Pois |-> Variants(p)]
    /\ LET prize == [p \in Pois |-> Max({0} \cup {v.prize : v \in variants'[p]})]
       IN  \E first \in InOrder({p \in Pois : Poi(p).mustDo}, [p \in Pois |-> Poi(p).priority]),
              rest \in InOrder({p \in Pois : ~Poi(p).mustDo}, prize) : todo' = first \o rest
    /\ UNCHANGED <<request, engine, routes, skipped, answer>>

\* The places at which POI p can be inserted: the day, the route it makes and,
\* smaller for better, what it costs.
Insertions(p) ==
    LET insertion(v, i, route) ==
            {[day |-> v.day, route |-> route,
              cost |-> <<-v.prize, a.travel - Attempt(v.day, routes[v.day]).travel, a.wait, i,
                         v.day, v.opens>>] :
                a \in {x \in {Attempt(v.day, route)} : x.ok}}
    IN  UNION {UNION {insertion(v, i, InsertAt(routes[v.day], i, v)) :
                    i \in 1 .. Len(routes[v.day]) + 1} : v \in variants[p]}

\* _best_insertion of the next POI
Insert ==
    /\ engine = "greedy" /\ stage = "building" /\ todo # <<>>
    /\ \E fitting \in {Insertions(Head(todo))} : \E f \in fitting :
        /\ ~\E g \in fitting : Before(g.cost, f.cost)
        /\ routes' = [routes EXCEPT ![f.day] = f.route]
    /\ todo' = Tail(todo)
    /\ UNCHANGED <<request, engine, variants, stage, skipped, answer>>

\* An optional POI that fits nowhere is left out, a must-do fails the job.
Skip ==
    /\ engine = "greedy" /\ stage = "building" /\ todo # <<>>
    /\ Insertions(Head(todo)) = {}
    /\ IF Poi(Head(todo)).mustDo
       THEN /\ Reply(Infeasible)
            /\ UNCHANGED <<todo, skipped>>
       ELSE /\ skipped' = skipped \cup {Head(todo)}
            /\ todo' = Tail(todo)
            /\ UNCHANGED <<stage, answer>>
    /\ UNCHANGED <<request, engine, variants, routes>>

Filled ==
    /\ engine = "greedy" /\ stage = "building" /\ todo = <<>>
    /\ stage' = "improving"
    /\ UNCHANGED <<request, engine, variants, routes, todo, skipped, answer>>

Reversed(route, left, right) ==
    [i \in DOMAIN route |-> route[IF i \in left .. right THEN left + right - i ELSE i]]

Turns(route) ==
    IF Len(route) < 4 THEN {}
    ELSE {c \in (1 .. Len(route) - 2) \X (1 .. Len(route)) : c[1] < c[2]}

\* The wrong comparison: a turn that changes nothing counts as an improvement.
ShorterOrEqual(d, route) ==
    {c \in Turns(route) : LET turned == Attempt(d, Reversed(route, c[1], c[2]))
                          IN  turned.ok /\ turned.travel <= Attempt(d, route).travel}

\* The turns of a part of the route that shorten the travel.
Shorter(d, route) ==
    {c \in Turns(route) : LET turned == Attempt(d, Reversed(route, c[1], c[2]))
                          IN  turned.ok /\ turned.travel < Attempt(d, route).travel}

\* _two_opt takes the first such turn and starts again.
TwoOpt ==
    /\ engine = "greedy" /\ stage = "improving"
    /\ \E d \in Days : \E shorter \in {Shorter(d, routes[d])} : \E c \in shorter :
        /\ ~\E e \in shorter : Before(e, c)
        /\ routes' = [routes EXCEPT ![d] = Reversed(routes[d], c[1], c[2])]
    /\ UNCHANGED <<request, engine, variants, stage, todo, skipped, answer>>

-----------------------------------------------------------------------------
(* Meals *)

Midnight(d) == (Day(d).start \div At(24)) * At(24)

\* As early as its hours allow, after the visits it would run into.
Postponed(begin, s) ==
    IF begin < s.depart /\ s.arrive < begin + Minutes(Option.mealTime) THEN s.depart ELSE begin

MealStarts(d, hours, stops) ==
    LET begin[k \in 0 .. Len(stops)] ==
            IF k = 0 THEN Max({Midnight(d) + At(hours[1]), Day(d).start})
                     ELSE The({Postponed(before, stops[k]) : before \in {begin[k - 1]}})
    IN  begin

MealStart(d, hours, stops) == MealStarts(d, hours, stops)[Len(stops)]

\* _meal_stops; a meal that would end after its hours is left out.
Meals(d, stops) ==
    LET served == SetToSeq({hours \in Option.meals :
            MealStart(d, hours, stops) + Minutes(Option.mealTime) <= Midnight(d) + At(hours[2])})
        begin == [i \in DOMAIN served |-> MealStart(d, served[i], stops)]
    IN  [i \in DOMAIN served |-> Stop(Meal, begin[i], begin[i] + Minutes(Option.mealTime))]

\* Whether stop i of a day comes before stop j: a meal before a visit that begins with
\* it, equals as they are.
Sooner(stops, i, j) ==
    Before(<<stops[i].arrive, stops[i].poi, i>>, <<stops[j].arrive, stops[j].poi, j>>)

Place(stops, i) == 1 + Cardinality({j \in DOMAIN stops : Sooner(stops, j, i)})
Sorted(stops) == [k \in DOMAIN stops |-> stops[The({i \in DOMAIN stops : Place(stops, i) = k})]]

WithMeals(d, stops) == The({Sorted(all) : all \in {stops \o Meals(d, stops)}})

\* A day that cannot be walked, an empty one that cannot get home, has no visits.
Emitted(d) ==
    LET attempt == Attempt(d, routes[d])
    IN  WithMeals(d, IF attempt.ok THEN attempt.stops ELSE <<>>)

Emit ==
    /\ engine = "greedy" /\ stage = "improving"
    /\ \A d \in Days : Shorter(d, routes[d]) = {}
    /\ Reply(Feasible([d \in Days |-> Emitted(d)], skipped))
    /\ UNCHANGED <<request, engine, variants, routes, todo, skipped>>

-----------------------------------------------------------------------------
(* The routing engine: whole minutes since the first day's start, without its seconds *)

Epoch == LET first == Min({Day(d).start : d \in Days}) IN first - (first % Minutes(1))
Minute(t) == (t - Epoch) \div Minutes(1)

\* The wrong transit: a begun minute of travel is not counted.
TransitShort(leg) == leg.time \div Minutes(1)

\* Whole minutes of travel, rounded up; whole metres, rounded to the nearest.
Transit(leg) == (leg.time + 1) \div Minutes(1)
Paces(leg) == Rounded(Walked(leg), Metres(1))

\* precheck: a must-do without a variant is refused before the search.
StartRouting ==
    /\ engine = "routing" /\ stage = "new"
    /\ variants' = [p \in Pois |-> Variants(p)]
    /\ IF \E p \in Pois : Poi(p).mustDo /\ variants'[p] = {}
       THEN Reply(Infeasible)
       ELSE stage' = "building" /\ UNCHANGED answer
    /\ UNCHANGED <<request, engine, routes, todo, skipped>>

\* Where the vehicle of day d is, when it may leave, and how far it has walked.
Drive(before, s) ==
    [node |-> s.poi, free |-> s.minute + Duration(s.poi) \div Minutes(1),
     paces |-> before.paces + Paces(Leg(before.node, s.poi))]

Drives(d, route) ==
    LET after[k \in 0 .. Len(route)] ==
            IF k = 0 THEN [node |-> Hotel, free |-> Minute(Day(d).start), paces |-> 0]
                     ELSE The({Drive(before, route[k]) : before \in {after[k - 1]}})
    IN  after

Vehicle(d) == Drives(d, routes[d])[Len(routes[d])]

Routed == {s.poi : s \in UNION {ToSet(routes[d]) : d \in Days}}

\* The search appends a clone to the route of its day, within its time range;
\* days are filled in order.
Route ==
    /\ engine = "routing" /\ stage = "building"
    /\ \E p \in Pois \ Routed : \E v \in variants[p] :
        LET from == Vehicle(v.day)
            earliest == Max({Minute(v.opens), from.free + Transit(Leg(from.node, p))})
        IN  \E minute \in {earliest + w : w \in Delays} :
                /\ \A later \in Days : later > v.day => routes[later] = <<>>
                /\ minute <= Minute(v.latest)
                /\ routes' = [routes EXCEPT ![v.day] = Append(@, [poi |-> p, minute |-> minute])]
    /\ UNCHANGED <<request, engine, variants, stage, todo, skipped, answer>>

\* The end node of a vehicle is the day's end anchor, or else its start.
Closed(d) ==
    LET from == Vehicle(d)
        home == Leg(from.node, IF Day(d).end = None THEN Hotel ELSE Day(d).end)
    IN  /\ from.free + Transit(home) <= Minute(DayEnd(d))
        /\ Day(d).budget # None =>
             from.paces + Paces(home) <= Rounded(Day(d).budget, Metres(1))

\* The stops in the order of the vehicle, at the minute of the Time dimension.
Schedule ==
    [d \in Days |->
        [i \in DOMAIN routes[d] |->
            LET s == routes[d][i]
                arrive == Epoch + Minutes(s.minute)
            IN  Stop(s.poi, arrive, arrive + Duration(s.poi))]]

Complete ==
    /\ engine = "routing" /\ stage = "building"
    /\ \A p \in Pois : Poi(p).mustDo => p \in Routed
    /\ \A d \in Days : Closed(d)

\* An assignment is read back and published only if the check has no objection.
Publish ==
    /\ Complete
    /\ Reply(IF Issues(Schedule) = {} THEN Feasible(Schedule, Pois \ Routed) ELSE Infeasible)
    /\ UNCHANGED <<request, engine, variants, routes, todo, skipped>>

\* The search finds nothing in its time.
NoRoute ==
    /\ engine = "routing" /\ stage = "building"
    /\ \E status \in {"infeasible", "timeout"} : Reply([NoAnswer EXCEPT !.status = status])
    /\ UNCHANGED <<request, engine, variants, routes, todo, skipped>>

-----------------------------------------------------------------------------
Next ==
    \/ StartGreedy \/ Insert \/ Skip \/ Filled \/ TwoOpt \/ Emit
    \/ StartRouting \/ Route \/ Publish \/ NoRoute

\* A solve is a function call: whatever it can do next, it does.
Spec == Init /\ [][Next]_vars /\ WF_vars(Next)

-----------------------------------------------------------------------------
(* Properties *)

\* The greedy engine does not run the independent check on what it returns; its
\* days pass it all the same, except that a day it leaves empty may have no way
\* home in time, and that a meal is laid without regard to the way to the next
\* stop, to the deadline and to a meal whose hours cross its own (solve_greedy).
\* Every POI is visited once or reported as left out.
GreedyIsFeasible ==
    engine = "greedy" /\ answer.status = "feasible" =>
        /\ Issues(answer.days) \subseteq
             (UNION {CheckDay(d, <<>>) : d \in {e \in Days : routes[e] = <<>>}})
               \cup (IF Option.meals = {} THEN {} ELSE {"travel_overlap", "missed_deadline"})
               \cup (IF \E g, h \in Option.meals : g # h /\ Overlap(g, h) THEN {"overlap"} ELSE {})
        /\ \A p \in Pois :
             Cardinality(Visits(routes, p)) + (IF p \in skipped THEN 1 ELSE 0) = 1

HasSeconds ==
    \E t \in {Day(d).start : d \in Days}
             \cup UNION {{w[1] : w \in Poi(p).windows[d]} : p \in Pois, d \in Days} :
        t % Minutes(1) # 0

HasTenths == \E edge \in DOMAIN request.legs : request.legs[edge].meters % Metres(1) # 0

\* What the dimensions of the routing model allow passes the independent check,
\* unless the rounding separates them: the model drops the seconds of a start,
\* also of a day it leaves empty, or of an opening, and rounds each leg to whole
\* metres where the check adds them up first (solve_ortools).  No answer is lost to the check but for these.
RoutedPassesGate ==
    Complete => Issues(Schedule) \subseteq
        (IF HasSeconds THEN {"overlap", "travel_overlap", "outside_hours", "missed_deadline"} ELSE {})
          \cup (IF HasTenths THEN {"walking_budget"} ELSE {})

\* Every job gets its answer: the insertions run out of POIs and 2-opt of turns
\* that shorten the route.
EveryRequestAnswered == (stage = "new") ~> (stage = "answered")

==============================================================================
