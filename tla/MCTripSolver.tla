----------------------------- MODULE MCTripSolver -----------------------------
(****************************************************************************)
(* Jobs of one kind each for what can go wrong: deadlines, budgets and the  *)
(* way home; opening hours, weather and light; meals; seconds and tenths of *)
(* a metre; and four stops on one day, where 2-opt has something to turn    *)
(* (in the other jobs the fourth POI lies out of town and is left alone).   *)
(****************************************************************************)
EXTENDS TripSolver

CONSTANTS Station   \* where the last day may end

Nodes == {Hotel, Station} \cup Pois
Walk20 == [walk |-> TRUE, time |-> Minutes(20), meters |-> Metres(1500)]
Ride(n) == [walk |-> FALSE, time |-> Minutes(n), meters |-> Metres(3000)]
AllLegs(leg) == [edge \in Nodes \X Nodes |-> leg]

PlainPoi ==
    [duration |-> 60, mustDo |-> FALSE, priority |-> 2, windows |-> [d \in Days |-> {}],
     outOfTown |-> FALSE, access |-> FALSE, forced |-> FALSE, exposure |-> "mixed",
     best |-> [d \in Days |-> {}]]

PlainDay(d) ==
    [start |-> At(24 * d + 9), deadline |-> None, end |-> None, budget |-> None]

PlainOptions ==
    [age |-> 40, pacing |-> "none", departure |-> "none", limited |-> FALSE, accessBuffer |-> 60,
     maxDay |-> 240, meals |-> {}, mealTime |-> 60]

Plain ==
    [poi |-> [p \in Pois |-> [PlainPoi EXCEPT !.priority = p, !.mustDo = (p = 1), !.outOfTown = (p = 4)]],
     days |-> [d \in Days |-> PlainDay(d)], options |-> PlainOptions,
     legs |-> AllLegs(Walk20), weather |-> {}, walkByDefault |-> TRUE]

\* The last day ends at a deadline, in town or at the station, on a budget.
Deadlines ==
    {[Plain EXCEPT !.days[1].deadline = At(24 + h), !.days[1].end = end, !.days[1].budget = budget,
                   !.options.departure = leave, !.options.age = age, !.options.maxDay = 150,
                   !.options.limited = (h = 13)] :
        h \in {10, 13}, end \in {Hotel, Station}, budget \in {None, Metres(3000)},
        leave \in {"none", "train"}, age \in {25, 65}}

\* Hours that exclude a day or split it; rain, heat and a golden hour.
Hours ==
    {[Plain EXCEPT !.poi[1].windows = [d \in Days |-> IF d = 0 THEN first ELSE {}],
                   !.poi[2].best[0] = light, !.poi[3].exposure = exposure, !.weather = weather,
                   !.options.pacing = pace] :
        first \in {{<<At(9), At(10)>>}, {<<At(9), At(9) + Minutes(30)>>, <<At(11), At(13)>>}},
        light \in {{}, {<<At(11), At(12)>>}},
        exposure \in {"outdoor", "indoor"},
        weather \in {{}, {[day |-> 0, span |-> <<At(8), At(11)>>, rain |-> "storm", heat |-> "mild"],
                          [day |-> 1, span |-> <<At(33), At(36)>>, rain |-> "rain", heat |-> "harsh"]}},
        pace \in {"none", "packed", "relaxed"}}

\* An out-of-town must-do with and without proven access.
OutOfTown ==
    {[Plain EXCEPT !.poi[1].outOfTown = TRUE, !.poi[1].access = access, !.poi[1].forced = forced] :
        access \in BOOLEAN, forced \in BOOLEAN}

Lunch == <<12, 15, "lunch">>
Dinner == <<19, 22, "dinner">>
Early == <<13, 15, "dinner">>

WithLunch ==
    {[Plain EXCEPT !.options.meals = meals, !.options.maxDay = length, !.days[1].deadline = deadline,
                   !.days[0].start = start, !.poi[2].windows = hours] :
        meals \in {{Lunch}, {Lunch, Dinner}, {Lunch, Early}}, length \in {240, 720},
        deadline \in {None, At(24 + 12) + Minutes(30)}, start \in {At(9), At(11)},
        hours \in {[d \in Days |-> {}], [d \in Days |-> {<<At(13), At(15)>>}]}}

\* An empty day that starts thirty seconds late for its way to the station.
LateHome ==
    {[Plain EXCEPT !.days[1].start = start, !.days[1].deadline = start - (start % 2) + Minutes(20),
                   !.days[1].end = Station, !.options.maxDay = 150] :
        start \in {At(33), At(33) + 1}}

\* Thirty seconds past the minute, forty centimetres past the metre.
Fractions ==
    {[Plain EXCEPT !.days[0].start = start, !.poi[2].windows = [d \in Days |-> {<<opens, opens + At(3)>>}],
                   !.legs = AllLegs([walk |-> TRUE, time |-> leg, meters |-> far]),
                   !.days[0].end = Hotel, !.days[0].budget = Metres(1000)] :
        start \in {At(9), At(9) + 1}, opens \in {At(10), At(10) + 1},
        leg \in {0, Minutes(10) + 1}, far \in {Metres(250), Metres(250) + 4}}

\* Four stops, open on the first day only; the ways between them are short or long.
Crossings ==
    {[Plain EXCEPT !.options.maxDay = 720,
                   !.poi = [p \in Pois |-> [PlainPoi EXCEPT !.windows[0] = {<<At(9), At(21)>>},
                                                            !.priority = p]],
                   !.legs = [edge \in Nodes \X Nodes |->
                                IF {edge[1], edge[2]} \in short THEN Ride(10) ELSE Ride(40)]] :
        short \in {s \in SUBSET {e \in SUBSET (Pois \cup {Hotel}) : Cardinality(e) = 2} :
                    Cardinality(s) = 3}}

MCRequests ==
    [greedy  |-> Deadlines \cup Hours \cup OutOfTown \cup WithLunch \cup LateHome
                 \cup Fractions \cup Crossings,
     routing |-> Deadlines \cup Hours \cup OutOfTown \cup LateHome \cup Fractions]

==============================================================================
