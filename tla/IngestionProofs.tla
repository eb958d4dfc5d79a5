--------------------------- MODULE IngestionProofs ---------------------------
(***************************************************************************)
(* Proofs about the ingestion of a city: its builds (CityBuild) and the    *)
(* HTTP client they call sources through (HttpClient).                     *)
(*                                                                         *)
(* Builds.  However many builds of one city overlap, and wherever each is  *)
(* cut off, cities.brain_status keeps the life cycle its readers were      *)
(* promised.  A city that is 'building' has a build in charge of it: one   *)
(* that has not given its verdict, or was stranded; and once the city has  *)
(* a place, one that will not find it empty.  So whoever gives the city    *)
(* back or leaves it is never the last one responsible.  A city with a     *)
(* place that is not 'warm' has not been tried yet, or has a build that    *)
(* failed, or one that will still make it warm.                            *)
(*                                                                         *)
(* The client gives back every permit and keeps its cache clean, for any   *)
(* finite set of requests, keys, limits and delays.  A request holds a     *)
(* permit exactly while it is on the wire, and every way off the wire      *)
(* gives the permit back.  Only what was served as a document is ever      *)
(* handed to the thread that stores it, and the request keeps saying so    *)
(* however it ends; so whatever two threads do to one temporary file, a    *)
(* file is a document, or torn, or missing, and a torn one is a miss.      *)
(***************************************************************************)
EXTENDS CityBuild, HttpClient, PowerProofs, FiniteSetTheorems

Fields == {"pc", "expired", "curatable", "grade"}

\* Every build has its locals.
Shape ==
    /\ DOMAIN build = Builds
    /\ \A b \in Builds : Fields \subseteq DOMAIN build[b]
    /\ stopped \in [Builds -> BOOLEAN]

\* Between start_city and the count.
Midway ==
    Stages \cup Persists
      \cup {"starting", "after_sweep", "spawn", "reap", "wikipedia", "commons", "count"}

\* A build that is responsible for a 'building' city.
InCharge(b) ==
    \/ build[b].pc \in Midway \cup {"undo", "stranded"}
    \/ At(b, "close") /\ (skeleton => build[b].curatable)

Owned == status = "building" => \E b \in Builds : InCharge(b)

\* A build that failed, or that will make a city with a place 'warm'.
Excused(b) ==
    \/ build[b].pc \in Midway \cup {"undo", "undone", "failed", "stranded"}
    \/ At(b, "close") /\ build[b].curatable

SkeletonShows ==
    skeleton /\ status # "warm" =>
        (\A b \in Builds : At(b, "new")) \/ \E b \in Builds : Excused(b)

\* A count that found a place, and a 'warm' city, are right for good.
Grounded ==
    /\ status = "warm" => skeleton
    /\ \A b \in Builds : build[b].curatable => skeleton

\* Only the deadline keeps a source from finishing.
Timed ==
    \A b \in Builds :
        stopped[b] =>
            \/ build[b].expired /\ ~At(b, "done")
            \/ build[b].pc \in {"undo", "undone", "failed", "stranded"}
            \/ At(b, "done") /\ build[b].grade = "cut"

TypeInv ==
    /\ status \in {"cold", "building", "warm"}
    /\ skeleton \in BOOLEAN
    /\ Shape

IInv == TypeInv /\ Owned /\ SkeletonShows /\ Grounded /\ Timed

-----------------------------------------------------------------------------
(* What a step does to the builds *)

\* The other builds keep their locals.
Alone(b) == \A o \in Builds \ {b} : build'[o] = build[o] /\ stopped'[o] = stopped[o]

Same(b) == build'[b].expired = build[b].expired /\ build'[b].curatable = build[b].curatable

\* A stage of the build: it is on its way before and after, and whatever it
\* does not finish it leaves to the deadline.
Onward(b) ==
    /\ Shape' /\ Alone(b) /\ Same(b)
    /\ build[b].pc \in Midway /\ build'[b].pc \in Midway
    /\ stopped'[b] => stopped[b] \/ build[b].expired

LEMMA StopEffect ==
    ASSUME Shape, NEW b \in Builds, NEW really \in BOOLEAN, Stop(b, really)
    PROVE  /\ stopped' \in [Builds -> BOOLEAN]
           /\ \A o \in Builds \ {b} : stopped'[o] = stopped[o]
           /\ stopped'[b] => stopped[b] \/ really
BY DEF Shape, Stop

LEMMA GotoEffect ==
    ASSUME Shape, NEW b \in Builds, NEW pc, Goto(b, pc), UNCHANGED stopped
    PROVE  Shape' /\ Alone(b) /\ Same(b) /\ build'[b].pc = pc /\ stopped'[b] = stopped[b]
BY DEF Shape, Fields, Goto, Alone, Same

\* A build becomes l: its locals are those of l, and the others keep theirs.
LEMMA BecomeEffect ==
    ASSUME Shape, NEW b \in Builds, NEW l, Fields \subseteq DOMAIN l,
           build' = [build EXCEPT ![b] = l]
    PROVE  /\ DOMAIN build' = Builds
           /\ \A o \in Builds : Fields \subseteq DOMAIN build'[o]
           /\ \A o \in Builds \ {b} : build'[o] = build[o]
           /\ build'[b] = l
BY DEF Shape

LEMMA SweptEffect ==
    ASSUME Shape, NEW b \in Builds, NEW s, NEW f, SweptBy(b, s, f)
    PROVE  /\ DOMAIN build' = Builds
           /\ \A o \in Builds : Fields \subseteq DOMAIN build'[o]
           /\ \A o \in Builds \ {b} : build'[o] = build[o]
           /\ Same(b) /\ build'[b].pc \in Midway
<1> DEFINE l == Report(build[b], f)
           m == IF f.found
                THEN [l EXCEPT !.candidates = TRUE,
                      !.pc = IF s = "OVERPASS" THEN "keep_overpass" ELSE "keep_places"]
                ELSE [l EXCEPT !.pc = IF s = "OVERPASS" THEN "after_sweep" ELSE "wikidata"]
<1>1. /\ Fields \subseteq DOMAIN l
      /\ l.expired = build[b].expired /\ l.curatable = build[b].curatable
  BY DEF Report, Shape, Fields
<1>2. /\ Fields \subseteq DOMAIN m
      /\ m.expired = l.expired /\ m.curatable = l.curatable
      /\ m.pc \in Midway
  <2> HIDE DEF l
  <2> QED  BY <1>1 DEF Midway, Stages, Persists, Fields
<1>3. build' = [build EXCEPT ![b] = m]
  BY DEF SweptBy
<1> HIDE DEF m
<1>4. QED  BY <1>1, <1>2, <1>3, BecomeEffect DEF Same

\* The stages from the sweep of OpenStreetMap to the collection of the pictures.
LEMMA OnwardSteps ==
    ASSUME Shape, NEW b \in Builds,
           \/ EnterTry(b) \/ Overpass(b) \/ ChoosePlaces(b) \/ Places(b)
           \/ SkipWikidata(b) \/ Wikidata(b) \/ Spawn(b) \/ Gathered(b) \/ Reap(b)
           \/ CollectWikipedia(b) \/ CollectCommons(b)
           \/ \E s \in Parallel : TaskEnds(b, s)
    PROVE  Onward(b) /\ UNCHANGED <<status, skeleton>>
<1> DEFINE Others == /\ DOMAIN build' = Builds
                     /\ \A o \in Builds : Fields \subseteq DOMAIN build'[o]
                     /\ \A o \in Builds \ {b} : build'[o] = build[o]
                     /\ Same(b) /\ build'[b].pc \in Midway
<1>a. ASSUME build[b].pc \in Midway, Others,
             UNCHANGED stopped \/ \E really \in BOOLEAN :
                 Stop(b, really) /\ (really => build[b].expired)
      PROVE  Onward(b)
  <2>1. CASE UNCHANGED stopped
    BY <1>a, <2>1 DEF Onward, Alone, Shape
  <2>2. ASSUME NEW really \in BOOLEAN, Stop(b, really), really => build[b].expired
        PROVE  Onward(b)
    BY <1>a, <2>2, StopEffect DEF Onward, Alone, Shape
  <2>3. QED  BY <1>a, <2>1, <2>2
<1>1. CASE EnterTry(b)
  <2>1. build[b].pc \in Midway /\ Others
    BY <1>1 DEF EnterTry, At, Goto, Shape, Fields, Same, Midway, Stages
  <2> HIDE DEF Others
  <2>2. QED  BY <1>1, <1>a, <2>1 DEF EnterTry
<1>2. CASE Overpass(b)
  <2>1. build[b].pc \in Midway /\ Others
    BY <1>2, SweptEffect DEF Overpass, At, Midway, Stages
  <2> HIDE DEF Others
  <2>2. QED  BY <1>2, <1>a, <2>1 DEF Overpass
<1>3. CASE Places(b)
  <2>1. build[b].pc \in Midway /\ Others
    BY <1>3, SweptEffect DEF Places, At, Midway, Stages
  <2> HIDE DEF Others
  <2>2. QED  BY <1>3, <1>a, <2>1 DEF Places
<1>4. CASE ChoosePlaces(b)
  <2>1. build[b].pc \in Midway /\ Others
    BY <1>4 DEF ChoosePlaces, At, Goto, Shape, Fields, Same, Midway, Stages
  <2> HIDE DEF Others
  <2>2. QED  BY <1>4, <1>a, <2>1 DEF ChoosePlaces
<1>5. CASE SkipWikidata(b)
  <2>1. build[b].pc \in Midway /\ Others
    BY <1>5 DEF SkipWikidata, At, Goto, Shape, Fields, Same, Midway, Stages
  <2> HIDE DEF Others
  <2>2. QED  BY <1>5, <1>a, <2>1 DEF SkipWikidata, WikidataWanted
<1>6. CASE Wikidata(b)
  <2>1. ASSUME NEW f, Learned(b, f) PROVE Others
    <3> DEFINE l == Report(build[b], f)
               m == [l EXCEPT !.items = f.items,
                              !.pc = IF f.found THEN "keep_wikidata" ELSE "spawn"]
    <3>1. /\ Fields \subseteq DOMAIN l
          /\ l.expired = build[b].expired /\ l.curatable = build[b].curatable
      BY DEF Report, Shape, Fields
    <3>2. Fields \subseteq DOMAIN m /\ m.pc \in Midway
          /\ m.expired = l.expired /\ m.curatable = l.curatable
      <4> HIDE DEF l
      <4> QED  BY <3>1 DEF Midway, Stages, Persists, Fields
    <3>3. build' = [build EXCEPT ![b] = m]
      BY <2>1 DEF Learned
    <3> HIDE DEF m
    <3>4. QED  BY <3>1, <3>2, <3>3, BecomeEffect DEF Same
  <2> HIDE DEF Others
  <2>2. build[b].pc \in Midway /\ Others
    BY <1>6, <2>1 DEF Wikidata, At, Midway, Stages
  <2>3. QED  BY <1>6, <1>a, <2>2 DEF Wikidata
<1>7. CASE Spawn(b)
  <2>1. build[b].pc \in Midway /\ Others
    <3>1. PICK S : build' = [build EXCEPT ![b].task =
                        [s \in Parallel |-> IF s \in S THEN "running" ELSE "none"],
                     ![b].candidates = FALSE, ![b].items = FALSE,
                     ![b].pc = IF S = {} THEN "count" ELSE "gather"]
      BY <1>7 DEF Spawn
    <3>2. /\ DOMAIN build' = Builds
          /\ \A o \in Builds \ {b} : build'[o] = build[o]
      BY <3>1 DEF Shape
    <3>3. Fields \subseteq DOMAIN build'[b]
      BY <3>1 DEF Shape, Fields
    <3>4. Same(b) /\ build'[b].pc \in Midway
      BY <3>1 DEF Shape, Fields, Same, Midway, Stages
    <3>5. build[b].pc \in Midway
      BY <1>7 DEF Spawn, At, Midway
    <3>6. QED  BY <3>2, <3>3, <3>4, <3>5 DEF Shape
  <2> HIDE DEF Others
  <2>2. QED  BY <1>7, <1>a, <2>1 DEF Spawn
<1>8. CASE Gathered(b)
  <2>1. build[b].pc \in Midway /\ Others
    BY <1>8 DEF Gathered, At, Shape, Fields, Same, Midway, Stages
  <2> HIDE DEF Others
  <2>2. QED  BY <1>8, <1>a, <2>1 DEF Gathered
<1>9. CASE Reap(b)
  <2>1. build[b].pc \in Midway /\ Others
    BY <1>9 DEF Reap, At, Goto, Shape, Fields, Same, Midway
  <2> HIDE DEF Others
  <2>2. QED  BY <1>9, <1>a, <2>1 DEF Reap
<1>10. CASE \E s \in Parallel : TaskEnds(b, s)
  <2>1. build[b].pc \in Midway /\ Others
    BY <1>10 DEF TaskEnds, At, Shape, Fields, Same, Midway, Stages
  <2> HIDE DEF Others
  <2>2. QED  BY <1>10, <1>a, <2>1 DEF TaskEnds
<1>11. ASSUME NEW s, NEW keep \in Midway, NEW next \in Midway, Collect(b, s, keep, next)
       PROVE  Others
  <2> DEFINE l == [build[b] EXCEPT !.task[s] = "none"]
             Reported(f) == [Report(l, f) EXCEPT !.pc = IF f.found THEN keep ELSE next]
  <2>1. \/ build' = [build EXCEPT ![b] = [l EXCEPT !.pc = next]]
        \/ \E f : build' = [build EXCEPT ![b] = Reported(f)]
    BY <1>11 DEF Collect
  <2>2. /\ Fields \subseteq DOMAIN l
        /\ l.expired = build[b].expired /\ l.curatable = build[b].curatable
    BY DEF Shape, Fields
  <2> HIDE DEF l
  <2>3. ASSUME NEW f, build' = [build EXCEPT ![b] = Reported(f)] PROVE Others
    <3>1. /\ Fields \subseteq DOMAIN Report(l, f)
          /\ Report(l, f).expired = l.expired /\ Report(l, f).curatable = l.curatable
      BY <2>2 DEF Report, Fields
    <3>2. /\ Fields \subseteq DOMAIN Reported(f) /\ Reported(f).pc \in Midway
          /\ Reported(f).expired = l.expired /\ Reported(f).curatable = l.curatable
      BY <3>1, <1>11 DEF Fields
    <3> HIDE DEF Reported
    <3>3. QED  BY <2>2, <2>3, <3>2, BecomeEffect DEF Same
  <2>4. ASSUME build' = [build EXCEPT ![b] = [l EXCEPT !.pc = next]] PROVE Others
    BY <1>11, <2>2, <2>4 DEF Shape, Fields, Same
  <2> HIDE DEF Reported, Others
  <2>5. QED  BY <2>1, <2>3, <2>4
<1>12. CASE CollectWikipedia(b) \/ CollectCommons(b)
  <2> HIDE DEF Others
  <2>1. build[b].pc \in Midway /\ Others
    BY <1>12, <1>11 DEF CollectWikipedia, CollectCommons, At, Midway, Persists
  <2>2. QED  BY <1>12, <1>a, <2>1 DEF CollectWikipedia, CollectCommons
<1>13. UNCHANGED <<status, skeleton>>
  BY DEF EnterTry, Overpass, ChoosePlaces, Places, SkipWikidata, Wikidata, Spawn,
         Gathered, Reap, CollectWikipedia, CollectCommons, TaskEnds
<1>14. QED
  BY <1>1, <1>2, <1>3, <1>4, <1>5, <1>6, <1>7, <1>8, <1>9, <1>10, <1>12, <1>13

\* A batch that is committed may give the city its first place.
LEMMA PersistStep ==
    ASSUME Shape, NEW b \in Builds, Persist(b)
    PROVE  /\ Onward(b) /\ UNCHANGED status
           /\ skeleton' \in BOOLEAN /\ (skeleton => skeleton')
<1>1. build[b].pc \in Midway /\ After[build[b].pc] \in Midway
  BY DEF Persist, Persists, After, Midway, Stages
<1>2. Goto(b, After[build[b].pc]) /\ UNCHANGED stopped
  BY DEF Persist
<1>3. Onward(b)
  BY <1>1, <1>2, GotoEffect DEF Onward
<1>4. UNCHANGED status /\ skeleton' \in BOOLEAN /\ (skeleton => skeleton')
  BY DEF Persist
<1>5. QED  BY <1>3, <1>4

\* The locals of a build that leaves the try block, or dies, are gone.
LEMMA LeaveEffect ==
    ASSUME Shape, NEW b \in Builds, NEW pc, LeaveAt(b, pc), UNCHANGED stopped
    PROVE  Shape' /\ Alone(b) /\ build'[b].pc = pc /\ build'[b].curatable = FALSE
<1> DEFINE l == [Fresh EXCEPT !.pc = pc]
<1>1. Fields \subseteq DOMAIN l /\ l.pc = pc /\ l.curatable = FALSE
  BY DEF Fresh, Fields
<1>2. build' = [build EXCEPT ![b] = l]
  BY DEF LeaveAt
<1> HIDE DEF l
<1>3. QED  BY <1>1, <1>2, BecomeEffect DEF Shape, Alone

-----------------------------------------------------------------------------
(* The invariant *)

LEMMA OnwardKeeps ==
    ASSUME IInv, NEW b \in Builds, Onward(b), UNCHANGED status,
           skeleton' \in BOOLEAN, skeleton => skeleton'
    PROVE  IInv'
<1> USE DEF IInv, TypeInv, Onward, Alone, Same
<1>1. InCharge(b)' /\ Excused(b)'
  BY DEF InCharge, Excused
<1>2. Owned' /\ SkeletonShows'
  BY <1>1 DEF Owned, SkeletonShows
<1>3. Grounded'
  BY DEF Grounded
<1>4. Timed'
  <2>1. stopped[b] => build[b].expired
    BY DEF Timed, At, Midway, Stages, Persists
  <2>2. ~At(b, "done")'
    BY DEF At, Midway, Stages, Persists
  <2>3. QED  BY <2>1, <2>2 DEF Timed, At
<1>5. QED  BY <1>2, <1>3, <1>4

\* A build that becomes, or stays, one that answers for the city.
LEMMA AnswersFor ==
    ASSUME IInv, NEW b \in Builds, Shape', Alone(b),
           status' \in {status, "building"}, UNCHANGED skeleton,
           status' = "building" => InCharge(b)', Excused(b)' ,
           build'[b].curatable => skeleton
    PROVE  TypeInv' /\ Owned' /\ SkeletonShows' /\ Grounded'
<1> USE DEF IInv, TypeInv, Alone
<1>1. Owned' /\ SkeletonShows'
  BY DEF Owned, SkeletonShows
<1>2. Grounded'
  BY DEF Grounded
<1>3. QED  BY <1>1, <1>2

LEMMA StartKeeps ==
    ASSUME IInv, NEW b \in Builds, StartCity(b) \/ StartFails(b) \/ StartCancelled(b)
    PROVE  IInv'
<1> USE DEF IInv, TypeInv
<1>1. CASE StartCity(b)
  <2>1. Shape' /\ Alone(b) /\ Same(b) /\ build'[b].pc = "starting" /\ stopped'[b] = stopped[b]
    BY <1>1, GotoEffect DEF StartCity
  <2>2. InCharge(b)' /\ Excused(b)'
    BY <2>1 DEF InCharge, Excused, Midway
  <2>3. TypeInv' /\ Owned' /\ SkeletonShows' /\ Grounded'
    BY <1>1, <2>1, <2>2, AnswersFor DEF StartCity, Same, Grounded
  <2>4. Timed'
    BY <1>1, <2>1 DEF StartCity, Timed, At, Alone, Same
  <2>5. QED  BY <2>3, <2>4
<1>2. CASE StartCancelled(b)
  <2>1. Shape' /\ Alone(b) /\ Same(b) /\ build'[b].pc = "stranded" /\ stopped'[b] = stopped[b]
    BY <1>2, GotoEffect DEF StartCancelled
  <2>2. InCharge(b)' /\ Excused(b)'
    BY <2>1 DEF InCharge, Excused
  <2>3. TypeInv' /\ Owned' /\ SkeletonShows' /\ Grounded'
    BY <1>2, <2>1, <2>2, AnswersFor DEF StartCancelled, Same, Grounded
  <2>4. Timed'
    BY <1>2, <2>1 DEF StartCancelled, Timed, At, Alone
  <2>5. QED  BY <2>3, <2>4
<1>3. CASE StartFails(b)
  <2>1. Shape' /\ Alone(b) /\ Same(b) /\ build'[b].pc = "failed" /\ stopped'[b] = stopped[b]
    BY <1>3, GotoEffect DEF StartFails
  <2>2. Excused(b)'
    BY <2>1 DEF Excused
  <2>3. ~InCharge(b)
    BY <1>3 DEF StartFails, InCharge, At, Midway, Stages, Persists
  <2>4. Owned'
    BY <1>3, <2>1, <2>3 DEF StartFails, Owned, InCharge, At, Alone
  <2>5. SkeletonShows' /\ Grounded'
    BY <1>3, <2>1, <2>2 DEF StartFails, SkeletonShows, Grounded, Alone, Same
  <2>6. Timed'
    BY <1>3, <2>1 DEF StartFails, Timed, At, Alone
  <2>7. QED  BY <1>3, <2>1, <2>4, <2>5, <2>6 DEF StartFails
<1>4. QED  BY <1>1, <1>2, <1>3

\* Whoever gives a verdict, gives the city back or leaves is responsible no
\* more: but then the city is not 'building', or somebody else is.
LEMMA VerdictKeeps ==
    ASSUME IInv, NEW b \in Builds,
           Count(b) \/ Close(b) \/ Return(b) \/ Undo(b) \/ Raise(b)
    PROVE  IInv'
<1> USE DEF IInv, TypeInv
<1>1. CASE Count(b)
  <2>1. /\ Shape' /\ Alone(b) /\ build'[b].pc = "close"
        /\ build'[b].curatable = skeleton /\ build'[b].expired = build[b].expired
        /\ stopped'[b] = stopped[b]
    BY <1>1 DEF Count, Shape, Fields, Alone
  <2>2. InCharge(b)' /\ (skeleton => Excused(b)')
    BY <1>1, <2>1 DEF Count, InCharge, Excused, At
  <2>3. Owned' /\ SkeletonShows' /\ Grounded'
    BY <1>1, <2>1, <2>2 DEF Count, Owned, SkeletonShows, Grounded, Alone
  <2>4. Timed'
    BY <1>1, <2>1 DEF Count, Timed, At, Alone
  <2>5. QED  BY <1>1, <2>1, <2>3, <2>4 DEF Count
<1>2. CASE Close(b)
  <2>1. Shape' /\ Alone(b) /\ Same(b) /\ build'[b].pc = "closing" /\ stopped'[b] = stopped[b]
    BY <1>2, GotoEffect DEF Close
  <2>2. /\ status' \in {"cold", "warm"}
        /\ status' = "warm" => skeleton
        /\ UNCHANGED skeleton
    BY <1>2 DEF Close, Cooled, Grounded
  <2>3. Owned' /\ Grounded'
    BY <2>1, <2>2 DEF Owned, Grounded, Alone, Same
  <2>4. SkeletonShows'
    <3>1. SUFFICES ASSUME skeleton, status' # "warm"
                   PROVE  \E o \in Builds : Excused(o)'
      BY <2>2 DEF SkeletonShows
    <3>2. status # "warm" /\ ~build[b].curatable
      BY <1>2, <3>1 DEF Close, Cooled
    <3>3. PICK o \in Builds : Excused(o)
      BY <1>2, <3>1, <3>2 DEF SkeletonShows, Close, At
    <3>4. o # b
      BY <1>2, <3>2, <3>3 DEF Close, Excused, At, Midway, Stages, Persists
    <3>5. QED  BY <2>1, <3>3, <3>4 DEF Excused, At, Alone
  <2>5. Timed'
    BY <1>2, <2>1 DEF Close, Timed, At, Alone, Same
  <2>6. QED  BY <2>1, <2>2, <2>3, <2>4, <2>5
<1>3. CASE Return(b)
  <2> DEFINE l == [Fresh EXCEPT !.pc = "done", !.curatable = build[b].curatable,
                                !.grade = Summary(build[b])]
  <2>1. /\ Fields \subseteq DOMAIN l /\ l.pc = "done"
        /\ l.curatable = build[b].curatable /\ l.grade = Summary(build[b])
    BY DEF Fresh, Fields
  <2>2. build' = [build EXCEPT ![b] = l]
    BY <1>3 DEF Return
  <2> HIDE DEF l
  <2>3. /\ Shape' /\ Alone(b) /\ build'[b].pc = "done"
        /\ build'[b].curatable = build[b].curatable
        /\ build'[b].grade = Summary(build[b])
    BY <1>3, <2>1, <2>2, BecomeEffect DEF Return, Shape, Alone
  <2>4. ~InCharge(b) /\ ~Excused(b) /\ ~At(b, "new")
    BY <1>3 DEF Return, InCharge, Excused, At, Midway, Stages, Persists
  <2>5. Owned'
    BY <1>3, <2>3, <2>4 DEF Return, Owned, InCharge, At, Alone
  <2>6. SkeletonShows' /\ Grounded'
    BY <1>3, <2>3, <2>4 DEF Return, SkeletonShows, Excused, Grounded, At, Alone
  <2>7. Timed'
    <3>1. stopped[b] => build'[b].grade = "cut"
      BY <1>3, <2>3 DEF Return, Timed, At, Summary
    <3>2. QED  BY <1>3, <2>3, <3>1 DEF Return, Timed, At, Alone
  <2>8. QED  BY <1>3, <2>3, <2>5, <2>6, <2>7 DEF Return
<1>4. CASE Undo(b)
  <2>1. Shape' /\ Alone(b) /\ Same(b) /\ build'[b].pc = "undone" /\ stopped'[b] = stopped[b]
    BY <1>4, GotoEffect DEF Undo
  <2>2. /\ status' \in {"cold", "warm"} /\ (status' = "warm" => status = "warm")
        /\ UNCHANGED skeleton
    BY <1>4 DEF Undo, Cooled
  <2>3. Excused(b)'
    BY <2>1 DEF Excused
  <2>4. Owned' /\ SkeletonShows' /\ Grounded'
    BY <2>1, <2>2, <2>3 DEF Owned, SkeletonShows, Grounded, Alone, Same
  <2>5. Timed'
    BY <1>4, <2>1 DEF Undo, Timed, At, Alone
  <2>6. QED  BY <2>1, <2>2, <2>4, <2>5
<1>5. CASE Raise(b)
  <2>1. Shape' /\ Alone(b) /\ Same(b) /\ build'[b].pc = "failed" /\ stopped'[b] = stopped[b]
    BY <1>5, GotoEffect DEF Raise
  <2>2. Excused(b)' /\ ~InCharge(b)
    BY <1>5, <2>1 DEF Raise, Excused, InCharge, At, Midway, Stages, Persists
  <2>3. Owned'
    BY <1>5, <2>1, <2>2 DEF Raise, Owned, InCharge, At, Alone
  <2>4. SkeletonShows' /\ Grounded'
    BY <1>5, <2>1, <2>2 DEF Raise, SkeletonShows, Grounded, Alone, Same
  <2>5. Timed'
    BY <1>5, <2>1 DEF Raise, Timed, At, Alone
  <2>6. QED  BY <1>5, <2>1, <2>3, <2>4, <2>5 DEF Raise
<1>6. QED  BY <1>1, <1>2, <1>3, <1>4, <1>5

LEMMA ClockKeeps ==
    ASSUME IInv, NEW b \in Builds, Expire(b)
    PROVE  IInv'
<1> USE DEF IInv, TypeInv
<1>1. /\ Shape' /\ Alone(b) /\ build'[b].pc = build[b].pc
      /\ build'[b].curatable = build[b].curatable /\ build'[b].expired = TRUE
      /\ UNCHANGED <<status, skeleton, stopped>>
  BY DEF Expire, Shape, Fields, Alone
<1>2. \A o \in Builds : InCharge(o)' = InCharge(o) /\ Excused(o)' = Excused(o)
                          /\ At(o, "new")' = At(o, "new")
  BY <1>1 DEF InCharge, Excused, At, Alone
<1>3. Owned' /\ SkeletonShows'
  BY <1>1, <1>2 DEF Owned, SkeletonShows
<1>4. Grounded' /\ Timed'
  <2>1. Grounded'
    BY <1>1 DEF Grounded, Alone
  <2>2. Timed'
    <3>1. ~At(b, "done")'
      BY <1>1 DEF Expire, Running, Ended, At
    <3>2. QED  BY <1>1, <3>1 DEF Timed, At, Alone
  <2>3. QED  BY <2>1, <2>2
<1>5. QED  BY <1>1, <1>3, <1>4

\* A build that is interrupted or killed answers for the city all the same.
LEMMA CutKeeps ==
    ASSUME IInv, NEW b \in Builds, Interrupt(b) \/ Strand(b)
    PROVE  IInv'
<1> USE DEF IInv, TypeInv
<1>1. /\ Shape' /\ Alone(b) /\ build'[b].pc \in {"undo", "stranded"}
      /\ build'[b].curatable = FALSE
  BY LeaveEffect DEF Interrupt, Strand
<1>2. InCharge(b)' /\ Excused(b)'
  BY <1>1 DEF InCharge, Excused
<1>3. UNCHANGED <<status, skeleton, stopped>>
  BY DEF Interrupt, Strand
<1>4. TypeInv' /\ Owned' /\ SkeletonShows' /\ Grounded'
  BY <1>1, <1>2, <1>3, AnswersFor
<1>5. Timed'
  BY <1>1, <1>3 DEF Timed, At, Alone
<1>6. QED  BY <1>4, <1>5

LEMMA Initially == Init => IInv
<1> SUFFICES ASSUME Init PROVE IInv
  OBVIOUS
<1>1. TypeInv
  BY DEF Init, TypeInv, Shape, Fresh, Fields
<1>2. \A b \in Builds : At(b, "new") /\ ~build[b].curatable /\ ~stopped[b]
  BY DEF Init, Fresh, At
<1>3. QED  BY <1>1, <1>2 DEF Init, IInv, Owned, SkeletonShows, Grounded, Timed

LEMMA StepKeeps == IInv /\ [Next]_vars => IInv'
<1> SUFFICES ASSUME IInv, [Next]_vars PROVE IInv'
  OBVIOUS
<1>1. ASSUME NEW b \in Builds, Step(b) \/ \E s \in Parallel : TaskEnds(b, s)
      PROVE  IInv'
  <2>1. CASE Persist(b)
    BY <2>1, PersistStep, OnwardKeeps DEF IInv, TypeInv
  <2>2. CASE Count(b) \/ Close(b) \/ Return(b) \/ Undo(b) \/ Raise(b)
    BY <2>2, VerdictKeeps
  <2>3. CASE \/ EnterTry(b) \/ Overpass(b) \/ ChoosePlaces(b) \/ Places(b)
             \/ SkipWikidata(b) \/ Wikidata(b) \/ Spawn(b) \/ Gathered(b) \/ Reap(b)
             \/ CollectWikipedia(b) \/ CollectCommons(b)
             \/ \E s \in Parallel : TaskEnds(b, s)
    BY <2>3, OnwardSteps, OnwardKeeps DEF IInv, TypeInv
  <2>4. QED  BY <1>1, <2>1, <2>2, <2>3 DEF Step
<1>2. CASE UNCHANGED vars
  BY <1>2 DEF vars, IInv, TypeInv, Shape, Owned, InCharge, SkeletonShows, Excused,
              Grounded, Timed, At
<1>3. QED  BY <1>1, <1>2, StartKeeps, ClockKeeps, CutKeeps DEF Next

\* Who is responsible for a 'building' city, what a city with a place still
\* has to hope for, and what the deadline did, in every reachable state.
THEOREM Invariance == Spec => []IInv
BY Initially, StepKeeps, PTL DEF Spec

\* No build leaves the city 'building' for good, unless it was stranded: killed,
\* cancelled in start_city or interrupted in its own handler.
THEOREM BuildingHasOwner == Spec => []BuildingIsOwned
<1>1. IInv => BuildingIsOwned
  BY DEF IInv, Owned, InCharge, BuildingIsOwned, Running, At, Midway, Stages, Persists, Ended
<1>2. QED  BY <1>1, Invariance, PTL

\* However many builds overlapped, once all that ran have returned the city is
\* warm exactly if it has a place.
THEOREM OutagesKeepCity == Spec => []OutageKeepsCity
<1>1. IInv => OutageKeepsCity
  <2> SUFFICES ASSUME IInv, NEW a \in Builds, ~At(a, "new"),
                      \A b \in Builds : ~At(b, "new") => At(b, "done")
               PROVE  status = "warm" <=> skeleton
    BY DEF OutageKeepsCity
  <2>1. \A b \in Builds : ~Excused(b)
    BY DEF Excused, At, Midway, Stages, Persists
  <2>2. QED  BY <2>1 DEF IInv, SkeletonShows, Grounded
<1>2. QED  BY <1>1, Invariance, PTL

\* A build that returns without reporting its budget exhausted left no source
\* out, or half done, for want of time.
THEOREM NothingIsCutSilently == Spec => []NothingCutSilently
<1>1. IInv => NothingCutSilently
  BY DEF IInv, Timed, NothingCutSilently, At
<1>2. QED  BY <1>1, Invariance, PTL

-----------------------------------------------------------------------------
(* The refinement *)

Phase == [b \in Builds |-> PhaseOf(b)]

\* What a reader is told of a build, before and after a step.
LEMMA PhaseIs ==
    ASSUME NEW b \in Builds
    PROVE  /\ At(b, "new") => Phase[b] = "new"
           /\ build[b].pc \in Midway \cup {"close", "closing"} => Phase[b] = "running"
           /\ build[b].pc \in {"undo", "undone"} => Phase[b] = "failing"
           /\ build[b].pc \in {"done", "failed"} => Phase[b] = "over"
           /\ At(b, "stranded") => Phase[b] = "stranded"
           /\ build'[b].pc \in Midway \cup {"close", "closing"} => Phase'[b] = "running"
           /\ build'[b].pc \in {"undo", "undone"} => Phase'[b] = "failing"
           /\ build'[b].pc \in {"done", "failed"} => Phase'[b] = "over"
           /\ build'[b].pc = "stranded" => Phase'[b] = "stranded"
BY DEF Phase, PhaseOf, At, Midway, Stages, Persists

\* The phases of the other builds stay.
LEMMA PhaseMoves ==
    ASSUME NEW b \in Builds, Alone(b)
    PROVE  Phase' = [Phase EXCEPT ![b] = Phase'[b]]
<1>1. \A o \in Builds \ {b} : PhaseOf(o)' = PhaseOf(o)
  BY DEF Alone, PhaseOf, At
<1>2. \A o \in Builds : Phase[o] = PhaseOf(o) /\ Phase'[o] = PhaseOf(o)'
  BY DEF Phase
<1>3. Phase = [o \in Builds |-> Phase[o]] /\ Phase' = [o \in Builds |-> Phase'[o]]
  BY DEF Phase
<1>4. QED  BY <1>1, <1>2, <1>3

LEMMA PhaseStays ==
    ASSUME NEW b \in Builds, Alone(b), Phase'[b] = Phase[b]
    PROVE  Phase' = Phase
<1>1. Phase = [o \in Builds |-> Phase[o]]
  BY DEF Phase
<1>2. QED  BY <1>1, PhaseMoves

\* The stages of a build are its readers' 'running'; a batch may give the city
\* its first place.
LEMMA OnwardMaps ==
    ASSUME IInv, NEW b \in Builds, Onward(b), UNCHANGED status,
           skeleton' \in BOOLEAN, skeleton => skeleton'
    PROVE  [Lifecycle!Next]_(Lifecycle!vars)
<1>1. Phase[b] = "running" /\ Phase'[b] = "running" /\ Alone(b)
  BY PhaseIs DEF Onward
<1>2. Phase' = Phase
  BY <1>1, PhaseStays
<1>3. CASE skeleton' = skeleton
  BY <1>2, <1>3 DEF Lifecycle!vars, Phase
<1>4. CASE skeleton' # skeleton
  <2>1. Lifecycle!Grow(b)
    BY <1>1, <1>2, <1>4 DEF Lifecycle!Grow, Phase, IInv, TypeInv
  <2>2. QED  BY <2>1 DEF Lifecycle!Next
<1>5. QED  BY <1>3, <1>4

\* While the city is 'building', and once it has a place, somebody else answers
\* for it than a build with its verdict, or one about to find it empty.
LEMMA AnotherOne ==
    ASSUME IInv, NEW b \in Builds, ~InCharge(b), status = "building"
    PROVE  \E o \in Builds \ {b} :
               Phase[o] \in {"running", "failing"} \/ Phase[o] = "stranded"
<1>1. PICK o \in Builds : InCharge(o)
  BY DEF IInv, Owned
<1>2. Phase[o] \in {"running", "failing", "stranded"}
  BY <1>1, PhaseIs DEF InCharge, At
<1>3. QED  BY <1>1, <1>2

LEMMA StartMaps ==
    ASSUME IInv, NEW b \in Builds, StartCity(b) \/ StartFails(b) \/ StartCancelled(b)
    PROVE  Lifecycle!Next
<1> USE DEF IInv, TypeInv
<1>1. CASE StartCity(b)
  <2>1. Alone(b) /\ build'[b].pc = "starting"
    BY <1>1, GotoEffect DEF StartCity
  <2>2. Phase[b] = "new" /\ Phase' = [Phase EXCEPT ![b] = "running"]
    BY <1>1, <2>1, PhaseIs, PhaseMoves DEF StartCity, Midway
  <2>3. Lifecycle!Start(b)
    BY <1>1, <2>2 DEF StartCity, Lifecycle!Start, Phase
  <2>4. QED  BY <2>3 DEF Lifecycle!Next
<1>2. CASE StartFails(b)
  <2>1. Alone(b) /\ build'[b].pc = "failed"
    BY <1>2, GotoEffect DEF StartFails
  <2>2. Phase[b] = "new" /\ Phase' = [Phase EXCEPT ![b] = "over"]
    BY <1>2, <2>1, PhaseIs, PhaseMoves DEF StartFails
  <2>3. Lifecycle!Refuse(b)
    BY <1>2, <2>2 DEF StartFails, Lifecycle!Refuse, Phase
  <2>4. QED  BY <2>3 DEF Lifecycle!Next
<1>3. CASE StartCancelled(b)
  <2>1. Alone(b) /\ build'[b].pc = "stranded"
    BY <1>3, GotoEffect DEF StartCancelled
  <2>2. Phase[b] = "running" /\ Phase' = [Phase EXCEPT ![b] = "stranded"]
    BY <1>3, <2>1, PhaseIs, PhaseMoves DEF StartCancelled, At, Midway
  <2>3. Lifecycle!Strand(b)
    BY <1>3, <2>2 DEF StartCancelled, Lifecycle!Strand, Lifecycle!Busy, Phase
  <2>4. QED  BY <2>3 DEF Lifecycle!Next
<1>4. QED  BY <1>1, <1>2, <1>3

LEMMA VerdictMaps ==
    ASSUME IInv, NEW b \in Builds,
           Count(b) \/ Close(b) \/ Return(b) \/ Undo(b) \/ Raise(b)
    PROVE  [Lifecycle!Next]_(Lifecycle!vars)
<1> USE DEF IInv, TypeInv
<1>1. CASE Count(b)
  <2>1. Alone(b) /\ build'[b].pc = "close" /\ build[b].pc = "count"
    BY <1>1 DEF Count, Shape, Fields, Alone, At
  <2>2. Phase' = Phase
    BY <2>1, PhaseIs, PhaseStays DEF Midway
  <2>3. QED  BY <1>1, <2>2 DEF Count, Lifecycle!vars, Phase
<1>2. CASE Close(b)
  <2>1. Alone(b) /\ build'[b].pc = "closing" /\ build[b].pc = "close"
    BY <1>2, GotoEffect DEF Close, At
  <2>2. Phase[b] = "running" /\ Phase' = Phase
    BY <2>1, PhaseIs, PhaseStays
  <2>3. CASE build[b].curatable
    <3>1. Lifecycle!Warm(b)
      BY <1>2, <2>2, <2>3 DEF Close, Lifecycle!Warm, Phase, Grounded
    <3>2. QED  BY <3>1 DEF Lifecycle!Next
  <2>4. CASE ~build[b].curatable /\ status = "building"
    <3>1. ~skeleton \/ \E o \in Builds \ {b} :
              Phase[o] \in {"running", "failing"} \/ Phase[o] = "stranded"
      BY <2>1, <2>4, AnotherOne DEF InCharge, At, Midway, Stages, Persists
    <3>2. Lifecycle!Cool(b)
      BY <1>2, <2>2, <2>4, <3>1 DEF Close, Cooled, Lifecycle!Cool, Lifecycle!Busy, Phase
    <3>3. QED  BY <3>2 DEF Lifecycle!Next
  <2>5. CASE ~build[b].curatable /\ status # "building"
    BY <1>2, <2>2, <2>5 DEF Close, Cooled, Lifecycle!vars, Phase
  <2>6. QED  BY <2>3, <2>4, <2>5
<1>3. CASE Undo(b)
  <2>1. Alone(b) /\ build'[b].pc = "undone" /\ build[b].pc = "undo"
    BY <1>3, GotoEffect DEF Undo, At
  <2>2. Phase[b] = "failing" /\ Phase' = Phase
    BY <2>1, PhaseIs, PhaseStays
  <2>3. CASE status = "building"
    <3>1. Lifecycle!Cool(b)
      BY <1>3, <2>2, <2>3 DEF Undo, Cooled, Lifecycle!Cool, Lifecycle!Busy, Phase
    <3>2. QED  BY <3>1 DEF Lifecycle!Next
  <2>4. CASE status # "building"
    BY <1>3, <2>2, <2>4 DEF Undo, Cooled, Lifecycle!vars, Phase
  <2>5. QED  BY <2>3, <2>4
<1>4. CASE Return(b) \/ Raise(b)
  <2>1. /\ build[b].pc \in {"closing", "undone"} /\ UNCHANGED <<status, skeleton>>
        /\ Alone(b) /\ build'[b].pc \in {"done", "failed"}
    <3>1. CASE Raise(b)
      BY <3>1, GotoEffect DEF Raise, At
    <3>2. CASE Return(b)
      BY <3>2 DEF Return, At, Alone, Shape, Fresh
    <3>3. QED  BY <1>4, <3>1, <3>2
  <2>2. /\ Phase[b] \in {"running", "failing"}
        /\ Phase' = [Phase EXCEPT ![b] = "over"]
    BY <2>1, PhaseIs, PhaseMoves
  <2>3. status = "building" => \E o \in Builds \ {b} :
            Phase[o] \in {"running", "failing"} \/ Phase[o] = "stranded"
    BY <2>1, AnotherOne DEF InCharge, At, Midway, Stages, Persists
  <2>4. Lifecycle!Leave(b)
    BY <2>1, <2>2, <2>3 DEF Lifecycle!Leave, Lifecycle!Busy, Phase
  <2>5. QED  BY <2>4 DEF Lifecycle!Next
<1>5. QED  BY <1>1, <1>2, <1>3, <1>4

\* The deadline is no news to the readers; an interrupted build is 'failing', a
\* dead one 'stranded'.
LEMMA CutMaps ==
    ASSUME IInv, NEW b \in Builds, Expire(b) \/ Interrupt(b) \/ Strand(b)
    PROVE  [Lifecycle!Next]_(Lifecycle!vars)
<1> USE DEF IInv, TypeInv
<1>1. CASE Expire(b)
  <2>1. \A o \in Builds : build'[o].pc = build[o].pc
    BY <1>1 DEF Expire, Shape, Fields
  <2>2. Phase' = Phase
    BY <2>1 DEF Phase, PhaseOf, At
  <2>3. QED  BY <1>1, <2>2 DEF Expire, Lifecycle!vars, Phase
<1>2. CASE Interrupt(b)
  <2>1. Alone(b) /\ build'[b].pc = "undo"
    BY <1>2, LeaveEffect DEF Interrupt
  <2>2. build[b].pc \in Midway \cup {"close", "closing"}
    BY <1>2 DEF Interrupt, InTry, Midway
  <2>3. Phase[b] = "running" /\ Phase' = [Phase EXCEPT ![b] = "failing"]
    BY <2>1, <2>2, PhaseIs, PhaseMoves
  <2>4. Lifecycle!Falter(b)
    BY <1>2, <2>3 DEF Interrupt, Lifecycle!Falter, Phase
  <2>5. QED  BY <2>4 DEF Lifecycle!Next
<1>3. CASE Strand(b)
  <2>1. Alone(b) /\ build'[b].pc = "stranded"
    BY <1>3, LeaveEffect DEF Strand
  <2>2. Phase[b] \in {"running", "failing"}
    BY <1>3 DEF Strand, Running, Ended, Phase, PhaseOf, At
  <2>3. Phase' = [Phase EXCEPT ![b] = "stranded"]
    BY <2>1, PhaseIs, PhaseMoves
  <2>4. Lifecycle!Strand(b)
    BY <1>3, <2>2, <2>3 DEF Strand, Lifecycle!Strand, Lifecycle!Busy, Phase
  <2>5. QED  BY <2>4 DEF Lifecycle!Next
<1>4. QED  BY <1>1, <1>2, <1>3

\* Whatever stages its builds go through, and wherever they are cut off, the
\* readers of a city see the life cycle they were promised.
THEOREM KeepsThePromise == Spec => KeepsLifecycle
<1>1. Init => Lifecycle!Init
  <2> SUFFICES ASSUME Init PROVE Lifecycle!Init
    OBVIOUS
  <2>1. Phase = [b \in Builds |-> "new"]
    BY DEF Init, Fresh, Phase, PhaseOf, At
  <2>2. QED  BY <2>1 DEF Init, Lifecycle!Init, Phase
<1>2. IInv /\ [Next]_vars => [Lifecycle!Next]_(Lifecycle!vars)
  <2> SUFFICES ASSUME IInv, [Next]_vars PROVE [Lifecycle!Next]_(Lifecycle!vars)
    OBVIOUS
  <2>1. ASSUME NEW b \in Builds, Step(b) \/ \E s \in Parallel : TaskEnds(b, s)
        PROVE  [Lifecycle!Next]_(Lifecycle!vars)
    <3>1. CASE Persist(b)
      BY <3>1, PersistStep, OnwardMaps DEF IInv, TypeInv
    <3>2. CASE Count(b) \/ Close(b) \/ Return(b) \/ Undo(b) \/ Raise(b)
      BY <3>2, VerdictMaps
    <3>3. CASE \/ EnterTry(b) \/ Overpass(b) \/ ChoosePlaces(b) \/ Places(b)
               \/ SkipWikidata(b) \/ Wikidata(b) \/ Spawn(b) \/ Gathered(b) \/ Reap(b)
               \/ CollectWikipedia(b) \/ CollectCommons(b)
               \/ \E s \in Parallel : TaskEnds(b, s)
      BY <3>3, OnwardSteps, OnwardMaps DEF IInv, TypeInv
    <3>4. QED  BY <2>1, <3>1, <3>2, <3>3 DEF Step
  <2>2. CASE UNCHANGED vars
    BY <2>2 DEF vars, Lifecycle!vars, PhaseOf, At
  <2>3. QED  BY <2>1, <2>2, StartMaps, CutMaps DEF Next
<1>3. QED  BY <1>1, <1>2, Invariance, PTL DEF Spec, KeepsLifecycle, Lifecycle!Spec
-----------------------------------------------------------------------------
(* The HTTP client *)

RequestFields == {"pc", "attempt", "timeout", "until", "code", "served"}

\* Every request has its locals.
RequestShape ==
    /\ DOMAIN req = Requests
    /\ \A r \in Requests : RequestFields \subseteq DOMAIN req[r]

OnTheWire == {r \in Requests : Stands(r, "sending")}

PermitInv == RequestShape /\ permits \in Nat /\ PermitsBalance

Files == {"none", "document", "torn"}

\* A thread at work stores a document; an unasked request has served nothing.
ServesDocuments ==
    \A r \in Requests :
        /\ Stands(r, "new") => req[r].served = "none"
        /\ req[r].pc \in {"storing", "done"} => req[r].served = "document"
        /\ writer[r] # "idle" => req[r].served = "document"

CacheInv ==
    /\ RequestShape
    /\ cache \in [Keys -> Files]
    /\ temp \in [Keys -> Files]
    /\ writer \in [Requests -> {"idle", "ready", "writing", "written"}]
    /\ ServesDocuments

USE HttpAssumption

-----------------------------------------------------------------------------
(* What a step does to the requests *)

\* The other requests keep their locals.
OthersKept(r) == \A q \in Requests \ {r} : req'[q] = req[q]

LEMMA AdvanceEffect ==
    ASSUME RequestShape, NEW r \in Requests, NEW pc, Advance(r, pc)
    PROVE  /\ RequestShape' /\ OthersKept(r)
           /\ req'[r].pc = pc /\ req'[r].served = req[r].served
BY DEF RequestShape, RequestFields, Advance, OthersKept

LEMMA EndsEffect ==
    ASSUME RequestShape, NEW r \in Requests, NEW pc, NEW code, Ends(r, pc, code)
    PROVE  /\ RequestShape' /\ OthersKept(r)
           /\ req'[r].pc = pc /\ req'[r].served = req[r].served
BY DEF RequestShape, RequestFields, Ends, OthersKept

LEMMA RetryEffect ==
    ASSUME RequestShape, NEW r \in Requests, NEW code, NEW delay, RetryOrFail(r, code, delay)
    PROVE  /\ RequestShape' /\ OthersKept(r)
           /\ req'[r].pc \in {"failed", "sleeping"} /\ req'[r].served = req[r].served
<1>1. CASE \E c \in {code, "BUDGET_EXHAUSTED"} : Ends(r, "failed", c)
  BY <1>1, EndsEffect
<1>2. CASE req' = [req EXCEPT ![r].pc = "sleeping", ![r].until = now + delay]
  BY <1>2 DEF RequestShape, RequestFields, OthersKept
<1>3. QED  BY <1>1, <1>2 DEF RetryOrFail, Fails

\* A step that touches no request.
LEMMA SameEffect ==
    ASSUME RequestShape, UNCHANGED req
    PROVE  RequestShape' /\ \A r \in Requests : req'[r] = req[r]
BY DEF RequestShape

\* What becomes of a request whose step is one of its client's or of the
\* upstream's, beside the permits and the thread.
LEMMA StepEffect ==
    ASSUME RequestShape, NEW r \in Requests, Client(r) \/ Upstream(r) \/ Cancel(r)
    PROVE  RequestShape' /\ OthersKept(r)
<1>1. CASE CacheGet(r)      BY <1>1 DEF CacheGet, RequestShape, RequestFields, OthersKept
<1>2. CASE BeginAttempt(r)
  <2>1. CASE \E c : Fails(r, c)
    BY <2>1, EndsEffect DEF Fails
  <2>2. CASE req' = [req EXCEPT ![r].pc = "queued",
                                ![r].timeout = Least(Timeout, Remaining)]
    BY <2>2 DEF RequestShape, RequestFields, OthersKept
  <2>3. QED  BY <1>2, <2>1, <2>2 DEF BeginAttempt
<1>3. CASE Acquire(r)       BY <1>3 DEF Acquire, RequestShape, RequestFields, OthersKept
<1>4. CASE \E code, delay : RetryOrFail(r, code, delay)
  BY <1>4, RetryEffect
<1>5. CASE \E code : Fails(r, code)
  BY <1>5, EndsEffect DEF Fails
<1>6. CASE Wake(r)          BY <1>6 DEF Wake, RequestShape, RequestFields, OthersKept
<1>7. CASE UNCHANGED req
  BY <1>7, SameEffect DEF OthersKept
<1>8. CASE Replace(r)
  BY <1>5, <1>7, <1>8, AdvanceEffect DEF Replace
<1>9. CASE Answered(r)      BY <1>9 DEF Answered, RequestShape, RequestFields, OthersKept
<1>10. CASE Cancel(r)       BY <1>10, EndsEffect DEF Cancel
<1>11. CASE TimesOut(r)     BY <1>11, <1>4 DEF TimesOut
<1>12. CASE Truncate(r) \/ WriteOut(r)
  BY <1>12, <1>7 DEF Truncate, WriteOut
<1>13. CASE AnsweredBusy(r) \/ AnsweredRetryable(r) \/ TransportFails(r)
  BY <1>13, <1>4 DEF AnsweredBusy, AnsweredRetryable, TransportFails
<1>14. CASE AnsweredGarbage(r) \/ AnsweredFatal(r)
  BY <1>14, <1>5 DEF AnsweredGarbage, AnsweredFatal
<1>15. QED
  BY <1>1, <1>2, <1>3, <1>6, <1>8, <1>9, <1>10, <1>11, <1>12, <1>13, <1>14
  DEF Client, Upstream

-----------------------------------------------------------------------------
(* Permits *)

LEMMA Wire ==
    IsFiniteSet(OnTheWire) /\ Cardinality(OnTheWire) \in Nat
BY FS_Subset, FS_CardinalityType DEF OnTheWire

\* A request gets on the wire with a permit.
LEMMA Boards ==
    ASSUME PermitInv, NEW r \in Requests, RequestShape', OthersKept(r),
           ~Stands(r, "sending"), Stands(r, "sending")', permits > 0, permits' = permits - 1
    PROVE  PermitInv'
<1>1. OnTheWire' = OnTheWire \cup {r}
  BY DEF OnTheWire, Stands, OthersKept
<1>2. Cardinality(OnTheWire') = Cardinality(OnTheWire) + 1
  BY <1>1, Wire, FS_AddElement DEF OnTheWire
<1>3. QED  BY <1>2, Wire DEF PermitInv, PermitsBalance, OnTheWire

\* A request leaves the wire and gives its permit back.
LEMMA Leaves ==
    ASSUME PermitInv, NEW r \in Requests, RequestShape', OthersKept(r),
           Stands(r, "sending"), ~Stands(r, "sending")', permits' = permits + 1
    PROVE  PermitInv'
<1>1. OnTheWire' = OnTheWire \ {r}
  BY DEF OnTheWire, Stands, OthersKept
<1>2. Cardinality(OnTheWire') = Cardinality(OnTheWire) - 1
  BY <1>1, Wire, FS_RemoveElement DEF OnTheWire
<1>3. QED  BY <1>2, Wire DEF PermitInv, PermitsBalance, OnTheWire

\* Whatever else a request does leaves the wire and the permits alone.
LEMMA Stays ==
    ASSUME PermitInv, NEW r \in Requests, RequestShape', OthersKept(r),
           ~Stands(r, "sending"), ~Stands(r, "sending")', permits' = permits
    PROVE  PermitInv'
<1>1. OnTheWire' = OnTheWire
  BY DEF OnTheWire, Stands, OthersKept
<1>2. QED  BY <1>1 DEF PermitInv, PermitsBalance, OnTheWire

LEMMA PermitStep ==
    ASSUME PermitInv, NEW r \in Requests, Client(r) \/ Upstream(r) \/ Cancel(r)
    PROVE  PermitInv'
<1> USE DEF PermitInv
<1>0. RequestShape' /\ OthersKept(r)  BY StepEffect
<1>1. CASE Acquire(r)
  BY <1>0, <1>1, Boards DEF Acquire, Stands, RequestShape, RequestFields
<1>2. CASE Answered(r)
  BY <1>0, <1>2, Leaves DEF Answered, Sending, Release, Stands, RequestShape, RequestFields
<1>3. CASE AnsweredBusy(r) \/ AnsweredRetryable(r) \/ TransportFails(r) \/ TimesOut(r)
  <2>1. PICK code, delay : RetryOrFail(r, code, delay)
    BY <1>3 DEF AnsweredBusy, AnsweredRetryable, TransportFails, TimesOut
  <2>2. Sending(r)
    BY <1>3 DEF AnsweredBusy, AnsweredRetryable, TransportFails, TimesOut
  <2>3. ~Stands(r, "sending")'
    BY <2>1, RetryEffect DEF Stands
  <2>4. QED  BY <1>0, <2>2, <2>3, Leaves DEF Sending, Release
<1>4. CASE AnsweredGarbage(r) \/ AnsweredFatal(r)
  <2>1. ~Stands(r, "sending")'
    BY <1>4, EndsEffect DEF AnsweredGarbage, AnsweredFatal, Fails, Stands
  <2>2. QED
    BY <1>0, <1>4, <2>1, Leaves DEF AnsweredGarbage, AnsweredFatal, Sending, Release
<1>5. CASE Cancel(r)
  <2>1. ~Stands(r, "sending")'
    BY <1>5, EndsEffect DEF Cancel, Stands
  <2>2. QED  BY <1>0, <1>5, <2>1, Leaves, Stays DEF Cancel
<1>6. CASE CacheGet(r)
  BY <1>0, <1>6, Stays DEF CacheGet, Stands, RequestShape, RequestFields
<1>7. CASE BeginAttempt(r)
  <2>1. CASE \E c : Fails(r, c)
    <3>1. ~Stands(r, "sending")'
      BY <2>1, EndsEffect DEF Fails, Stands
    <3>2. QED  BY <1>0, <1>7, <3>1, Stays DEF BeginAttempt, Stands
  <2>2. CASE req' = [req EXCEPT ![r].pc = "queued",
                                ![r].timeout = Least(Timeout, Remaining)]
    <3>1. ~Stands(r, "sending")'
      BY <2>2 DEF Stands, RequestShape, RequestFields
    <3>2. QED  BY <1>0, <1>7, <3>1, Stays DEF BeginAttempt, Stands
  <2>3. QED  BY <1>7, <2>1, <2>2 DEF BeginAttempt
<1>8. CASE Wake(r)
  BY <1>0, <1>8, Stays DEF Wake, Stands, RequestShape, RequestFields
<1>9. CASE UNCHANGED <<req, permits>>
  BY <1>9, SameEffect DEF PermitsBalance, Stands
<1>10. CASE Replace(r)
  <2>1. CASE Stands(r, "storing")
    <3>1. ~Stands(r, "sending")'
      <4>1. CASE \E c : Fails(r, c)
        BY <4>1, EndsEffect DEF Fails, Stands
      <4>2. CASE Advance(r, "done")
        BY <4>2, AdvanceEffect DEF Stands
      <4>3. QED  BY <1>10, <2>1, <4>1, <4>2 DEF Replace
    <3>2. QED  BY <1>0, <1>10, <2>1, <3>1, Stays DEF Replace, Stands
  <2>2. CASE ~Stands(r, "storing")
    BY <1>9, <1>10, <2>2 DEF Replace
  <2>3. QED  BY <2>1, <2>2
<1>11. CASE Truncate(r) \/ WriteOut(r)
  BY <1>9, <1>11 DEF Truncate, WriteOut
<1>12. QED
  BY <1>1, <1>2, <1>3, <1>4, <1>5, <1>6, <1>7, <1>8, <1>10, <1>11 DEF Client, Upstream

\* Permits are never lost and never made: however its requests end, answered,
\* failed, timed out or cancelled, the client has as many as it began with.
THEOREM PermitsReturn == HttpSpec => []PermitsBalance
<1>1. HttpInit => PermitInv
  <2> SUFFICES ASSUME HttpInit PROVE PermitInv
    OBVIOUS
  <2>1. RequestShape  BY DEF HttpInit, RequestShape, NewRequest, RequestFields
  <2>2. {r \in Requests : Stands(r, "sending")} = {}
    BY DEF HttpInit, Stands, NewRequest
  <2>3. permits = MaxConcurrency /\ permits \in Nat
    BY DEF HttpInit
  <2>4. PermitsBalance
    BY <2>2, <2>3, FS_EmptySet DEF PermitsBalance
  <2>5. QED  BY <2>1, <2>3, <2>4 DEF PermitInv
<1>2. PermitInv /\ [HttpNext]_httpVars => PermitInv'
  <2> SUFFICES ASSUME PermitInv, [HttpNext]_httpVars PROVE PermitInv'
    OBVIOUS
  <2>1. CASE \E r \in Requests : Client(r) \/ Upstream(r) \/ Cancel(r)
    BY <2>1, PermitStep
  <2>2. CASE Tick \/ UNCHANGED httpVars
    BY <2>2, SameEffect DEF Tick, httpVars, PermitInv, PermitsBalance, Stands
  <2>3. QED  BY <2>1, <2>2 DEF HttpNext
<1>3. PermitInv => PermitsBalance
  BY DEF PermitInv
<1>4. QED  BY <1>1, <1>2, <1>3, PTL DEF HttpSpec
-----------------------------------------------------------------------------
(* The cache *)

\* A step of one request, that leaves the files alone and keeps what the request
\* says of what it served.
LEMMA RequestStep ==
    ASSUME CacheInv, NEW r \in Requests, RequestShape', OthersKept(r),
           UNCHANGED <<cache, temp, writer>>,
           req'[r].served = req[r].served,
           req'[r].pc # "new",
           req'[r].pc \in {"storing", "done"} => req[r].served = "document"
    PROVE  CacheInv'
BY DEF CacheInv, ServesDocuments, OthersKept, Stands

\* A step of one request or of its thread, that keeps to what has been served.
LEMMA ServesStep ==
    ASSUME CacheInv, NEW r \in Requests, OthersKept(r),
           \A q \in Requests \ {r} : writer'[q] = writer[q],
           req'[r].pc = "new" => req'[r].served = "none",
           req'[r].pc \in {"storing", "done"} => req'[r].served = "document",
           writer'[r] # "idle" => req'[r].served = "document"
    PROVE  ServesDocuments'
<1> SUFFICES ASSUME NEW q \in Requests
             PROVE  /\ req'[q].pc = "new" => req'[q].served = "none"
                    /\ req'[q].pc \in {"storing", "done"} => req'[q].served = "document"
                    /\ writer'[q] # "idle" => req'[q].served = "document"
  BY DEF ServesDocuments, Stands
<1>1. CASE q = r
  BY <1>1
<1>2. CASE q # r
  <2>1. req'[q] = req[q] /\ writer'[q] = writer[q]
    BY <1>2 DEF OthersKept
  <2>2. QED  BY <2>1 DEF CacheInv, ServesDocuments, Stands
<1>3. QED  BY <1>1, <1>2

LEMMA CacheStep ==
    ASSUME CacheInv, NEW r \in Requests, Client(r) \/ Upstream(r) \/ Cancel(r)
    PROVE  CacheInv'
<1> USE DEF CacheInv
<1>0. RequestShape' /\ OthersKept(r)  BY StepEffect
<1>1. CASE CacheGet(r)
  <2>1. cache[KeyOf[r]] \in Files
    OBVIOUS
  <2>2. /\ req'[r].pc \in {"loop", "done"}
        /\ req'[r].pc = "done" => req'[r].served = "document"
        /\ writer[r] # "idle" => req'[r].served = "document"
    BY <1>1, <2>1 DEF CacheGet, RequestShape, RequestFields, Files, ServesDocuments
  <2>3. UNCHANGED <<cache, temp, writer>>
    BY <1>1 DEF CacheGet
  <2>4. ServesDocuments'
    BY <1>0, <2>2, <2>3, ServesStep
  <2>5. QED  BY <1>0, <2>3, <2>4
<1>2. CASE BeginAttempt(r)
  <2>1. /\ req'[r].pc \in {"failed", "queued"} /\ req'[r].served = req[r].served
    <3>1. CASE \E c : Fails(r, c)
      BY <3>1, EndsEffect DEF Fails
    <3>2. CASE req' = [req EXCEPT ![r].pc = "queued",
                                  ![r].timeout = Least(Timeout, Remaining)]
      BY <3>2 DEF RequestShape, RequestFields
    <3>3. QED  BY <1>2, <3>1, <3>2 DEF BeginAttempt
  <2>2. QED  BY <1>0, <1>2, <2>1, RequestStep DEF BeginAttempt
<1>3. CASE Acquire(r)
  <2>1. req'[r].pc = "sending" /\ req'[r].served = req[r].served
    BY <1>3 DEF Acquire, RequestShape, RequestFields
  <2>2. QED  BY <1>0, <1>3, <2>1, RequestStep DEF Acquire
<1>4. CASE Wake(r)
  <2>1. req'[r].pc = "loop" /\ req'[r].served = req[r].served
    BY <1>4 DEF Wake, RequestShape, RequestFields
  <2>2. QED  BY <1>0, <1>4, <2>1, RequestStep DEF Wake
<1>5. CASE AnsweredBusy(r) \/ AnsweredRetryable(r) \/ TransportFails(r) \/ TimesOut(r)
  <2>1. PICK code, delay : RetryOrFail(r, code, delay)
    BY <1>5 DEF AnsweredBusy, AnsweredRetryable, TransportFails, TimesOut
  <2>2. UNCHANGED <<cache, temp, writer>>
    BY <1>5 DEF AnsweredBusy, AnsweredRetryable, TransportFails, TimesOut, Sending
  <2>3. req'[r].pc \in {"failed", "sleeping"} /\ req'[r].served = req[r].served
    BY <2>1, RetryEffect
  <2>4. QED  BY <1>0, <2>2, <2>3, RequestStep
<1>6. CASE AnsweredGarbage(r) \/ AnsweredFatal(r)
  <2>1. req'[r].pc = "failed" /\ req'[r].served = req[r].served
    BY <1>6, EndsEffect DEF AnsweredGarbage, AnsweredFatal, Fails
  <2>2. QED
    BY <1>0, <1>6, <2>1, RequestStep DEF AnsweredGarbage, AnsweredFatal, Sending
<1>7. CASE Cancel(r)
  <2>1. req'[r].pc = "cancelled" /\ req'[r].served = req[r].served
    BY <1>7, EndsEffect DEF Cancel
  <2>2. QED  BY <1>0, <1>7, <2>1, RequestStep DEF Cancel
<1>8. CASE Answered(r)
  <2>1. req'[r].pc = "storing" /\ req'[r].served = "document"
    BY <1>8 DEF Answered, RequestShape, RequestFields
  <2>2. UNCHANGED <<cache, temp>> /\ writer' = [writer EXCEPT ![r] = "ready"]
    BY <1>8 DEF Answered, Sending
  <2>3. ServesDocuments'
    BY <1>0, <2>1, <2>2, ServesStep
  <2>4. QED  BY <1>0, <2>2, <2>3
<1>9. CASE Truncate(r)
  <2>1. /\ writer[r] = "ready" /\ temp' = [temp EXCEPT ![KeyOf[r]] = "torn"]
        /\ writer' = [writer EXCEPT ![r] = "writing"] /\ UNCHANGED <<req, cache>>
    BY <1>9 DEF Truncate
  <2>2. req[r].served = "document"
    BY <2>1 DEF ServesDocuments
  <2>3. ServesDocuments'
    BY <1>0, <2>1, <2>2, ServesStep DEF ServesDocuments, Stands
  <2>4. QED  BY <1>0, <2>1, <2>3 DEF Files
<1>10. CASE WriteOut(r)
  <2>1. /\ writer[r] = "writing" /\ writer' = [writer EXCEPT ![r] = "written"]
        /\ UNCHANGED req
    BY <1>10 DEF WriteOut
  <2>2. req[r].served = "document"
    BY <2>1 DEF ServesDocuments
  <2>3. ServesDocuments'
    BY <1>0, <2>1, <2>2, ServesStep DEF ServesDocuments, Stands
  <2>4. temp' \in [Keys -> Files] /\ cache' \in [Keys -> Files]
    BY <1>10, <2>2 DEF WriteOut, Files
  <2>5. QED  BY <1>0, <2>1, <2>3, <2>4
<1>11. CASE Replace(r)
  <2>1. req[r].served = "document" /\ ~Stands(r, "new")'
    <3>1. req[r].served = "document"
      BY <1>11 DEF Replace, ServesDocuments
    <3>2. req'[r].pc \in {"failed", "done"} \/ UNCHANGED req
      BY <1>11, EndsEffect, AdvanceEffect DEF Replace, Fails
    <3>3. QED  BY <3>1, <3>2 DEF ServesDocuments, Stands
  <2>2. req'[r].served = "document"
    BY <1>11, <2>1, EndsEffect, AdvanceEffect DEF Replace, Fails
  <2>3. writer' = [writer EXCEPT ![r] = "idle"]
    BY <1>11 DEF Replace
  <2>4. req'[r].pc # "new"
    BY <2>1 DEF Stands
  <2>5. ServesDocuments'
    BY <1>0, <2>2, <2>3, <2>4, ServesStep
  <2>6. temp' \in [Keys -> Files] /\ cache' \in [Keys -> Files]
    BY <1>11 DEF Replace, Files
  <2>7. QED  BY <1>0, <2>3, <2>5, <2>6
<1>12. QED
  BY <1>1, <1>2, <1>3, <1>4, <1>5, <1>6, <1>7, <1>8, <1>9, <1>10, <1>11
  DEF Client, Upstream

\* Whatever two threads do to one temporary file, whenever requests are
\* cancelled, the cache holds no error and every request that is done has
\* served a whole document.
THEOREM CacheStaysClean == HttpSpec => []CacheServesDocuments
<1>1. HttpInit => CacheInv
  <2> SUFFICES ASSUME HttpInit PROVE CacheInv
    OBVIOUS
  <2>1. RequestShape  BY DEF HttpInit, RequestShape, NewRequest, RequestFields
  <2>2. ServesDocuments  BY DEF HttpInit, ServesDocuments, Stands, NewRequest
  <2>3. QED  BY <2>1, <2>2 DEF HttpInit, CacheInv, Files
<1>2. CacheInv /\ [HttpNext]_httpVars => CacheInv'
  <2> SUFFICES ASSUME CacheInv, [HttpNext]_httpVars PROVE CacheInv'
    OBVIOUS
  <2>1. CASE \E r \in Requests : Client(r) \/ Upstream(r) \/ Cancel(r)
    BY <2>1, CacheStep
  <2>2. CASE Tick \/ UNCHANGED httpVars
    BY <2>2, SameEffect DEF Tick, httpVars, CacheInv, ServesDocuments, Stands
  <2>3. QED  BY <2>1, <2>2 DEF HttpNext
<1>3. CacheInv => CacheServesDocuments
  BY DEF CacheInv, ServesDocuments, CacheServesDocuments, Files, Stands
<1>4. QED  BY <1>1, <1>2, <1>3, PTL DEF HttpSpec
-----------------------------------------------------------------------------
(* Sleeping *)

\* A clock, a count of attempts and a time to wake before the deadline.
SleepInv ==
    /\ RequestShape
    /\ now \in Nat
    /\ \A r \in Requests : req[r].attempt \in Nat \ {0}
    /\ SleepsInsideBudget

\* Whoever asks for a delay, it is not negative.
LEMMA DelaysAreNatural ==
    ASSUME SleepInv, NEW r \in Requests
    PROVE  BackOff(r) \in Nat /\ Asked(r) \subseteq Nat /\ BusyFor \subseteq Nat
<1>1. Power(2)[req[r].attempt - 1] \in Nat
  <2>1. Power(2) \in [Nat -> Nat]
    BY PowerEquations
  <2>2. req[r].attempt - 1 \in Nat
    BY DEF SleepInv
  <2>3. QED  BY <2>1, <2>2
<1>2. BackOff(r) \in Nat
  BY <1>1 DEF BackOff, Least
<1>3. \A d \in Delays : Least(MaxRetryAfter, d) \in Nat
  BY DEF Least
<1>4. \A d \in Delays : Least(MaxRetryAfter, IF d = 0 THEN 1 ELSE d) \in Nat
  BY DEF Least
<1>5. QED  BY <1>2, <1>3, <1>4 DEF Asked, BusyFor

\* A request that is not put to sleep.
LEMMA Awake ==
    ASSUME SleepInv, NEW r \in Requests, RequestShape', OthersKept(r), now' = now,
           req'[r].attempt \in Nat \ {0}, req'[r].pc # "sleeping"
    PROVE  SleepInv'
BY DEF SleepInv, SleepsInsideBudget, OthersKept, Stands

\* A request put to sleep wakes before the deadline; the deadline passed, none is.
LEMMA RetryKeepsBudget ==
    ASSUME SleepInv, NEW r \in Requests, NEW code, NEW delay \in Nat,
           RetryOrFail(r, code, delay), now' = now
    PROVE  SleepInv'
<1> USE DEF SleepInv
<1>0. RequestShape' /\ OthersKept(r)
  BY RetryEffect
<1>1. CASE \E c : Ends(r, "failed", c)
  <2>1. req'[r].pc = "failed" /\ req'[r].attempt = req[r].attempt
    BY <1>1 DEF Ends, RequestShape, RequestFields
  <2>2. QED  BY <1>0, <2>1, Awake
<1>2. CASE /\ Fits(delay)
           /\ req' = [req EXCEPT ![r].pc = "sleeping", ![r].until = now + delay]
  <2>1. now + delay < Budget
    BY <1>2 DEF Fits, Remaining
  <2>2. req'[r].until = now + delay /\ req'[r].attempt = req[r].attempt
    BY <1>2 DEF RequestShape, RequestFields
  <2>3. QED  BY <1>0, <2>1, <2>2 DEF SleepsInsideBudget, OthersKept, Stands
<1>3. QED  BY <1>1, <1>2 DEF RetryOrFail, Fails

LEMMA SleepStep ==
    ASSUME SleepInv, NEW r \in Requests, Client(r) \/ Upstream(r) \/ Cancel(r)
    PROVE  SleepInv'
<1> USE DEF SleepInv
<1>0. RequestShape' /\ OthersKept(r)  BY StepEffect
<1>1. CASE AnsweredBusy(r) \/ AnsweredRetryable(r) \/ TransportFails(r) \/ TimesOut(r)
  <2>1. now' = now
    BY <1>1 DEF AnsweredBusy, AnsweredRetryable, TransportFails, TimesOut, Sending
  <2>2. \E code : \E delay \in Nat : RetryOrFail(r, code, delay)
    BY <1>1, DelaysAreNatural
    DEF AnsweredBusy, AnsweredRetryable, TransportFails, TimesOut
  <2>3. QED  BY <2>1, <2>2, RetryKeepsBudget
<1>2. CASE \E pc \in Over : \E code : Ends(r, pc, code) /\ now' = now
  <2>1. req'[r].pc # "sleeping" /\ req'[r].attempt = req[r].attempt
    BY <1>2 DEF Ends, Over, RequestShape, RequestFields
  <2>2. QED  BY <1>0, <1>2, <2>1, Awake
<1>3. CASE AnsweredGarbage(r) \/ AnsweredFatal(r) \/ Cancel(r)
  BY <1>2, <1>3 DEF AnsweredGarbage, AnsweredFatal, Cancel, Sending, Fails, Over
<1>4. CASE CacheGet(r)
  BY <1>0, <1>4, Awake DEF CacheGet, RequestShape, RequestFields
<1>5. CASE BeginAttempt(r)
  <2>1. CASE \E c : Fails(r, c)
    BY <1>2, <1>5, <2>1 DEF BeginAttempt, Fails, Over
  <2>2. CASE req' = [req EXCEPT ![r].pc = "queued",
                                ![r].timeout = Least(Timeout, Remaining)]
    BY <1>0, <1>5, <2>2, Awake DEF BeginAttempt, RequestShape, RequestFields
  <2>3. QED  BY <1>5, <2>1, <2>2 DEF BeginAttempt
<1>6. CASE Acquire(r)
  BY <1>0, <1>6, Awake DEF Acquire, RequestShape, RequestFields
<1>7. CASE Answered(r)
  BY <1>0, <1>7, Awake DEF Answered, Sending, RequestShape, RequestFields
<1>8. CASE Wake(r)
  <2>1. req'[r].attempt = req[r].attempt + 1 /\ req'[r].pc = "loop"
    BY <1>8 DEF Wake, RequestShape, RequestFields
  <2>2. req'[r].attempt \in Nat \ {0}
    BY <2>1
  <2>3. QED  BY <1>0, <1>8, <2>1, <2>2, Awake DEF Wake
<1>9. CASE UNCHANGED <<req, now>>
  BY <1>9, SameEffect DEF SleepsInsideBudget, Stands
<1>10. CASE Truncate(r) \/ WriteOut(r)
  BY <1>9, <1>10 DEF Truncate, WriteOut
<1>11. CASE Replace(r)
  <2>1. CASE \E c : Fails(r, c)
    BY <1>2, <1>11, <2>1 DEF Replace, Fails, Over
  <2>2. CASE Advance(r, "done")
    BY <1>0, <1>11, <2>2, Awake DEF Replace, Advance, RequestShape, RequestFields
  <2>3. QED  BY <1>9, <1>11, <2>1, <2>2 DEF Replace
<1>12. QED
  BY <1>1, <1>3, <1>4, <1>5, <1>6, <1>7, <1>8, <1>10, <1>11 DEF Client, Upstream

\* No request sleeps up to the deadline of its build or past it, whatever delay
\* a server asks for and however often the back-off has doubled.
THEOREM NoSleepPastBudget == HttpSpec => []SleepsInsideBudget
<1>1. HttpInit => SleepInv
  BY DEF HttpInit, SleepInv, SleepsInsideBudget, Stands, RequestShape, NewRequest, RequestFields
<1>2. SleepInv /\ [HttpNext]_httpVars => SleepInv'
  <2> SUFFICES ASSUME SleepInv, [HttpNext]_httpVars PROVE SleepInv'
    OBVIOUS
  <2>1. CASE \E r \in Requests : Client(r) \/ Upstream(r) \/ Cancel(r)
    BY <2>1, SleepStep
  <2>2. CASE Tick \/ UNCHANGED httpVars
    BY <2>2, SameEffect DEF Tick, httpVars, SleepInv, SleepsInsideBudget, Stands
  <2>3. QED  BY <2>1, <2>2 DEF HttpNext
<1>3. SleepInv => SleepsInsideBudget
  BY DEF SleepInv
<1>4. QED  BY <1>1, <1>2, <1>3, PTL DEF HttpSpec
=============================================================================
