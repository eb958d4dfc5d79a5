------------------------------ MODULE CityBuild ------------------------------
(****************************************************************************)
(* build_city of the ingestion orchestrator: the stages of a cold-city      *)
(* build under one deadline, what each commits, and what a cancellation, a  *)
(* failed statement or a killed process leaves in cities.brain_status while *)
(* other builds of the same city go on.  A fetch of a source is one step    *)
(* (SourceFetches), a transaction of the repository is another, and the     *)
(* places are abstracted to whether the city has one.                       *)
(****************************************************************************)
EXTENDS FiniteSets, SourceFetches

CONSTANTS
    Builds,         \* calls of build_city, in any number of processes
    Configured      \* the optional sources the runtime was given

Optional == {"GEOAPIFY_PLACES", "WIKIDATA", "WIKIPEDIA", "COMMONS"}
Sources == Optional \cup {"OVERPASS"}
Parallel == {"WIKIPEDIA", "COMMONS"}

ASSUME ConfiguredAssumption == Configured \subseteq Optional

VARIABLES
    status,         \* cities.brain_status
    skeleton,       \* some pois row of the city has merged_into NULL
    build,          \* the local state of each build_city
    stopped         \* history: whether a build's deadline kept a source from finishing

vars == <<status, skeleton, build, stopped>>

Stages == {"overpass", "places", "wikidata", "gather"}
Persists == {"keep_overpass", "keep_places", "keep_wikidata",
             "keep_wikipedia", "keep_commons"}
InTry == Stages \cup Persists
           \cup {"after_sweep", "spawn", "reap", "wikipedia", "commons",
                 "count", "close", "closing"}
Ended == {"done", "failed", "stranded"}

\* A task is none, running, ended (with a fetch or an exception, chosen when it
\* is collected), or cut: pending, or cancelled, when the deadline passed.
Fresh ==
    [pc |-> "new", expired |-> FALSE, candidates |-> FALSE, items |-> FALSE,
     task |-> [s \in Parallel |-> "none"], grade |-> "fine", curatable |-> FALSE]

Init ==
    /\ status \in {"cold", "warm"}
    /\ skeleton \in BOOLEAN
    /\ status # "cold" => skeleton
    /\ build = [b \in Builds |-> Fresh]
    /\ stopped = [b \in Builds |-> FALSE]

At(b, pc) == build[b].pc = pc
Running(b) == build[b].pc \notin {"new"} \cup Ended

Goto(b, pc) == build' = [build EXCEPT ![b].pc = pc]

Stop(b, really) == stopped' = [stopped EXCEPT ![b] = @ \/ really]

\* The locals of a build that raised, returned or died are gone.
LeaveAt(b, pc) == build' = [build EXCEPT ![b] = [Fresh EXCEPT !.pc = pc]]

\* reports.append(...): only the worst of them matters to the summary.
Worse(g, h) == IF "cut" \in {g, h} THEN "cut" ELSE IF "bad" \in {g, h} THEN "bad" ELSE "fine"
Report(l, f) == [l EXCEPT !.grade = Worse(@, f.grade)]

-----------------------------------------------------------------------------
\* start_city commits before the try block begins.

StartCity(b) ==
    /\ At(b, "new")
    /\ status' = "building"
    /\ Goto(b, "starting")
    /\ UNCHANGED <<skeleton, stopped>>

\* The statement fails: nothing is written and nothing is left to undo.
StartFails(b) ==
    /\ At(b, "new")
    /\ Goto(b, "failed")
    /\ UNCHANGED <<status, skeleton, stopped>>

\* Inside start_city, after its commit, a cancellation meets no handler.
StartCancelled(b) ==
    /\ At(b, "starting")
    /\ Goto(b, "stranded")
    /\ UNCHANGED <<status, skeleton, stopped>>

EnterTry(b) ==
    /\ At(b, "starting")
    /\ Goto(b, "overpass")
    /\ UNCHANGED <<status, skeleton, stopped>>

-----------------------------------------------------------------------------
\* The sweeps.  _bounded gives up at the deadline, before or while a source
\* works; an answer may still come in just before.

SweptBy(b, s, f) ==
    LET l == Report(build[b], f) IN
    build' = [build EXCEPT ![b] =
                 IF f.found THEN [l EXCEPT !.candidates = TRUE,
                     !.pc = IF s = "OVERPASS" THEN "keep_overpass" ELSE "keep_places"]
                 ELSE [l EXCEPT !.pc = IF s = "OVERPASS" THEN "after_sweep" ELSE "wikidata"]]

Overpass(b) ==
    /\ At(b, "overpass")
    /\ \/ \E f \in Answers("OVERPASS") \cup {Nothing("bad")} :
            SweptBy(b, "OVERPASS", f) /\ UNCHANGED stopped
       \/ /\ build[b].expired
          /\ SweptBy(b, "OVERPASS", Nothing("cut"))
          /\ Stop(b, TRUE)
    /\ UNCHANGED <<status, skeleton>>

\* Without candidates the degrade path is next, if configured and in time.
ChoosePlaces(b) ==
    /\ At(b, "after_sweep")
    /\ LET possible == "GEOAPIFY_PLACES" \in Configured IN
       /\ Goto(b, IF possible /\ ~build[b].expired THEN "places" ELSE "wikidata")
       /\ Stop(b, possible /\ build[b].expired)
    /\ UNCHANGED <<status, skeleton>>

Places(b) ==
    /\ At(b, "places")
    /\ \/ \E f \in Answers("GEOAPIFY_PLACES") \cup {Nothing("bad")} :
            SweptBy(b, "GEOAPIFY_PLACES", f) /\ UNCHANGED stopped
       \/ /\ build[b].expired
          /\ SweptBy(b, "GEOAPIFY_PLACES", Nothing("cut"))
          /\ Stop(b, TRUE)
    /\ UNCHANGED <<status, skeleton>>

\* repository.ingest: one transaction.  A batch whose records all belong to
\* places of another city leaves this one without a place.
After == [keep_overpass |-> "wikidata", keep_places |-> "wikidata",
          keep_wikidata |-> "spawn", keep_wikipedia |-> "commons",
          keep_commons |-> "count"]

Persist(b) ==
    /\ build[b].pc \in Persists
    /\ \E landed \in BOOLEAN : skeleton' = (skeleton \/ landed)
    /\ Goto(b, After[build[b].pc])
    /\ UNCHANGED <<status, stopped>>

-----------------------------------------------------------------------------
\* Wikidata, then Wikipedia and Commons side by side.

WikidataWanted(b) == "WIKIDATA" \in Configured /\ build[b].candidates

SkipWikidata(b) ==
    /\ At(b, "wikidata")
    /\ ~WikidataWanted(b) \/ build[b].expired
    /\ Goto(b, "spawn")
    /\ Stop(b, WikidataWanted(b))
    /\ UNCHANGED <<status, skeleton>>

Learned(b, f) ==
    build' = [build EXCEPT ![b] = [Report(@, f) EXCEPT
                 !.items = f.items,
                 !.pc = IF f.found THEN "keep_wikidata" ELSE "spawn"]]

Wikidata(b) ==
    /\ At(b, "wikidata")
    /\ WikidataWanted(b)
    /\ \/ \E f \in Answers("WIKIDATA") \cup {Nothing("bad")} :
            Learned(b, f) /\ UNCHANGED stopped
       \/ /\ build[b].expired
          /\ Learned(b, Nothing("cut"))
          /\ Stop(b, TRUE)
    /\ UNCHANGED <<status, skeleton>>

Wanted(b) ==
    {s \in Parallel \cap Configured :
        IF s = "WIKIPEDIA" THEN build[b].items ELSE build[b].candidates}

\* Each create_task asks the deadline again; nobody asks for the candidates and
\* the items after that, except to complete a batch.
Spawn(b) ==
    /\ At(b, "spawn")
    /\ \E S \in SUBSET Wanted(b) :
         /\ S # Wanted(b) => build[b].expired
         /\ build[b].expired => S = {}
         /\ build' = [build EXCEPT ![b].task =
                         [s \in Parallel |-> IF s \in S THEN "running" ELSE "none"],
                      ![b].candidates = FALSE, ![b].items = FALSE,
                      ![b].pc = IF S = {} THEN "count" ELSE "gather"]
         /\ Stop(b, S # Wanted(b))
    /\ UNCHANGED <<status, skeleton>>

TaskEnds(b, s) ==
    /\ At(b, "gather")
    /\ build[b].task[s] = "running"
    /\ build' = [build EXCEPT ![b].task[s] = "ended"]
    /\ UNCHANGED <<status, skeleton, stopped>>

\* The wrong wait: it forgets the deadline.
GatheredAll(b) ==
    /\ At(b, "gather")
    /\ \A s \in Parallel : build[b].task[s] # "running"
    /\ Goto(b, "wikipedia")
    /\ UNCHANGED <<status, skeleton, stopped>>

\* asyncio.wait returns when every task is done, or at the deadline, when what
\* is pending is cancelled; a result that comes in while it is being cancelled
\* is dropped with it.
Gathered(b) ==
    /\ At(b, "gather")
    /\ LET pending == {s \in Parallel : build[b].task[s] = "running"} IN
       /\ pending # {} => build[b].expired
       /\ build' = [build EXCEPT ![b].task =
                       [s \in Parallel |-> IF s \in pending THEN "cut" ELSE @[s]],
                    ![b].pc = IF pending = {} THEN "wikipedia" ELSE "reap"]
       /\ Stop(b, pending # {})
    /\ UNCHANGED <<status, skeleton>>

Reap(b) ==
    /\ At(b, "reap")
    /\ Goto(b, "wikipedia")
    /\ UNCHANGED <<status, skeleton, stopped>>

\* A collected task is not read again.
Collect(b, s, keep, next) ==
    LET l == [build[b] EXCEPT !.task[s] = "none"]
        Reported(f) == [Report(l, f) EXCEPT !.pc = IF f.found THEN keep ELSE next]
    IN  \/ /\ build[b].task[s] = "none"
           /\ build' = [build EXCEPT ![b] = [l EXCEPT !.pc = next]]
        \/ /\ build[b].task[s] = "cut"
           /\ build' = [build EXCEPT ![b] = Reported(Nothing("cut"))]
        \/ /\ build[b].task[s] = "ended"
           /\ \E f \in Answers(s) \cup {Nothing("bad")} :
                build' = [build EXCEPT ![b] = Reported(f)]

CollectWikipedia(b) ==
    /\ At(b, "wikipedia")
    /\ Collect(b, "WIKIPEDIA", "keep_wikipedia", "commons")
    /\ UNCHANGED <<status, skeleton, stopped>>

CollectCommons(b) ==
    /\ At(b, "commons")
    /\ Collect(b, "COMMONS", "keep_commons", "count")
    /\ UNCHANGED <<status, skeleton, stopped>>

-----------------------------------------------------------------------------
\* The verdict.

Count(b) ==
    /\ At(b, "count")
    /\ build' = [build EXCEPT ![b].curatable = skeleton, ![b].pc = "close"]
    /\ UNCHANGED <<status, skeleton, stopped>>

Cooled == IF status = "building" THEN "cold" ELSE status

\* The wrong verdict: a city is finished whatever the count was.
CloseAlways(b) ==
    /\ At(b, "close")
    /\ status' = "warm"
    /\ Goto(b, "closing")
    /\ UNCHANGED <<skeleton, stopped>>

\* The wrong abort: it does not ask whether the city is still 'building'.
CloseBlind(b) ==
    /\ At(b, "close")
    /\ status' = IF build[b].curatable THEN "warm" ELSE "cold"
    /\ Goto(b, "closing")
    /\ UNCHANGED <<skeleton, stopped>>

\* finish_city or abort_city.
Close(b) ==
    /\ At(b, "close")
    /\ status' = IF build[b].curatable THEN "warm" ELSE Cooled
    /\ Goto(b, "closing")
    /\ UNCHANGED <<skeleton, stopped>>

\* The wrong summary: only the issues count, not the clock.
SummaryOfIssues(l) == l.grade

\* deadline_exhausted is the grade "cut"; a complete build is curatable and "fine".
Summary(l) == IF l.expired THEN "cut" ELSE l.grade

Return(b) ==
    /\ At(b, "closing")
    /\ build' = [build EXCEPT ![b] =
          [Fresh EXCEPT !.pc = "done", !.curatable = build[b].curatable,
                        !.grade = Summary(build[b])]]
    /\ UNCHANGED <<status, skeleton, stopped>>

-----------------------------------------------------------------------------
\* The clock, failures and cancellations.

Expire(b) ==
    /\ Running(b)
    /\ ~build[b].expired
    /\ build' = [build EXCEPT ![b].expired = TRUE]
    /\ UNCHANGED <<status, skeleton, stopped>>

\* A cancellation at any await of the try block, or a statement that fails
\* (rolled back): the handler cancels the tasks and gives the city back.
Interrupt(b) ==
    /\ build[b].pc \in InTry
    /\ LeaveAt(b, "undo")
    /\ UNCHANGED <<status, skeleton, stopped>>

\* The wrong handler: it raises without giving the city back.
UndoNothing(b) ==
    /\ At(b, "undo")
    /\ Goto(b, "undone")
    /\ UNCHANGED <<status, skeleton, stopped>>

Undo(b) ==
    /\ At(b, "undo")
    /\ status' = Cooled
    /\ Goto(b, "undone")
    /\ UNCHANGED <<skeleton, stopped>>

Raise(b) ==
    /\ At(b, "undone")
    /\ Goto(b, "failed")
    /\ UNCHANGED <<status, skeleton, stopped>>

\* The process is killed, or the handler itself is cancelled or fails.
Strand(b) ==
    /\ Running(b)
    /\ LeaveAt(b, "stranded")
    /\ UNCHANGED <<status, skeleton, stopped>>

-----------------------------------------------------------------------------
Step(b) ==
    \/ EnterTry(b) \/ Overpass(b) \/ ChoosePlaces(b) \/ Places(b)
    \/ Persist(b) \/ SkipWikidata(b) \/ Wikidata(b) \/ Spawn(b)
    \/ Gathered(b) \/ Reap(b) \/ CollectWikipedia(b) \/ CollectCommons(b)
    \/ Count(b) \/ Close(b) \/ Return(b) \/ Undo(b) \/ Raise(b)

Next ==
    \E b \in Builds :
        \/ StartCity(b) \/ StartFails(b) \/ StartCancelled(b)
        \/ Step(b) \/ \E s \in Parallel : TaskEnds(b, s)
        \/ Expire(b) \/ Interrupt(b) \/ Strand(b)

\* The event loop runs what is ready and the clock advances; a source may stay
\* silent for ever, nobody has to start, cancel or kill anything.  A source's
\* answer and its time-out are disjuncts of one step: it may be either.
Spec == Init /\ [][Next]_vars

AtSource(b) == build[b].pc \in {"overpass", "places", "wikidata"}

Fairness ==
    \A b \in Builds :
        /\ WF_vars(Expire(b))
        /\ WF_vars(Step(b) /\ (AtSource(b) => build[b].expired))

FairSpec == Spec /\ Fairness

-----------------------------------------------------------------------------

\* A city is 'building' only while a build runs, or because one was stranded:
\* killed, cancelled twice, or cancelled inside start_city (orchestrator.py:94).
BuildingIsOwned ==
    status = "building" =>
        \E b \in Builds : Running(b) \/ At(b, "stranded")

\* A source outage or the deadline never costs the city its skeleton: when no
\* build is at work and none failed, the city is warm exactly when it has one,
\* however the builds overlapped.
OutageKeepsCity ==
    LET ran == {b \in Builds : ~At(b, "new")} IN
    ran # {} /\ (\A b \in ran : At(b, "done")) => (status = "warm" <=> skeleton)

\* A build that does not report its budget exhausted skipped no source for want
\* of time and cut none short; so does, then, a complete one.
NothingCutSilently ==
    \A b \in Builds :
        At(b, "done") /\ build[b].grade # "cut" => ~stopped[b]

\* A reader of the city sees what CityLifecycle promises.
PhaseOf(b) ==
    CASE At(b, "new")                   -> "new"
      [] build[b].pc \in {"done", "failed"} -> "over"
      [] At(b, "stranded")              -> "stranded"
      [] build[b].pc \in {"undo", "undone"} -> "failing"
      [] OTHER                          -> "running"

Lifecycle == INSTANCE CityLifecycle WITH phase <- [b \in Builds |-> PhaseOf(b)]

KeepsLifecycle == Lifecycle!Spec

\* Every build that runs comes to an end.
EveryBuildEnds == \A b \in Builds : Running(b) ~> build[b].pc \in Ended

==============================================================================
