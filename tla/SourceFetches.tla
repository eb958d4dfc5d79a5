---------------------------- MODULE SourceFetches ----------------------------
(****************************************************************************)
(* What the fetch of each ingestion source returns, as a function of how    *)
(* its requests end (HttpClient).  Payloads are abstracted to whether they  *)
(* hold anything to persist; a report, to the worst it says.                *)
(****************************************************************************)

\* A request brings a document with something to keep, one with nothing, one
\* the source cannot read (ValueError), an HttpClientError, or the one error
\* code a build's summary singles out, BUDGET_EXHAUSTED.
Outcomes == {"rich", "bare", "invalid", "refused", "budget"}

Troubles == {"invalid", "refused", "budget"}

\* found: the batch is not empty; items: it names places for the later stages;
\* grade: the worst its report says, nothing ("fine"), a FAILED status ("bad"),
\* or a BUDGET_EXHAUSTED issue, which spoils the summary whatever the status
\* ("cut").
Fetch(found, failed, outcomes) ==
    [found |-> found, items |-> FALSE,
     grade |-> IF "budget" \in outcomes THEN "cut" ELSE IF failed THEN "bad" ELSE "fine"]

\* Two mirrors, the second asked when the first brings no place; a document
\* without a usable place is an issue like the others.
OverpassSweep ==
    {Fetch(TRUE, FALSE, {})}
        \cup {Fetch(second = "rich", second # "rich", {first, second}) :
                 first \in Outcomes \ {"rich"}, second \in Outcomes}

\* One request; no place is a failure although nothing went wrong.
PlacesSweep == {Fetch(o = "rich", o # "rich", {o}) : o \in Outcomes}

\* Batches one after the other: a trouble with one does not stop the next, and
\* fails the source only if no other batch brought anything.
Batches(outcomes) ==
    LET found == "rich" \in outcomes
    IN  Fetch(found, outcomes \cap Troubles # {} /\ ~found, outcomes)

\* No place with a Wikidata id: skipped.  A place patched without all its
\* facts (an invalid one ends its batch) may not be among the items.
WikidataFetch ==
    LET fetches == {Batches(S) : S \in SUBSET Outcomes}
    IN  fetches \cup {[f EXCEPT !.items = TRUE] : f \in {g \in fetches : g.found}}

\* No title: skipped.
WikipediaFetch == {Batches(S) : S \in SUBSET Outcomes}

\* The files of the items in batches, then one search around each prominent
\* place until the deadline passes, which is an issue of its own.  With nothing
\* to ask for the source is skipped.
CommonsFetch == {Batches(S) : S \in SUBSET Outcomes}

\* TimeoutError or an unexpected exception: an empty batch, a failed report.
Nothing(grade) == [found |-> FALSE, items |-> FALSE, grade |-> grade]

Answers(s) ==
    CASE s = "OVERPASS"        -> OverpassSweep
      [] s = "GEOAPIFY_PLACES" -> PlacesSweep
      [] s = "WIKIDATA"        -> WikidataFetch
      [] s = "WIKIPEDIA"       -> WikipediaFetch
      [] s = "COMMONS"         -> CommonsFetch

==============================================================================
