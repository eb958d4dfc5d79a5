----------------------------- MODULE ProfilePage ------------------------------
(****************************************************************************)
(* The settings and onboarding pages of one tab: a profile store that loads *)
(* on mount and saves from its editors, against the profile routes, which   *)
(* other tabs and devices of the same user call as well.                    *)
(****************************************************************************)
EXTENDS ProfileServer, FiniteSets

CONSTANT MaxVersions    \* bound: taste profiles that may be appended

VARIABLES
    page,           \* the profile store: status, traveler, taste
    role,           \* what the store waits for each request for
    muddled         \* history: the page's writes were not served in order, or not alone

pageVars == <<page, role, muddled>>
vars == <<serverVars, pageVars>>

\* A stale save is one that a newer save or an erasure has outdated; other
\* requests are of another tab, or of a page that is gone.  A page that is away
\* shows no profile.

NoProfile == [status |-> "away", traveler |-> Log!NoRow, versions |-> 0]

PageInit ==
    /\ Init
    /\ page = NoProfile
    /\ role = [r \in Requests |-> "none"]
    /\ muddled = FALSE

Mine(r) == role[r] # "none" /\ role[r] # "other"
Loading(r) == role[r] = "load"
PutInFlight(r) == Open(r) /\ req[r].kind \in Puts \cup {"erase"}

MayAppend ==
    versions + Cardinality({r \in Requests : Open(r) /\ req[r].kind = "taste"}) < MaxVersions

Abandoned(roles) == [r \in Requests |-> IF roles[r] = "none" THEN "none" ELSE "other"]
NoLoad(roles) == [r \in Requests |-> IF roles[r] = "load" THEN "other" ELSE roles[r]]

-----------------------------------------------------------------------------
\* load: one request per resource, in parallel.
Load ==
    /\ page' = [page EXCEPT !.status = "loading"]
    /\ muddled' = \E r \in Requests : PutInFlight(r)
    /\ \E a, b \in Requests :
         /\ a # b /\ req[a].stage = "idle" /\ req[b].stage = "idle"
         /\ req' = [req EXCEPT ![a] = [Fresh EXCEPT !.stage = "sent", !.kind = "getTraveler"],
                               ![b] = [Fresh EXCEPT !.stage = "sent", !.kind = "getTaste"]]
         /\ role' = [role EXCEPT ![a] = "load", ![b] = "load"]
    /\ UNCHANGED <<alive, traveler, versions, lock>>

\* The provider mounts with a store of its own and loads.
Mount ==
    /\ page.status = "away"
    /\ Load

TryAgain ==
    /\ page.status = "error"
    /\ Load

Leave ==
    /\ page.status # "away"
    /\ page' = NoProfile
    /\ role' = Abandoned(role)
    /\ UNCHANGED <<serverVars, muddled>>

\* An editor sends all the columns; a later save of the same kind outdates the
\* earlier one (the editor forgets that it is busy when its tab is changed).
Save(r, kind, body) ==
    /\ page.status = "ready"
    /\ Send(r, kind, body)
    /\ role' = [q \in Requests |->
                  IF q = r THEN "save"
                  ELSE IF role[q] = "save" /\ req[q].kind = kind THEN "stale" ELSE role[q]]
    /\ UNCHANGED <<page, muddled>>

SaveTraveler ==
    \E r \in Requests, body \in [Fields -> Values] : Save(r, "traveler", body)

SaveTaste ==
    /\ MayAppend
    /\ \E r \in Requests : Save(r, "taste", Log!NoRow)

EraseAccount ==
    /\ page.status = "ready"
    /\ \E r \in Requests :
         /\ Send(r, "erase", Log!NoRow)
         /\ role' = [role EXCEPT ![r] = "erase"]
    /\ UNCHANGED <<page, muddled>>

\* Another tab or device, one request at a time; a partial body is what the
\* contract allows.
Elsewhere ==
    /\ \A r \in Requests : role[r] # "other"
    /\ \E r \in Requests, kind \in Puts, body \in Log!Bodies :
         /\ kind = "taste" => MayAppend /\ body = Log!NoRow
         /\ Send(r, kind, body)
         /\ role' = [role EXCEPT ![r] = "other"]
    /\ UNCHANGED <<page, muddled>>

-----------------------------------------------------------------------------
\* A write spoils the order of issue: another tab's, or the newest save of its
\* kind before one that it has outdated.
Unordered(r) ==
    \/ role[r] = "other"
    \/ /\ role[r] = "save"
       /\ \E q \in Requests : role[q] = "stale" /\ req[q].kind = req[r].kind /\ Open(q)

TookEffect(r) ==
    /\ req[r].kind \in Puts \cup {"erase"}
    /\ req'[r].stage = "answered" /\ req'[r].outcome = "done"

ServerStep ==
    /\ \E r \in Requests :
         /\ Serve(r)
         /\ muddled' = (muddled \/ (TookEffect(r) /\ Unordered(r)))
    /\ UNCHANGED <<page, role>>

\* handleSessionError: an expired session takes the page to sign-in.
TakeExpired(r) ==
    /\ Mine(r)
    /\ req[r].outcome = "expired"
    /\ Forget(r)
    /\ page' = NoProfile
    /\ role' = [Abandoned(role) EXCEPT ![r] = "none"]
    /\ muddled' = TRUE

\* A failed answer, or one that is lost on its way, leaves the page with what
\* it had; without its answers a load fails whole.
TakeFailure(r) ==
    /\ Mine(r)
    /\ Forget(r)
    /\ page' = IF Loading(r) THEN [page EXCEPT !.status = "error"] ELSE page
    /\ role' = [IF Loading(r) THEN NoLoad(role) ELSE role EXCEPT ![r] = "none"]
    /\ muddled' = (muddled \/ ~Loading(r))

\* Promise.all: both answers are there.
TakeLoad ==
    \E a, b \in Requests :
      /\ role[a] = "load" /\ role[b] = "load"
      /\ At(a, {"getTraveler"}, "answered") /\ At(b, {"getTaste"}, "answered")
      /\ req[a].outcome = "done" /\ req[b].outcome = "done"
      /\ page' = [status |-> "ready", traveler |-> req[a].row, versions |-> req[b].version]
      /\ req' = [req EXCEPT ![a] = Fresh, ![b] = Fresh]
      /\ role' = [role EXCEPT ![a] = "none", ![b] = "none"]
      /\ UNCHANGED <<alive, traveler, versions, lock, muddled>>

Shown(r) ==
    IF req[r].kind = "traveler" THEN [page EXCEPT !.traveler = req[r].row]
                                ELSE [page EXCEPT !.versions = req[r].version]

\* The wrong save: it does not compare its revision.
TakeSaveLate(r) ==
    /\ role[r] \in {"save", "stale"}
    /\ req[r].outcome = "done"
    /\ Forget(r)
    /\ page' = Shown(r)
    /\ role' = [role EXCEPT ![r] = "none"]
    /\ UNCHANGED muddled

\* A stale save is confirmed to the editor but not shown.
TakeSave(r) ==
    /\ role[r] \in {"save", "stale"}
    /\ req[r].outcome = "done"
    /\ Forget(r)
    /\ page' = IF role[r] = "save" THEN Shown(r) ELSE page
    /\ role' = [role EXCEPT ![r] = "none"]
    /\ UNCHANGED muddled

TakeErase(r) ==
    /\ role[r] = "erase"
    /\ req[r].outcome = "done"
    /\ Forget(r)
    /\ page' = [page EXCEPT !.traveler = Log!NoRow, !.versions = 0]
    /\ role' = [q \in Requests |-> IF q = r THEN "none"
                                   ELSE IF role[q] = "save" THEN "stale" ELSE role[q]]
    /\ UNCHANGED muddled

\* An answer that nobody waits for.
Drop(r) ==
    /\ role[r] = "other"
    /\ Forget(r)
    /\ role' = [role EXCEPT ![r] = "none"]
    /\ UNCHANGED <<page, muddled>>

PageNext ==
    \/ Mount \/ TryAgain \/ Leave \/ SaveTraveler \/ SaveTaste \/ EraseAccount \/ Elsewhere
    \/ ServerStep \/ TakeLoad
    \/ \E r \in Requests : TakeExpired(r) \/ TakeFailure(r) \/ TakeSave(r) \/ TakeErase(r) \/ Drop(r)

PageSpec == PageInit /\ [][PageNext]_vars

-----------------------------------------------------------------------------

\* What the page shows, once nothing is in flight, is what the server keeps,
\* in whatever order the answers arrived, provided that the server served the
\* saves of one profile in the order of issue, that none failed and that nobody
\* else wrote since the page was loaded.
PageAgrees ==
    /\ page.status = "ready"
    /\ ~muddled
    /\ \A r \in Requests : role[r] = "none"
    => page.traveler = traveler /\ page.versions = versions

==============================================================================
