# InTown: TLA+ models and proofs

InTown plans trips for groups: friends share a trip, curate an ordered list of places for each
city of it, vote on them, and a solver turns the list into days. The repository holds an API
(TypeScript, Fastify, PostgreSQL with row-level security), the database itself (migrations with
policies, triggers and functions), Python workers (ingestion of a city's points of interest,
a scheduling solver) and a browser client. This directory models the parts of it whose
correctness depends on an order of events nobody wrote down: concurrent transactions,
cascades, triggers, failures between two statements.

Paths below are relative to the root of the repository.

Contents: 1 Inventory, 2 Modules, 3 Runs, 4 Bounds, 5 Fairness, 6 Proofs, 7 Findings,
8 Abstractions and what is not modelled, 9 Plan.

## 1. Inventory

### Processes and shared state

API processes serve requests concurrently; each authenticated request runs

    requireAuth (auth/hooks.ts): session cookie -> user, then the caller's role on the trip,
        read with auth_trip_role on a separate connection pool
    withUserContext (auth/session.ts): BEGIN; SET LOCAL ROLE and app.user_id; the handler's
        statements; COMMIT, or ROLLBACK if the handler throws

at READ COMMITTED, PostgreSQL's default: every statement sees what was committed when it
started, plus its own transaction's writes. All state of the system lives in the database; the
only locks the code takes itself are advisory (`lockTrip`, `lockUser`, the migration runner).
Triggers announce changes on a trip's realtime channel when a transaction commits. Workers
write the same database from their own connections. The browser keeps stores that are filled
by answers to requests, which may arrive late or out of order.

### Components

| Component | State | Operations | Hard about it | Makes it correct |
|---|---|---|---|---|
| Trips, members, invites (`backend/api/src/trips`, migrations 0004, 0013) | `trips.owner_id`, `trip_members.role`, `trip_invites`, the advisory lock | create, delete, transfer, change role, remove, leave, invite, revoke, join | two representations of the owner; roles checked before the transaction starts; cascades | one owner; transfers whole; joins only raise; nothing dangles |
| Account erasure and export (`account/routes.ts`) | `users` and all that cascades from it | export, erase | erasure races every other write; export reads two pools | no row outlives its account |
| Ordered places (`places/routes.ts`, `ordering/fractional.ts`, 0006, 0013) | `trip_places.position`, two unique indexes | add, move, append, rebalance, row removal | rebalance parks and re-keys rows while others insert, move, delete | strict order, order kept, appends last |
| Broadcast (0014, 0017) | messages of a trip's channel | triggers on `trip_places`, votes, members | parked positions must not leak, final ones must not be lost | a subscriber holds the committed positions |
| Votes (`places/votes.ts`, 0017) | `place_votes`, tallies announced | put, clear | each vote counts without the others' uncommitted rows | the last tally announced is the tally |
| Profiles (`profile/routes.ts`) | profile, taste versions | save, list | versions are dense only under `lockUser` | versions 1..n, one per save |
| Consents (`auth/consents.ts`) | append-only decisions | record, read latest | ties of timestamps | latest decision wins |
| Sign-in (`auth/adapter.ts`, `handler.ts`, `providers.ts`) | sessions, verification tokens | Auth.js callbacks | token used twice | a token signs in once |
| City Brain (0005, 0015, 0016, 0017, `pois/`) | `pois`, observations, redirects, merge journal | observe, merge, unmerge, resolve, recompute coordinate | redirect chains, snapshots that age, expiry that changes nothing by itself | one-hop redirects, LIFO undo, coordinate of live observations |
| Fact conflicts and cards (`pois/conflict.ts`, `pois/routes.ts`) | none | resolve; list, search, open a card | precedence, ties; seven statements without a snapshot over a merge group | a card holds everything known of its place, and nothing its source has replaced |
| Preference merge (`merge/engine.ts`, `load.ts`) | none | load, filter, score | three statements joined by position; vetoes, abstentions | every member's votes, vetoes and limits are heard once |
| Ingestion (`workers/pipeline/.../orchestrator.py`, `repository.py`) | `cities.brain_status`, `pois`, facts, hours, enrichments | start, stages, finish, abort; resolve, insert or update | cancellation between commit and `try`; two builds, one status; ids and names that lead to merged places | a city is 'building' only under a build, warm exactly with a skeleton |
| Ingestion HTTP (`http.py`) | cache files, semaphore, deadline | get, retry, back off, store | time passes while waiting for a permit; cancellation at every await; threads that share a file | permits balance, waits fit the budget, the cache holds whole documents |
| Source parsers (`osm.py`, `wikimedia.py`, `commons.py`, `geoapify.py`) | none | fetch, parse | payload shapes, which failures end a source | what a source says is what is written |
| Solver (`workers/solver`) | routes under construction | greedy insertion, 2-opt, meals, OR-Tools model, check | window, travel and budget arithmetic; roundings; termination | every plan it returns passes the independent check |
| Migration runner (`db/migrate.ts`) | `schema_migrations` | run | two runners; crash between files | each file once, in order |
| Browser stores (`frontend/src`: session, consent, profile, trips) | store contents, revisions, request ids | load, save, sign out | late answers overwrite newer choices | the store shows the newest choice |
| Configuration, UI, contracts, queue | | | start-up code, rendering, schemas, a README without code | |

### How they interact

- The trip handlers, the erasure and the place handlers share rows: an erasure deletes trips,
  memberships, invites and place rows while the others are between two statements.
- Every policy of 0013 asks `is_trip_owner`/`is_trip_member`, which read `trips` and
  `trip_members`: what a statement may see or write depends on rows other requests change.
- `addPlaceHandler` calls `rebalanceTripCity` inside its own transaction, `broadcast_trip_place`
  runs inside the transaction of whoever writes a row, and its messages leave with the COMMIT.
- The builder writes what the City Brain's functions merge and what the API resolves: a card, a
  list and a ranking read places while an ingestion updates them and a merge redirects them.
- A vote's tally is announced by a trigger inside the vote's transaction; the ranking reads the
  members, places and votes that the trip handlers change.
- A build calls five sources through one HTTP client: their requests share a semaphore, a cache
  and the build's deadline.
- In the browser the session store drives the consent provider, and both, with the profile
  store, talk to routes that other tabs and devices call as well.

## 2. Modules

| Module | Models | Built on |
|---|---|---|
| `TripMembership` | trips, memberships, invites, erasure, as concurrent transactions | |
| `TripMembershipProofs` | theorems for all users, requests and codes | `TripMembership`, TLAPS |
| `Powers` | the powers of a natural number, as a recursive function | |
| `PowerProofs` | induction over sets of naturals, recursion over a step function, and what they give for powers | `Powers`, TLAPS |
| `FractionalKeys` | the key arithmetic of `ordering/fractional.ts`, as operators | `Powers` |
| `KeyList` | one list under one request at a time: what the arithmetic promises | `FractionalKeys` |
| `PlaceOrdering` | the list under concurrent requests, rebalances, cascades, broadcast | `FractionalKeys` |
| `OrderingProofs` | theorems about keys, one list and concurrent requests, for all bases, thresholds, places and requests | `KeyList`, `PlaceOrdering`, `PowerProofs`, TLAPS |
| `PoiBrain` | merge, unmerge, ingestion, consensus coordinate, expiry and purge of a city's places | |
| `PoiBrainProofs` | theorems for all places, transactions and observations | `PoiBrain`, TLAPS |
| `SourceFetches` | what the fetch of each source makes of the outcomes of its requests | |
| `CityLifecycle` | abstract: what `cities.brain_status` promises its readers | |
| `CityBuild` | `build_city`, stage by stage, in any number of overlapping builds | `SourceFetches`; implements `CityLifecycle` |
| `HttpClient` | `request_json`: semaphore, deadline, retries, cache, cancellation | `Powers` |
| `IngestionProofs` | that builds keep it, and theorems about builds and the client, for all builds, configurations, requests, keys, limits, delays | `CityBuild`, `HttpClient`, `PowerProofs`, TLAPS |
| `BrowserSession` | the session store, the screens that call it, the consent provider, the server | |
| `ProfileLog` | abstract: writes of profiles take effect one by one | |
| `ProfileServer` | the profile routes under the user's advisory lock | implements `ProfileLog` |
| `ProfilePage` | a page and its profile store against those routes and other devices | `ProfileServer` |
| `BrowserProofs` | what a tab shows, that the routes keep the log's promise and the page agrees, for all loads, requests, fields and values | `BrowserSession`, `ProfilePage`, TLAPS |
| `SolverModel` | the solver's policy, variants, legs and independent check, as operators | |
| `TripSolver` | both engines, step by step | `SolverModel` |
| `SolverProofs` | theorems about what both engines answer, for all requests, POIs and days | `TripSolver`, `PowerProofs`, TLAPS |
| `OsmElements` | what the tags of an OpenStreetMap element become | |
| `SourceRecords` | what every stage of a build writes of a place | `OsmElements` |
| `PlaceResolution` | which place of the city a candidate is taken for | |
| `FactResolution` | `conflict.ts`: which of the facts of a card is shown | |
| `PoiCards` | the rows of places, their writers, and the handlers of list, search and card | instances of the three above |
| `GroupRanking` | `merge/engine.ts`: filters, scores, flags | |
| `GroupVotes` | votes, tallies, members, the loader | an instance of `GroupRanking` |
| `Curation` | a group voting and ranking over places that change | instances of `PoiCards`, `GroupVotes` |
| `CurationProofs` | theorems about cards, tallies and rankings, for all places, sources, members and votes | `Curation`, `PowerProofs`, TLAPS |

Each `MC...` module gives the constants of a run their values.

### Transactions, in the three state machines

A request slot holds one request at a time; its record has `pc`, the statement it runs next, and
the handler's locals. The committed rows are variables; what a transaction has written and not
committed is in its request. One action is one statement: its guard is the code's condition and
the locks it waits for (`Blockers`), and the last statement of a handler and its COMMIT are one
action, since no other transaction can observe a state between them. A refusal (400, 403, 404,
409) still commits what the handler has written before it, as `withUserContext` does; an
exception rolls back. `Fail` is a connection or process lost at any statement, which is also how
a crash looks from the database: nothing but its uncommitted writes disappears.
`DeadlockVictim` is PostgreSQL aborting one transaction of a set that waits only on itself.

### `TripMembership`

| Code | Model |
|---|---|
| `trips.owner_id`, `trip_members.role`, `trip_invites`, `users` | `owner`, `member`, `invite`, `accounts` |
| `lockTrip` (advisory, transfers only) | `lock`, `LockTrip`, `Unlock` |
| requireAuth's role, read on the auth pool before the transaction | `gate`, the guards of the `Request...` actions, `Admit` |
| `is_trip_owner`, `is_trip_member`, the policies | `IsTripOwner`, `IsTripMember`, `Matches` |
| a statement's snapshot, then its write on the rows as they are by then | `TakeSnapshot`, then `Promote`, `SetOwner`, `Demote`, `ChangeRole`, `DeleteMember`, ... |
| updateMemberHandler, role 'owner' | `RequestTransfer`, `LockTrip`, `ReadOwner`, `ReadTarget`, `Promote`, `SetOwner`, `Demote` |
| updateMemberHandler, other roles; removeMemberHandler | `RequestRoleChange`, `RoleReadOwner`, `ChangeRole`; `RequestRemoval`, `RemoveReadOwner`, `DeleteMember` |
| deleteTripHandler and its cascade | `RequestDeleteTrip`, `DeleteTrip`, `CascadeTrip` |
| invites, `redeem_invite` | `RequestInvite`, `InsertInvite`, `RequestRevoke`, `RevokeInvite`, `Expire`, `RequestJoin`, `Redeem` |
| eraseAccountHandler and its cascades | `RequestErase`, `DeleteUser`, `CascadeTrips`, `CascadeMembers` |

The snapshot and the write are two actions because that is where READ COMMITTED bites: the
policy functions are STABLE and answer for the start of the statement, the row is written later,
and PostgreSQL then re-reads the row it waited for (and finds none if it was deleted).

### `FractionalKeys`, `KeyList`, `PlaceOrdering`

A key is a sequence of digits. `Before` is COLLATE "C", `KeyAfter`, `KeyBefore` and `KeyBetween` are
`midpoint` with its recursion unrolled into "the common prefix, then the first digit that leaves
room", `Jitter` the set of outcomes of the random digits, `RebalanceKeys` the even spread with
its trailing zeros stripped. `KeyList` inserts, appends and drops, one request at a time, and
asks whether the arithmetic does what its callers rely on.

`PlaceOrdering` runs addPlaceHandler (`RequestAdd`, `Mint`, `Claim`, `Settle`), patchPlaceHandler
(`RequestMove`, `Claim`, `Settle`), rebalanceTripCity (`Snapshot`, `Park` for each row, `Rekey`) and
the removal of rows by cascades (`RemoveRow`) against the unique indexes (`Taken`, `KeyHolders`) and
the trigger (`Announcement`, `client`). `Claim` waits for the row, `Settle` for the key, and retries
once with jitter, like `insertPlace` and `updatePosition` under `guarded`. A rebalance locks its
rows one at a time, in any order, as an UPDATE may. `since` is a history variable: what other
requests have committed since this one read the list. No guard reads it.

### `PoiBrain`

| Code | Model |
|---|---|
| `pois` (`merged_into`, `external_ids`, `source_refs`, `coord`) | `redirect`, `ext`, `refs`, `coord` |
| `poi_geo_observations`, `expires_at` | `log`, `expired` |
| `poi_merges` | `journal` |
| poi_merge | `CallMerge`, `LockKept`, `LockMerged`, `CheckIncoming`, `Merge` |
| poi_unmerge | `CallUnmerge`, `ReadJournal`, `LockHead`, `CheckLater`, `Unmerge` |
| poi_recompute_coord | `Canon`, `Group`, `Eligible`, `Contributing`, `Consensus` |
| `ingest` of repository.py | `CallIngest`, `Find`, `LockFound` or `InsertPoi`, `Observe`, `WritePoi` |
| poi_geo_obs_recompute, the trigger | the reads in `Observe`, the UPDATE in `SetCoord` |
| poi_geo_purge_expired | `Purge` |

A place is named by the external id it was created under (its uuid is a hash of that id). A
coordinate is represented by the set of observations it was computed from: the centroid, the
confidence and the display gate are functions of that set and are written by the same UPDATE.
`overtaken` and `learned` are history variables and no guard reads them: the places whose
coordinate was overtaken by a concurrent commit or an expiry, and those an ingestion has updated.

### `CityBuild`, `CityLifecycle`, `SourceFetches`

| Code | Model |
|---|---|
| `start_city`, `finish_city`, `abort_city` | `StartCity`, `Close`, `Undo`, each with the ways to fail |
| the stages of `build_city` | `Overpass`, `ChoosePlaces`, `Places`, `Wikidata`, `Spawn`, `TaskEnds`, `Reap`, `CollectWikipedia`, `CollectCommons` |
| `repository.ingest` of a stage | `Persist` |
| `count_pois`, the verdict and the summary | `Count`, `Summary`, `Close` |
| `Deadline`, `asyncio.wait_for` | `Expire`, and the branches on `build[b].expired` |
| cancellation, a failed statement, a killed process | `Interrupt`, `Raise`, `StartCancelled`, `Strand` |

A fetch is one step whose outcomes `SourceFetches` computes from the outcomes of its requests, a
transaction of the repository another. Places are abstracted to whether the city has one.
`CityLifecycle` says what a reader of the city may rely on; `PhaseOf` is the refinement mapping.

### `HttpClient`

One action per stretch between two awaits: the cache read, the semaphore, sending, each kind of
answer, back-off, and the three steps of the worker thread that stores an answer (`Truncate`,
`WriteOut`, `Replace`), which goes on when its request is cancelled. Time runs in ticks of the
smallest back-off and may pass between any two steps.

### `BrowserSession`

A request is sent, handled by the server or lost, and answered, in three steps, so that answers
come in any order. `PageLoad` (`Reload`, `SignIn`) drops the page's state and its interest in answers,
not the requests. `refresh`, `signOut` and `beginAuth` are `Probe`, `SignOut` and `BeginAuth`; `completeAuth` is sent
by the `MountTab` of its screen and taken by `CallbackAnswers`; the revision that outdates answers is `Outdated`. The gates (`RequireAuth`, `Gate`) and
the effect of the consent provider (`Follow`) run in the step that changes what they watch.

### `ProfileLog`, `ProfileServer`, `ProfilePage`

In `ProfileLog` a write takes effect at one moment between its request and its answer. In
`ProfileServer` it is a transaction that locks (`LockUser`), reads, merges the partial body over the
row it read (or numbers the next version) and commits; an erasure deletes the user without
taking the lock. `ProfilePage` adds the store: a load on mount, saves with their request ids,
an erasure, sessions that expire, answers in any order, another device. The store's request ids order
the answers, not the writes: the routes may serve two overlapping saves the other way round. The history
variable `muddled` notes when they did, when another device wrote, and when an answer of a write was lost;
nothing is claimed of the page from then until its next load.

### `SolverModel`, `TripSolver`

`SolverModel` has `policy.py`, `variants.py`, `matrix.py` and `feasibility.py` as operators over a
request. In `TripSolver` the greedy engine is one action for each POI it considers (`Insert`, `Skip`), one for
each turn of 2-opt (`TwoOpt`) and one for meals and answer (`Emit`); the routing engine builds an
assignment stop by stop within the dimensions that `ortools_engine.py` registers
(`Route`), reads it back and puts it through the check (`Publish`). OR-Tools' search is external: any
assignment its dimensions allow may come out, or none.

### `OsmElements`, `SourceRecords`, `PlaceResolution`, `FactResolution`, `PoiCards`

`SourceRecords!Batches` is the set of batches that the stages of a build may write for a place whose sources
have what a record of `Versions` says: the sweep (Overpass, or Geoapify as its substitute), Wikidata's
patch and facts, Wikipedia's extract, photos of Commons. `Ingest` is the transaction of one batch:
`Resolved` finds the place by id or by likeness, `InsertCandidate` or `UpdateCandidate` writes its row, and facts,
hours and enrichments follow with their conflict rules. A card is opened (`Open`: the redirect), read by
statements without a common snapshot (`Read`), resolved (`selectCardFacts`) and answered; a list or search
hands out ids first (`List`).

### `GroupRanking`, `GroupVotes`, `Curation`

A vote is asked, finds its place, upserts (with the trigger's count) and commits, in that order; the row
locks make two votes of one member on one place wait for one another. `LoadMembers`, `LoadPlaces` and
`LoadVotesAndScore` are the loader's statements; the engine runs with the last of them. `Curation`
puts both sides together: the ranked places are rows that an ingestion or merge may change under the
loader, and their price tier is the one the conflict resolver selects.

## 3. Runs

| Run | Checks | Distinct states |
|---|---|---|
| `trip_membership` | `TypeOK`, `OwnerRowIsNamed`, `NoDanglingRows`, `TransferIsWhole`, `JoinOnlyRaises` | 781,757 |
| `trip_requests_end` | `EveryRequestEnds` under `FairSpec` | 373,646 |
| `trip_lockstep` | violation of `OwnerIsMember` | |
| `fractional_keys` | `Ascending`, `OrderIsNumeric`, `KeysStayShort` | 420,463 |
| `place_ordering` | `TypeOK`, `ListOrdered`, `ChannelAgrees`, `QuietOrderKept`, `AppendIsLast` | 719,002 |
| `poi_brain` | `TypeOK`, `NoChains`, `JournalInStep`, `UndoPeels`, `CoordSettled` | 1,414,087 |
| `city_build` | `BuildingIsOwned`, `OutageKeepsCity`, `NothingCutSilently`, `KeepsLifecycle`, `EveryBuildEnds` | 127,161 |
| `http_client` | `PermitsBalance`, `SleepsInsideBudget`, `CacheServesDocuments`, `EveryRequestEnds` | 106,891 |
| `browser_session` | `ChoiceAgrees`, `LeftStaysLeft`, `WaitsEnd` | 916,946 |
| `profile_page` | `PageAgrees`, `Serial` | 657,720 |
| `trip_solver` | `GreedyIsFeasible`, `RoutedPassesGate`, `EveryRequestAnswered` | 21,028 |
| `curation` | `CardIsWhole`, `NothingReplacedIsShown`, `TallyAgrees`, `RankingHears` | 1,204,689 |

- `OwnerRowIsNamed`: whoever has an 'owner' membership is the one `trips.owner_id` names, so there
  are never two owners, whatever overlaps. It needs the advisory lock (its mutant drops it).
- `NoDanglingRows`: a join, an invite or a transfer in flight cannot recreate what a deletion or
  an erasure is removing; it rests on the foreign keys and the order of the cascades.
- `TransferIsWhole`: a commit that changes the owner promotes a member, demotes the former owner
  and touches nobody else. It rests on the throw when the promotion returned no row.
- `JoinOnlyRaises`: `redeem_invite` compares ranks in the upsert, on the row as it is when written.
- `EveryRequestEnds`: transfers, deletions and erasures take the same rows in different orders;
  deadlocks happen (`DeadlockVictim` fires) and are resolved, and no lock outlives its request.
- `Ascending`, `OrderIsNumeric`, `KeysStayShort`: a minted key lies strictly between its neighbours;
  comparing strings is comparing fractions, which is why trailing zeros are banned; no key passes
  the threshold, however long one slot is bisected.
- `ListOrdered`: no committed row is left on a parking value and no two rows share a position,
  though rows join and leave the list while it is re-keyed.
- `ChannelAgrees`: a subscriber that applies every message holds the committed positions: the
  trigger's test of parked rows neither leaks a '~' value nor loses a final one, and a failed
  request announces nothing.
- `QuietOrderKept`: a request reorders no rows but its own and those in dispute, that is, moved by
  others (or put back by another rebalance) since its rebalance read the list.
- `AppendIsLast`: an append lands behind every row that stayed put, unless another request re-keyed
  the list since the last position was read.
- `NoChains`: a redirect ends at a canonical place after one hop, however merges of overlapping
  pairs interleave; it needs both row locks and the check for incoming redirects.
- `JournalInStep`: a place is redirected exactly while one journal row of its merge is live.
- `UndoPeels`: undoing the live merges of a place, last first, gives back what each merge found:
  the LIFO guard and the lock on the kept place keep every snapshot restorable.
- `CoordSettled`: a coordinate is the consensus of the live observations of its group, unless the
  reads it was computed from were overtaken before it was written (or an observation expired).
- `BuildingIsOwned`: nobody finds a city 'building' with no build at work, except after a build was
  killed or cancelled at the two points where the code cannot give the city back.
- `OutageKeepsCity`: whatever sources failed and however two builds overlapped, a city whose builds all
  returned is warm exactly when it has a canonical place.
- `NothingCutSilently`: a build that stopped or skipped a source for want of time says so.
- `KeepsLifecycle`: the stages implement `CityLifecycle`: 'warm' only with a skeleton, 'cold' only from 'building'.
- `EveryBuildEnds`: though sources may stay silent for ever, the deadline ends every build.
- `PermitsBalance`: time-outs, cancellations and errors give the permit back, on every path and once.
- `SleepsInsideBudget`: neither a Retry-After nor a back-off sleeps past the build's deadline.
- `CacheServesDocuments`: an error sent with status 200 is never stored, and no reader gets a torn file
  though two threads may write through one temporary file.
- `EveryRequestEnds`: a request ends by its own retries and time-outs.
- `ChoiceAgrees`: once nothing is in flight the consent shown is the one the server acts on; it
  rests on dropping late answers, and excludes saves that overlapped with no load since.
- `LeftStaysLeft`: after signing out or an expiry no late answer signs anybody in again.
- `WaitsEnd`: though every operation outdates the answers of the others, no page stays 'loading'.
- `Serial`: every write of a profile takes effect whole, between its request and its answer, and
  versions are numbered without gap or repetition (refinement of `ProfileLog`).
- `PageAgrees`: the page ends up showing what the server keeps, if the server served its saves in the
  order of issue.
- `GreedyIsFeasible`: the greedy engine, which does not run the check, passes it all the same but for the
  exceptions the property names (an empty day that cannot get home in time, and what meals do to the way to the next
  stop, to the deadline and to one another when their hours cross), and visits or reports every POI once.
- `RoutedPassesGate`: what the routing model allows passes the check, but for the roundings it names (seconds of
  a start or an opening, fractions of a metre), so that no solution is thrown away by a disagreement of the two.
- `EveryRequestAnswered`: insertion and 2-opt terminate.
- `CardIsWhole`: an undisturbed card is about the place its id was in the end merged into and has every
  attribute, all hours, a text and all reviews known of any place merged into it: one-hop
  redirects and groups are enough.
- `NothingReplacedIsShown`: no value that the source it cites has itself replaced later is shown, unless the later
  value's row bears what an earlier report said (finding 11).
- `TallyAgrees`: the last tally announced is that of the committed votes, unless a commit overtook its count.
- `RankingHears`: an undisturbed ranking counts each present member's vote once, keeps nothing that a
  member excludes or that is officially beyond a member's means, and flags misery; even a disturbed one
  never counts more votes than members.
- the violation run: section 7.

Every property of a passing run has a mutant in PROJECT.json: a plausible bug in a mapped definition
(a lock not taken, a foreign key missing, a sort left out) under which TLC finds it violated.
The mutated forms stand next to the definitions in the modules and are used nowhere else.

## 4. Bounds, and why they are enough

- `Requests` = 2 slots. Each conflict found or ruled out is between two transactions, and a slot
  is used again and again, so a run holds arbitrarily many requests of which two overlap. The
  theorems of section 6 hold for any number of slots.
- `Users` = 3: an owner, a member who becomes the owner, a bystander who must not be touched.
  The liveness run uses 2, without symmetry, which is unsound for liveness.
- `Codes` = 1: an invite's state is independent of other invites; the code dies and is not reissued.
- `Base` = 4 in place of 62: pairs of digits with zero, one and two digits between them, which are
  the branches of `midpoint`. `JitterDigits` = {1, 3} (least and greatest) for the sequential list and
  {1} for the concurrent one, where only the length of the extension matters. `Threshold` = 5 in
  place of 40: with `MaxRows` = 3 a re-keyed list has keys of at most 2 digits, and a bisected slot
  reaches 5 within the run, so that the backstop fires. `ListAssumption` says how long a list may be:
  re-keyed, it must leave room for one jittered key below the threshold, which at base 62 and threshold 40
  holds below 62^36 rows.
- `Places` = 4, three on the list and one to add; `ClientKeys` two keys that collide with those a list
  of three is re-keyed to and one past the threshold; `MaxArrivals` = 3 requests and removals in all:
  two rebalances and a move between them. `MaxArrivals` bounds a counter in the guards of `Arrive` and
  `RemoveRow`; the state space is finite without any state constraint.

- `Pois` = 3, the smallest number with a chain; two observations of one provider, the heavier of which
  expires, so that the lighter one takes over; `MaxArrivals` = 4 calls and purges in all: two
  merges, an unmerge and an ingestion.
- `city_build`: two builds, all four optional sources configured; a source that is not configured is one that
  answers nothing. The state space is finite by itself.
- `http_client`: two requests of one key, one permit, so that each waits for the other's permit and
  shares its file; two retries; delays below, at and above the time-out and the greatest Retry-After;
  `Budget` = 8 ticks admits a time-out, a retry and an exhausted budget in one run.
- `browser_session`: two loads and two savers; `MaxOutstanding` = 2 consent requests at once, which is what an
  overtaking takes. The store has no counters: a page load starts afresh.
- `profile_page`: three requests (two of the page and one of another device), one required field with two
  values beside absent and null, so that two saves of it differ; `MaxVersions` = 2. Optional fields are left to
  the theorems, which hold for any fields and any required ones among them.
- `trip_solver`: up to four POIs, two days, one family of jobs for each thing that can go wrong
  (`MCTripSolver`); `Delays` = {0, 25}: a routed stop begins as early as possible or 25 minutes later.
- `curation`: three rows of places (two there, one merged already, one to come), three versions of each
  element (as it was; changed, with a Wikidata entity; as Geoapify has it), two members and one who joins;
  `MaxChanges` = 2 writes to places, `MaxOps` = 3 writes of the group, `MaxSteps` = 2 when both change.
  `Quiet`, `Undisturbed` and `Within` in `Curation` bound the instance: cards are read while the group
  does nothing (they share no variable), and only the first write may overtake a reader, of whom
  nothing is claimed from then on. `MaxDay` = 1 and `MaxLag` = 1 let a later fetch be committed first;
  `StaleDays` = 0 lets a fact go stale on the next day.

The trip runs stop only when nobody is left (every account erased, every request ended), the place
and POI runs when `MaxArrivals` is used up, `city_build`, `http_client` and `trip_solver` when every build, request
or job has ended, `curation` at its bounds: CHECK_DEADLOCK is off for these reasons and on in the others.

## 5. Fairness

`FairSpec` of `TripMembership` asks strong fairness of every request's `Step` and weak fairness of
`DeadlockVictim`. Lock queues of PostgreSQL are first come, first served, so a request whose
blockers go away infinitely often gets its turn (weak fairness would let a newcomer overtake it
for ever, which the queue does not allow). The deadlock detector runs after `deadlock_timeout`
whenever a wait goes on. Neither `Fail`, nor `Expire`, nor the arrival of a request is assumed to
happen.

`CityBuild`: the deadline passes and a build goes on, weakly fair, except that a source may stay
silent until the deadline: only then is its wait assumed to end, which is what `wait_for` does. Cancellations,
failures and kills are never assumed.

`HttpClient`: the clock advances and the event loop runs what is ready (weak fairness for each request's own steps;
the semaphore serves in order). Upstream answers and cancellations are not assumed.

`BrowserSession`: every request is handled or lost in the end, and its answer or failure delivered (the
browser's fetch settles). What the user does is not assumed; `WaitsEnd` speaks of users who do not reload for ever.

`TripSolver`: a function call runs on (weak fairness of `Next`). Other safety runs and the proofs use no fairness.

## 6. Proofs

`TripMembershipProofs` proves, for any sets `Users`, `Requests` and `Codes` and a null value outside
them (`ConstantsAssumption`):

| Theorem | Statement |
|---|---|
| `Invariance` | `Spec => []IInv` |
| `TypeCorrect` | `Spec => []TypeOK` |
| `OneOwner` | `Spec => []OwnerRowIsNamed` |
| `WholeTransfers` | `Spec => TransferIsWhole` |
| `JoinsOnlyRaise` | `Spec => JoinOnlyRaises` |
| `ForeignKeysHold` | `Spec => []NoDanglingRows` |

`OwnerRowIsNamed` is not inductive: a transfer commits what it has gathered over six statements, so
the invariant must say what a transfer knows at each of them. `IInv` adds

- `LockHeld`: past `lockTrip` a transfer holds the advisory lock, so there is at most one;
- `NoOwnerGranted`: no request and no invite carries the role 'owner' to hand out;
- `GoneIsEmpty`: a deleted trip has no members;
- `RequestInv`, for each request: from `readOwner` on, `prev` is the owner or the trip is gone; if the
  promotion hit a row, its caller was and is the owner, the row still exists (the transfer holds it,
  so a removal or a cascade waits), and at `demote` the trips row has been hit, and the former
  owner's row, if the demotion misses it, is no 'owner' row.

The step proof has one case per statement (`StepStep`), with the statements that only move a request
on (`GotoStep`, `SnapshotStep`), the ones that end it (`FinishStep`) and the two kinds of commit
(`MemberWrite`, `DropWrite`) as lemmas. `NoDanglingRows` needs the locks as well: `DanglingInv` adds
`AccountInv`, that an account or a trip about to be deleted is held against the transactions whose
foreign keys share it. The two action properties follow from `IInv` at the one action that can
disturb each.

`PoiBrainProofs` proves, for any `Pois`, `Requests`, providers and positive observation weights, of
which any may be perishable (`BrainAssumption`):

| Theorem | Statement |
|---|---|
| `Invariance` | `Spec => []IInv` |
| `TypeCorrect` | `Spec => []TypeOK` |
| `OneHop` | `Spec => []NoChains` |
| `RedirectsJournaled` | `Spec => []JournalInStep` |
| `CoordinatesSettle` | `Spec => []CoordSettled` |
| `UndoFaithful` | `Spec => []UndoPeels` |

`NoChains` is not inductive, because a merge checks it over four statements and acts on it in a
fifth. There are three inductive invariants, each resting on the one before:

- `IInv` adds what a transaction knows at each statement (`Knows`: a merge has seen both sides
  canonical, then that nothing points at the one it merges away; an unmerge has a live journal row
  of its duplicate) and that no two transactions hold the same row or journal row (`LocksExclude`).
  Any commit that could falsify what a merge knows would need a row the merge holds.
- `CoordInv` adds `ReadsHold`: a transaction at the trigger's UPDATE whose reads nobody has overtaken
  holds the consensus that its own observation makes. A commit that changes the consensus of a
  head marks the reads that concern it (`Commit`), and the lemmas `OtherHeads`, `OtherGroups` and
  `ExpireConsensus` show that it changes the consensus of no other. `NothingUnborn`: places without
  a row have neither observations nor coordinate.
- `PeelInv` adds `Steady`: the row a merge has read is the row as it is, since it holds it, and no
  live merge into its kept place is later than the one an unmerge is about to undo. With it a
  merge extends the chain of snapshots at its end and an unmerge takes off the end; a commit of an
  ingestion changes a row that is in no chain yet, or one it is noted in `learned` to have updated.

`PowerProofs` holds the lemmas that recursive definitions rest on. That every non-empty set of naturals has a least
member comes from the library's well-founded minimum; so a set with zero and every successor is all of them
(`SetInduction`), and a first value and a step function determine a function on them (`StepRecursion`). The library's
own induction theorems take an operator and cannot be used; with a set in its place the powers of `Powers`, the
values of keys in `KeyList` and the back-off of `HttpClient` can be shown to be what their equations say.

`OrderingProofs` proves, for any base above 1, jitter digits and threshold (`KeysAssumption`), any list that re-keying
can hold (`ListAssumption`), any finite set of places, any requests and any legal client keys (`PlacesAssumption`):

| Theorem | Statement |
|---|---|
| `KeyBetweenIsBetween` | the key minted between two legal keys is legal and strictly between them |
| `RebalancedKeys` | the keys of a re-keyed list are legal, ascend and are no longer than `RebalanceWidth` |
| `ListInvariance` | `ListSpec => []ListInv` |
| `KeysAscend` | `ListSpec => []Ascending` |
| `KeysAreShort` | `ListSpec => []KeysStayShort` |
| `OrderAgreesWithValue` | `ListSpec => []OrderIsNumeric` |
| `PlaceInvariance` | `Spec => []Inv` |
| `PlaceTypes` | `Spec => []TypeOK` |
| `ListIsOrdered` | `Spec => []ListOrdered` |
| `ChannelIsCommitted` | `Spec => []ChannelAgrees` |
| `QuietRowsKeepOrder` | `Spec => QuietOrderKept` |
| `MintedRowsLandLast` | `Spec => AppendIsLast` |

Of the keys: padded with the minimum digit, the first digit in which two legal keys differ decides both their codepoint
order and that of their values, and every way of minting a key exceeds the lower bound at such a digit and stays below
the upper one. A re-keyed list ascends because the quotients it spells do: the width is chosen so that there are
more numbers of that many digits than rows (`WidthIsEnough`).

Of the requests: the invariant says what each may believe of the committed list. What it has read names the rows
that are still there, those nobody has displaced since in their order (`OrderRead`); what it has written is in no other
slot of the committed list (`OwnSlots`) nor of another open transaction (`Compatible`); a key it minted is after all it
has seen (`MintedLast`). A commit of one request is safe for the others because the unique index made them wait for
its keys, and because every row it reorders is thereby in `since` for them.

`BrowserProofs` proves, of the profile routes and their page, for any requests, fields, values and any required fields among them:

| Theorem | Statement |
|---|---|
| `Invariance` | `Spec => []IInv` |
| `TypeCorrect` | `Spec => []ServerTypeOK` |
| `KeepsThePromise` | `Spec => Serial`, that is `Log!Spec` under the mapping `wanted` |
| `PageInvariance` | `PageSpec => []PageInv` |
| `PagesAgree` | `PageSpec => []PageAgrees` |
| `PagesAreServed` | `PageSpec => Serial` |

The mapping keeps the row and the versions and takes a request's wish as open until it is answered. That
the initial states map is immediate; that a step maps to a step needs `IInv`: whoever is past `LockUser`
holds the lock (`LockHeld`), and what it has read, or merged and not yet committed, is built on the row as it
still is, because everybody else who writes is waiting for the lock or is an erasure that ends the account
(`ReadIsCurrent`, `WriteIsCurrent`). Then a commit is one step of the log, an answer is one, and every other step
stutters (`ClientMaps`, `ServeMaps`).

For the page, `Agrees` follows the newest save of each profile: once it is answered, its answer is what the server keeps,
and none that it outdated can still take effect; when it has been shown, or there is none, what the page shows is
what the server keeps. An erasure that is answered and not yet shown overrides this, since nobody can write any more
and showing it outdates what is still to come. The invariant first failed at a save that writes a value the row already
has, out of order; with a single value TLC cannot tell such a write from none, and `MCProfilePage` has two since.

`IngestionProofs` proves, of `CityBuild`, for any number of overlapping builds and any configured sources:

| Theorem | Statement |
|---|---|
| `Invariance` | `Spec => []IInv` |
| `BuildingHasOwner` | `Spec => []BuildingIsOwned` |
| `OutagesKeepCity` | `Spec => []OutageKeepsCity` |
| `NothingIsCutSilently` | `Spec => []NothingCutSilently` |
| `KeepsThePromise` | `Spec => KeepsLifecycle`, that is `Lifecycle!Spec` under the mapping `PhaseOf` |

None of the three properties is inductive, and the refinement has two hard steps: a build may give the city back because it
counted no place although one has landed since, and may return while the city is 'building'. `Owned` settles both: a city
that is 'building' has a build in charge, one that has not given its verdict or was stranded, and, once the city has a
place, one that is not about to find it empty; whoever gives a verdict ends 'building' itself, and whoever commits the first
place is in charge. `SkeletonShows` says what a city with a place that is not 'warm' still has: no build at all yet, one that
failed, or one that will make it warm. `Timed` ties what a deadline stopped to `expired` until the summary takes it up. The
many stages between the start and the count are one kind of step (`Onward`), which `OnwardSteps` shows of each.

`IngestionProofs` proves, of `HttpClient`, for any finite set of requests, any keys, limits and delays:

| Theorem | Statement |
|---|---|
| `PermitsReturn` | `Spec => []PermitsBalance` |
| `CacheStaysClean` | `Spec => []CacheServesDocuments` |
| `NoSleepPastBudget` | `Spec => []SleepsInsideBudget` |

For the first, `PermitInv` adds to the property that `permits` is a natural number and that every request has its
locals: each step puts its one request on the wire with a permit (`Boards`), takes it off and gives the permit back
(`Leaves`), or moves neither (`Stays`). For the second, `CacheInv` adds that whatever a thread is storing was served as a
document, also after its request was cancelled (`ServesDocuments`): then, however two threads interleave on one temporary
file, a file is a document, torn or missing, and a torn one is a miss. For the third, whoever sleeps was given a delay
that ends before the deadline; that a back-off is a delay at all needs that it is a power (`PowerProofs`).

`BrowserProofs` proves, of `BrowserSession`, for any number of loads and of requests in flight:

| Theorem | Statement |
|---|---|
| `TabInvariance` | `TabSpec => []TabInv` |
| `LeftIsLeft` | `TabSpec => LeftStaysLeft` |
| `ChoiceSettles` | `TabSpec => []ChoiceAgrees` |

`LeftInv` says which requests still count: never the callback's, which its page's own probe outdates, and no probe once
nobody is signed in. `AgreeInv` says, while nothing is crossed, that a save is alone in flight, among saves and loads, so
that what a load that counts was answered, or what a save was granted, is still what the server has; an orphan's save
keeps the choice from showing. What is shown may be wrong only while a save is in flight.

`CurationProofs` proves, for any finite sets of places and users, any drafts, versions, tastes, votes and bounds:

| Theorem | Statement |
|---|---|
| `CurationHolds` | `Spec => []CurationInv` |
| `CardsAreWhole` | `Spec => []CardIsWhole` |
| `NothingReplaced` | `Spec => []NothingReplacedIsShown` |
| `TalliesAgree` | `Spec => []TallyAgrees` |
| `RankingsHear` | `Spec => []RankingHears` |

Of the constants `PlacesAssumption` asks what the tables guarantee: what is merged at the start is one hop away and in the
journal once, a candidate's id is a place's, a batch has finitely many facts, confidences and corroboration counts
are natural numbers, prices and budgets are tiers that the engine knows, and row ids are totally ordered.

`CurationInv` has four parts, none of which mentions the bounds or `Quiet`:

- `BrainInv`. Redirects are one hop and each has its one row in the journal (`MergeInv`), so the head that a chain
  of live merges leads to is the one the card's single redirect names (`HeadIsHop`, by `StepRecursion`).
  Rows of facts have the shape that makes each of the resolver's comparisons a strict total order
  (`FactsInv`, `LaterOrders`, `SurerOrders`), so that its `CHOOSE` has a winner, and no row of the same kind of source
  that is as sure is later than it (`ChosenFact`). What a card has read is what the tables still say, until a write marks it overtaken (`IsCard`).
- `TallyInv`. A vote that is written and not committed has counted what the place's ballots will be once it has
  (`CountIsCurrent`), until another vote on the place is committed, which marks it.
- `MembersInv`. The list of members names each member once, so that counting positions counts members.
- `RankInv`. What the loader has read is what the tables still say, until a write marks the ranking overtaken.

From `RankInv` the engine's filters and scores follow: a score is positive only for a member who voted for the place or has an
interest in it (`GoodIsFor`), a mean of 0.34 therefore needs a third of them (`KeptHasThird`), a veto or a
tag excluded empties the row (`VetoIsHeard`), and a price that the newest official row makes too dear for someone is
what the resolver selects, so that the place is out (`NewestPrice`, `DearIsOut`).

Two of the properties were wrong as first stated, which TLC's instance could not tell: `For` left out interests that name a
tag rather than a category, and the exception of `NothingReplacedIsShown` left out a repeated report that differs from
its first one in confidence alone. Both are stated right now.

`SolverProofs` proves, for any finite sets of POIs and days (`SolverAssumption`) and any requests that are well formed
(`RequestsAssumption`, which is what models.py checks of a job: durations positive, times and hours numbers, a leg
wherever one is asked for):

| Theorem | Statement |
|---|---|
| `GreedyInvariance` | `Spec => []GreedyInv` |
| `GreedyFeasible` | `Spec => []GreedyIsFeasible` |
| `RoutingInvariance` | `Spec => []RoutingInv` |
| `RoutedPasses` | `Spec => []RoutedPassesGate` |

A walk, the check of a day, the placing of a meal and a drive are recursive functions over the length of a route. The
proofs use only their equations (`WalkSteps`, `CheckSteps`, `MealSteps`, `DriveSteps`, from `StepRecursion`) and carry what
holds of the stops so far from one stop to the next (`UpTo`, from `SetInduction`).

Greedy. That an answer is feasible says nothing of the steps before it, so `GreedyInv` says it of the routes: every variant is
within the hours it was cut from (`VariantsFit`), every route that is not empty passes `Attempt` (`RoutesFit`), the list of POIs
to come has none twice (`TodoOnce`), and a POI asked for is in exactly one of three places: on one route, once; to come;
skipped (`Parted`). Insertions and turns keep it because each is attempted before it is made, and because it moves
elements without losing or doubling one (`InsertMoves`, `TurnMoves`). `Emit` is the hard step: `WalkIsTimely` makes of a walk a
list of stops each of which the independent check accepts after its predecessor (`Timely`), by equal sums of
travel and paces; `VisitsPass` is the check of those alone. With meals the day is sorted by beginning, and the
check meets the stops in that order: `Arranged` shows that the sort keeps the visits in theirs and that meals come
between, `MealStartClear` that a meal runs into no visit, and `DayChecked` that the check then objects at most to the way
out of a meal, and to a meal in a meal where their hours cross (`Crossing`).

Routing. `RoutingInv` says of each stop that it is in the range of a variant and not before the vehicle can be there
(`Driven`), and that no POI is on two routes or twice on one. Read back, a stop begins at a whole minute: `StopPasses` and
`NextStop` compare the check's seconds with the vehicle's minutes, where only what is dropped from a start or an opening
can put the check ahead, and `BudgetRounds` the tenths of metres with the paces, which agree unless a leg has tenths.

Two things came to light. Two meals whose hours cross may overlap one another, and a day that begins at odd seconds
and is left empty may miss its deadline by them: neither was in the properties, nor reached by the jobs of `MCTripSolver`. Both are
named now, and the run has a job for each exception (without any one of them, TLC finds the property violated).

Model-checked only: the liveness properties, which are beyond the prover, as is ENABLED. `TypeOK` is among the theorems of
each component whose run checks it.

## 7. Findings

1. `trip_lockstep`. routes.ts:24-27 and members.ts:130-131 promise that `trips.owner_id` and the 'owner'
   membership stay in lockstep. `removeMemberHandler` and a plain role change read the owner, compare,
   and write later without `lockTrip`. A transfer to u that commits in between makes u the owner, and
   the write then deletes or demotes u's row: the trip keeps an `owner_id` without an 'owner'
   membership, and requireAuth admits nobody to its owner routes again. Taking `lockTrip` in both
   handlers would close it. `OwnerRowIsNamed`, the other direction, holds.
2. members.ts:172: a DELETE that the row policy refuses (the caller was demoted meanwhile) hits no row
   and the reply still says removed. The reply is not part of the model; no run.
3. "Append: mint a jittered key after the current last" (places/routes.ts:192): the key of an append may
   be minted against positions that another request's rebalance then replaces, and the row lands in
   the middle. `AppendIsLast` is what does hold.
4. fractional.ts:170-171 says "in their current order": a rebalance reads the order without locking the
   rows, so a move committed before its first UPDATE is undone, though it was answered and announced.
   `QuietOrderKept` is what does hold.
5. "`pois.coord` is DERIVED from the append-only `poi_geo_observations` log" (0015:15-16): the trigger of an
   observation resolves the head of its group and reads the log, and updates that head in a later statement. If
   the observation's place is unmerged in between, its former head gets a coordinate from an observation that
   is not its own any more, and the place itself none. `CoordSettled` is what does hold.
6. 0015:226-228: skipping the purge is "NEVER a correctness problem", because poi_recompute_coord excludes
   expired rows. It does, but nothing runs it when a row expires: an expired observation stays in
   `pois.coord` until something else recomputes. `CoordSettled` exempts such coordinates.
7. http.py:231: two requests of one key share a temporary file; the second `replace()` raises, and a request that was
   answered fails with an exception that is no HttpClientError. http.py:202 calls the cache process-safe enough.
8. session/store.ts:169: on /auth/callback the provider's own probe outdates `completeAuth` at once, so that its answer
   never counts and the probe decides. gate/performRequireAuth.ts:18: an action taken before the first probe has
   answered sends a signed-in user to the sign-in page.
9. tripsStore.ts:40: a list load answered after a trip was created drops the new trip from the list.
10. greedy.py:218: the greedy engine's meals are not checked against the way to the next stop and the deadline, nor against one
    another (greedy.py:138 has only the visits as occupied), nor is the way home of a day left empty, although phases/P16-solver-core.md:31 says every solve is verified.
11. repository.py:456: a report that repeats an earlier one keeps its first time, so that of a, b, a the resolver goes on
    showing b; opening hours only accumulate.
12. 0017:175: a tally counts the votes of removed members, beside a member count that leaves them out.
13. load.ts:102: the loader does not follow `merged_into`: a duplicate and its head are ranked as two places.
14. osm.py:114: a day that two clauses name gets an open and a closed row.
15. 0016:227: "unions ... external_ids" is without effect for ingested rows, which have every key, nulls included: the
    merged place's ids are lost, and a later sweep of its element must rely on its name.

Findings 2 to 15 have no run of their own: their properties state what does hold, with the exception named.

## 8. Abstractions, and what is not modelled

- One trip, and for the list one city stay: no statement of the modelled handlers reads or locks rows of two.
- The validation of bodies and paths is left out; an invalid request changes nothing.
- The trip's own columns, cities, stays, and a place's state column are left out: nothing modelled
  depends on them. `Rekey` is one step for all rows: they are all locked by then.
- A caller who loses the editor role while a place request runs: the statement fails, as `Fail` has it.
- Keys keep the structure of strings; `DIGITS` become 0..Base-1, '~' || id the value above all digits
  (ids are unique, so parked values never clash among themselves).
- In `PoiBrain` the match may return any canonical place or none, except that a place which has its own
  name is not created twice (`PlaceResolution` has the rule, `PoiCards` uses it). `external_ids` has one key. An ingestion has one candidate with at most
  one observation, never of kind google_fallback, which the consensus ignores. Facts, hours and
  enrichments are in `PoiCards`.
- The order of weights is fixed: the decay of traveler observations does not reorder providers.
- PostgreSQL (lock waits, unique-index waits, deadlock detector, foreign keys and cascades in the
  order of their creation) is modelled from how the code uses it; the map marks it external where no
  line of the repository stands for it.
- `PoiCards`: a merge, an unmerge and an ingestion are one step each (`PoiBrain` has their statements); of a card
  the statements that read a table each are taken together, the two that read reviews are not. Coordinates are fixed
  sites, trigram similarity and distance constants, and the order of fact ids arbitrary. A card is read in the
  language of the build. Writers of reviews, corrections and prices are external.
- `SourceRecords`: payloads are records of what the code reads of them; their validation, one candidate per Wikidata id
  and the cap on geo candidates are choices.
- `GroupVotes`: the owner and the list of places are fixed, the tags known of a place are external.
- The order in which the loader hands over candidates is left out: a row of the ranking depends on its place alone.
- `Curation`: the caller of the engine is not in the repository; that it completes candidates with the price selected
  for their group is taken from the engine's comments and marked external.
- `BrowserSession`: the replayed action is a closure and is left out with its return path kept; one private page stands
  for all; the decision on personalization stands for the other consents, which are rows of the same log.
- `ProfilePage`: the user record is left out; of the taste profile the number of versions is kept, as a new
  version replaces the old one whole.
- `SolverModel`: half minutes and tenths of metres, so that roundings to minutes and metres show; weather buckets do not
  overlap; an edge missing from the matrix is one of the given legs. Explanations and objective values are left out.
- Not modelled at all: sign-in, the migration runner, configuration, the interface and the contracts, each with its
  reason in PROJECT.json; the job queue is a README without code. The order of server-minted keys after a jittered
  retry is not promised by the code and not checked.

## 9. Plan

Done: all the modules of section 2, with theorems about all of them; every invariant and action property that a run
checks, and every refinement, is a theorem. If the development goes on: verification tokens of the sign-in, the migration runner,
the columns of a trip, the job queue once it has code.
