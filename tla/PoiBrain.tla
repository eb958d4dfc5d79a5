------------------------------ MODULE PoiBrain ------------------------------
(***************************************************************************)
(* The City Brain's places of one city: poi_merge and poi_unmerge of 0016, *)
(* the coordinate consensus and its trigger (0015, 0017), the purge of     *)
(* 0015 and the ingestion transaction of ingestion/repository.py, run      *)
(* concurrently at READ COMMITTED.                                         *)
(*                                                                         *)
(* A place is named by the external id it was created under, since its     *)
(* uuid is derived from that id; external_ids has one key here.  A         *)
(* coordinate is represented by the observations that contributed to it:   *)
(* centroid, confidence and display gate are functions of these and are    *)
(* written by the same UPDATE.  An ingestion has one candidate with at     *)
(* most one observation.  Uncommitted writes are in the request; its last  *)
(* statement and COMMIT are one step.                                      *)
(***************************************************************************)
EXTENDS Naturals, Sequences

CONSTANTS
    Pois,           \* places that may ever have a row, named by their first external id
    Requests,       \* transactions that may run at the same time
    NoPoi,          \* the null value of a place or external id
    Observations,   \* observations that sources report, numbered by weight
    Provider(_),    \* the provider of an observation
    Perishable,     \* observations with an expires_at
    MaxArrivals     \* bound on transactions

ASSUME BrainAssumption ==
    /\ NoPoi \notin Pois
    /\ Observations \subseteq Nat \ {0}
    /\ Perishable \subseteq Observations
    /\ MaxArrivals \in Nat

VARIABLES
    redirect,   \* pois.merged_into
    ext,        \* pois.external_ids, NoPoi when the place has no row
    refs,       \* pois.source_refs, each named by the external id it came with
    coord,      \* pois.coord: the observations it was computed from
    log,        \* poi_geo_observations: pairs of an observation and its place
    expired,    \* observations past their expires_at
    journal,    \* poi_merges in seq order
    req,        \* the transaction in each slot
    overtaken,  \* history: heads whose coordinate a concurrent commit or an expiry overtook
    learned,    \* history: places an ingestion has updated
    arrivals    \* transactions so far

vars == <<redirect, ext, refs, coord, log, expired, journal, req, overtaken, learned, arrivals>>

NoObservation == 0
Here == {p \in Pois : ext[p] # NoPoi}
Canonical == {p \in Here : redirect[p] = NoPoi}

\* What a merge unites and an unmerge restores.
Row(p) == [ext |-> ext[p], refs |-> refs[p]]

PCs == {"idle", "lockKept", "lockMerged", "checkIncoming", "merge",
        "readJournal", "lockHead", "checkLater", "unmerge",
        "find", "lockFound", "insertPoi", "observe", "setCoord"}

Idle == [pc |-> "idle", a |-> NoPoi, b |-> NoPoi, was |-> [ext |-> NoPoi, refs |-> {}],
         entry |-> 0, locked |-> FALSE, obs |-> NoObservation, head |-> NoPoi, from |-> {},
         late |-> FALSE]

Contents == [ext : Pois \cup {NoPoi}, refs : SUBSET Pois]

RequestRecord ==
    [pc : PCs,                      \* the statement it runs next
     a : Pois \cup {NoPoi},         \* p_kept, v_kept; the place an ingestion writes
     b : Pois \cup {NoPoi},         \* p_merged; the external id of an ingestion's candidate
     was : Contents,                \* v_kept's row as it was when it was locked
     entry : Nat,                   \* v_merge, the journal row to undo
     locked : BOOLEAN,              \* the ingestion found its place and locked it
     obs : Observations \cup {NoObservation},
     head : Pois \cup {NoPoi},      \* canon, in the trigger
     from : SUBSET Observations,    \* what its reads gave
     late : BOOLEAN]                \* history: they have been overtaken

\* Type invariant.
TypeOK ==
    /\ redirect \in [Pois -> Pois \cup {NoPoi}]
    /\ ext \in [Pois -> Pois \cup {NoPoi}]
    /\ refs \in [Pois -> SUBSET Pois]
    /\ coord \in [Pois -> SUBSET Observations]
    /\ log \subseteq Observations \X Pois
    /\ expired \subseteq Perishable
    /\ journal \in Seq([kept : Pois, merged : Pois, snapshot : Contents, live : BOOLEAN])
    /\ req \in [Requests -> RequestRecord]
    /\ overtaken \subseteq Pois /\ learned \subseteq Pois
    /\ arrivals \in 0 .. MaxArrivals

\* Some places have been ingested already, from sources without a coordinate.
Init ==
    /\ \E S \in SUBSET Pois :
          /\ ext = [p \in Pois |-> IF p \in S THEN p ELSE NoPoi]
          /\ refs = [p \in Pois |-> S \cap {p}]
    /\ redirect = [p \in Pois |-> NoPoi]
    /\ coord = [p \in Pois |-> {}]
    /\ log = {} /\ expired = {} /\ journal = <<>>
    /\ req = [r \in Requests |-> Idle]
    /\ overtaken = {} /\ learned = {}
    /\ arrivals = 0

(***************************************************************************)
(* poi_recompute_coord.                                                    *)
(***************************************************************************)
\* coalesce(merged_into, id).
Canon(p) == IF redirect[p] = NoPoi THEN p ELSE redirect[p]

\* id = h OR merged_into = h.
Group(red, h) == {h} \cup {p \in Pois : red[p] = h}

\* Observations of the group that have not expired, one per source identity.
Eligible(rows, red, h) ==
    {o \in Observations \ expired : \E p \in Group(red, h) : <<o, p>> \in rows}

\* The heaviest observation of each provider.
Contributing(S) == {o \in S : \A x \in S : Provider(x) = Provider(o) => x <= o}

Consensus(rows, red, h) == Contributing(Eligible(rows, red, h))

(***************************************************************************)
(* Row locks on pois and poi_merges.                                       *)
(***************************************************************************)
\* Rows a transaction holds FOR UPDATE.
Locked(q) ==
    LET held == {"lockMerged", "checkIncoming", "merge", "checkLater", "unmerge"}
    IN  (IF q.pc \in held \/ (q.pc \in {"observe", "setCoord"} /\ q.locked) THEN {q.a} ELSE {})
        \cup (IF q.pc \in {"checkIncoming", "merge"} THEN {q.b} ELSE {})

\* Rows held FOR KEY SHARE, by the foreign key of an observation.
Shared(q) == IF q.pc = "setCoord" THEN {q.a} ELSE {}

\* Rows inserted and not committed.
Inserted(q) == IF q.pc \in {"observe", "setCoord"} THEN {q.a} \ Here ELSE {}

\* Journal rows held FOR UPDATE, each named by the place whose merge it records.
Undoing(q) == IF q.pc \in {"lockHead", "checkLater", "unmerge"} THEN {q.b} ELSE {}

\* The transactions the next statement of r waits for.
Blockers(r) ==
    LET q == req[r]
        others == Requests \ {r}
        holding(p) == {s \in others : p \in Locked(req[s])}
        using(p) == {s \in others : p \in Locked(req[s]) \cup Shared(req[s])}
    IN  CASE q.pc \in {"lockKept", "lockHead", "lockFound"} -> using(q.a)
          [] q.pc = "lockMerged" -> using(q.b)
          [] q.pc = "readJournal" -> {s \in others : q.b \in Undoing(req[s])}
          [] q.pc = "unmerge" -> holding(q.b)
          [] q.pc = "insertPoi" -> {s \in others : q.b \in Inserted(req[s])}
          [] q.pc = "observe" -> holding(q.a) \cup
                {s \in others : req[s].pc = "setCoord" /\ req[s].a = q.a /\ req[s].obs = q.obs}
          [] q.pc = "setCoord" -> holding(q.head)
          [] OTHER -> {}

(***************************************************************************)
(* How a transaction moves.                                                *)
(***************************************************************************)
Ready(r, pc) == req[r].pc = pc /\ Blockers(r) = {}

Goto(r, q) ==
    /\ req' = [req EXCEPT ![r] = q]
    /\ UNCHANGED <<redirect, ext, refs, coord, log, expired, journal, overtaken, learned, arrivals>>

\* ROLLBACK: a RAISE, a lost connection.
Rollback(r) == Goto(r, Idle)

\* The commit of r, after which the consensus of the heads H may be another: reads of
\* the other transactions that concern them are overtaken.
Commit(r, H) ==
    req' = [q \in Requests |->
              IF q = r THEN Idle
              ELSE [req[q] EXCEPT !.late = @ \/ (req[q].pc = "setCoord" /\ H \cap {req[q].head, Canon(req[q].a)} # {})]]

Arrive(r, q) ==
    /\ req[r].pc = "idle"
    /\ arrivals < MaxArrivals
    /\ arrivals' = arrivals + 1
    /\ req' = [req EXCEPT ![r] = q]
    /\ UNCHANGED <<redirect, ext, refs, coord, log, expired, journal, overtaken, learned>>

(***************************************************************************)
(* poi_merge.                                                              *)
(***************************************************************************)
CallMerge(r, kept, merged) ==
    /\ kept # merged
    /\ {kept, merged} \subseteq Here
    /\ Arrive(r, [Idle EXCEPT !.pc = "lockKept", !.a = kept, !.b = merged])

\* SELECT ... FOR UPDATE, twice; refuse if either side is merged already.  (A kept
\* place once seen canonical stays so: it is locked.)
LockKept(r) ==
    /\ Ready(r, "lockKept")
    /\ LET a == req[r].a IN
       IF redirect[a] # NoPoi THEN Rollback(r)
       ELSE Goto(r, [req[r] EXCEPT !.pc = "lockMerged", !.was = Row(a)])

LockMerged(r) ==
    /\ Ready(r, "lockMerged")
    /\ IF redirect[req[r].b] # NoPoi THEN Rollback(r)
       ELSE Goto(r, [req[r] EXCEPT !.pc = "checkIncoming"])

\* Mutant of CheckIncoming: only the place itself is looked at.
CheckNothing(r) ==
    /\ Ready(r, "checkIncoming")
    /\ Goto(r, [req[r] EXCEPT !.pc = "merge"])

\* The no-chain invariant: nothing may point at the place merged away.
CheckIncoming(r) ==
    /\ Ready(r, "checkIncoming")
    /\ IF \E p \in Pois : redirect[p] = req[r].b THEN Rollback(r)
       ELSE Goto(r, [req[r] EXCEPT !.pc = "merge"])

\* Union of the contents, the kept place winning conflicts.
Union(kept, merged) == [ext |-> IF kept.ext # NoPoi THEN kept.ext ELSE merged.ext,
                        refs |-> kept.refs \cup merged.refs]

\* Journal, union, redirect, recompute.
Merge(r) ==
    /\ Ready(r, "merge")
    /\ LET a == req[r].a
           b == req[r].b
           both == Union(req[r].was, Row(b))
       IN  /\ journal' = Append(journal, [kept |-> a, merged |-> b, snapshot |-> req[r].was,
                                          live |-> TRUE])
           /\ ext' = [ext EXCEPT ![a] = both.ext]
           /\ refs' = [refs EXCEPT ![a] = both.refs]
           /\ redirect' = [redirect EXCEPT ![b] = a]
           /\ coord' = [coord EXCEPT ![a] = Consensus(log, redirect', a)]
           /\ overtaken' = overtaken \ {a}
           /\ Commit(r, {a, b})
    /\ UNCHANGED <<log, expired, learned, arrivals>>

(***************************************************************************)
(* poi_unmerge.                                                            *)
(***************************************************************************)
CallUnmerge(r, merged) ==
    /\ redirect[merged] # NoPoi
    /\ Arrive(r, [Idle EXCEPT !.pc = "readJournal", !.b = merged])

\* merged_poi_id = p AND undone_at IS NULL.
LiveMerges(p) == {i \in DOMAIN journal : journal[i].live /\ journal[i].merged = p}

\* The journal row of a live merge, locked.
ReadJournal(r) ==
    /\ Ready(r, "readJournal")
    /\ LET live == LiveMerges(req[r].b)
       IN  IF live = {} THEN Rollback(r)
           ELSE \E i \in live :
                   /\ \A j \in live : j <= i
                   /\ Goto(r, [req[r] EXCEPT !.pc = "lockHead", !.entry = i, !.a = journal[i].kept])

LockHead(r) ==
    /\ Ready(r, "lockHead")
    /\ Goto(r, [req[r] EXCEPT !.pc = "checkLater"])

\* Mutant of CheckLater: no LIFO guard.
CheckLaterNever(r) ==
    /\ Ready(r, "checkLater")
    /\ Goto(r, [req[r] EXCEPT !.pc = "unmerge"])

\* The LIFO guard.
CheckLater(r) ==
    /\ Ready(r, "checkLater")
    /\ IF \E j \in DOMAIN journal : /\ journal[j].kept = req[r].a
                                    /\ journal[j].live
                                    /\ j > req[r].entry
       THEN Rollback(r)
       ELSE Goto(r, [req[r] EXCEPT !.pc = "unmerge"])

\* Mutant of Unmerge: the restored place keeps its coordinate of old.
UnmergeHalfRecomputed(r) ==
    /\ Ready(r, "unmerge")
    /\ LET a == req[r].a
           b == req[r].b
       IN  /\ ext' = [ext EXCEPT ![a] = journal[req[r].entry].snapshot.ext]
           /\ refs' = [refs EXCEPT ![a] = journal[req[r].entry].snapshot.refs]
           /\ redirect' = [redirect EXCEPT ![b] = NoPoi]
           /\ journal' = [journal EXCEPT ![req[r].entry].live = FALSE]
           /\ coord' = [coord EXCEPT ![a] = Consensus(log, redirect', a)]
           /\ overtaken' = overtaken \ {a, b}
           /\ Commit(r, {a, b})
    /\ UNCHANGED <<log, expired, learned, arrivals>>

\* Mutant of Unmerge: the journal row is not stamped.
UnmergeUnstamped(r) ==
    /\ Ready(r, "unmerge")
    /\ LET a == req[r].a
           b == req[r].b
       IN  /\ ext' = [ext EXCEPT ![a] = journal[req[r].entry].snapshot.ext]
           /\ refs' = [refs EXCEPT ![a] = journal[req[r].entry].snapshot.refs]
           /\ redirect' = [redirect EXCEPT ![b] = NoPoi]
           /\ coord' = [coord EXCEPT ![a] = Consensus(log, redirect', a),
                                     ![b] = Consensus(log, redirect', b)]
           /\ overtaken' = overtaken \ {a, b}
           /\ Commit(r, {a, b})
    /\ UNCHANGED <<log, expired, journal, learned, arrivals>>

\* Restore, clear the redirect, stamp the journal, recompute both.
Unmerge(r) ==
    /\ Ready(r, "unmerge")
    /\ LET a == req[r].a
           b == req[r].b
       IN  /\ ext' = [ext EXCEPT ![a] = journal[req[r].entry].snapshot.ext]
           /\ refs' = [refs EXCEPT ![a] = journal[req[r].entry].snapshot.refs]
           /\ redirect' = [redirect EXCEPT ![b] = NoPoi]
           /\ journal' = [journal EXCEPT ![req[r].entry].live = FALSE]
           /\ coord' = [coord EXCEPT ![a] = Consensus(log, redirect', a),
                                     ![b] = Consensus(log, redirect', b)]
           /\ overtaken' = overtaken \ {a, b}
           /\ Commit(r, {a, b})
    /\ UNCHANGED <<log, expired, learned, arrivals>>

(***************************************************************************)
(* PsycopgCityBrainRepository.ingest.                                      *)
(***************************************************************************)
CallIngest(r, e, o) == Arrive(r, [Idle EXCEPT !.pc = "find", !.b = e, !.obs = o])

\* poi_find_by_external_id; failing that, whatever place poi_match_candidates takes for
\* the same, or none.  A canonical place created for this id has its name, so that there
\* is a match.
Find(r) ==
    /\ Ready(r, "find")
    /\ LET exact == {p \in Canonical : ext[p] = req[r].b} IN
       \/ \E p \in IF exact # {} THEN exact ELSE Canonical :
             Goto(r, [req[r] EXCEPT !.pc = "lockFound", !.a = p])
       \/ /\ exact = {} /\ req[r].b \notin Canonical
          /\ Goto(r, [req[r] EXCEPT !.pc = "insertPoi", !.a = req[r].b])

\* SELECT ... FOR UPDATE of the place found, without asking again whether it is canonical.
LockFound(r) ==
    /\ Ready(r, "lockFound")
    /\ Goto(r, [req[r] EXCEPT !.pc = "observe", !.locked = TRUE])

\* INSERT ... ON CONFLICT (id) DO NOTHING.
InsertPoi(r) ==
    /\ Ready(r, "insertPoi")
    /\ Goto(r, [req[r] EXCEPT !.pc = "observe"])

\* What the commit of an ingestion leaves in pois.
WritePoi(r) ==
    LET a == req[r].a
        e == req[r].b
    IN  IF req[r].locked \/ a \notin Here
        THEN /\ ext' = [ext EXCEPT ![a] = e]
             /\ refs' = [refs EXCEPT ![a] = @ \cup {e}]
             /\ learned' = IF req[r].locked THEN learned \cup {a} ELSE learned
        ELSE UNCHANGED <<ext, refs, learned>>

\* Mutant of Observe: a candidate without an observation is inserted all the same.
ObserveAlways(r) ==
    /\ Ready(r, "observe")
    /\ LET q == req[r]
           row == <<q.obs, q.a>>
       IN  IF row \in log
           THEN /\ WritePoi(r)
                /\ Commit(r, {})
                /\ UNCHANGED <<redirect, coord, log, expired, journal, overtaken, arrivals>>
           ELSE Goto(r, [q EXCEPT !.pc = "setCoord", !.head = Canon(q.a),
                                  !.from = Consensus(log \cup {row}, redirect, Canon(q.a))])

\* INSERT of the observation, ON CONFLICT (id) DO NOTHING, and the reads of the trigger;
\* without a new observation the transaction ends.
Observe(r) ==
    /\ Ready(r, "observe")
    /\ LET q == req[r]
           row == <<q.obs, q.a>>
       IN  IF q.obs = NoObservation \/ row \in log
           THEN /\ WritePoi(r)
                /\ Commit(r, {})
                /\ UNCHANGED <<redirect, coord, log, expired, journal, overtaken, arrivals>>
           ELSE Goto(r, [q EXCEPT !.pc = "setCoord", !.head = Canon(q.a),
                                  !.from = Consensus(log \cup {row}, redirect, Canon(q.a))])

\* The trigger's UPDATE, once the head's row is free.
SetCoord(r) ==
    /\ Ready(r, "setCoord")
    /\ LET q == req[r] IN
       /\ WritePoi(r)
       /\ log' = log \cup {<<q.obs, q.a>>}
       /\ coord' = [coord EXCEPT ![q.head] = q.from]
       /\ overtaken' = IF q.late THEN overtaken \cup {q.head, Canon(q.a)}
                       ELSE overtaken \ {q.head}
       /\ Commit(r, {q.head, Canon(q.a)})
    /\ UNCHANGED <<redirect, expired, journal, arrivals>>

(***************************************************************************)
(* Time and failures.                                                      *)
(***************************************************************************)
\* expires_at passes.  No statement runs.
Expire(o) ==
    /\ o \in Perishable \ expired
    /\ expired' = expired \cup {o}
    /\ overtaken' = overtaken \cup {p \in Pois : o \in coord[p]}
    /\ req' = [q \in Requests |-> [req[q] EXCEPT !.late = @ \/ o \in req[q].from]]
    /\ UNCHANGED <<redirect, ext, refs, coord, log, journal, learned, arrivals>>

\* poi_geo_purge_expired, behind the exclusive lock its ALTER TABLE takes on the log.
Purge ==
    LET gone == {row \in log : row[1] \in expired}
        heads == {Canon(row[2]) : row \in gone}
    IN  /\ gone # {}
        /\ \A r \in Requests : req[r].pc # "setCoord" /\ Locked(req[r]) \cap heads = {}
        /\ arrivals < MaxArrivals
        /\ arrivals' = arrivals + 1
        /\ log' = log \ gone
        /\ coord' = [p \in Pois |-> IF p \in heads THEN Consensus(log', redirect, p) ELSE coord[p]]
        /\ overtaken' = overtaken \ heads
        /\ UNCHANGED <<redirect, ext, refs, expired, journal, req, learned>>

Fail(r) == req[r].pc # "idle" /\ Rollback(r)

\* PostgreSQL aborts a transaction of a set that waits only on itself.
DeadlockVictim(r) ==
    /\ \E S \in SUBSET Requests :
          r \in S /\ \A q \in S : req[q].pc # "idle" /\ Blockers(q) \cap S # {}
    /\ Rollback(r)

Call(r) ==
    \/ \E p \in Pois : CallUnmerge(r, p) \/ \E q \in Pois : CallMerge(r, p, q)
    \/ \E p \in Pois, o \in Observations \cup {NoObservation} : CallIngest(r, p, o)

Step(r) ==
    \/ LockKept(r) \/ LockMerged(r) \/ CheckIncoming(r) \/ Merge(r)
    \/ ReadJournal(r) \/ LockHead(r) \/ CheckLater(r) \/ Unmerge(r)
    \/ Find(r) \/ LockFound(r) \/ InsertPoi(r) \/ Observe(r) \/ SetCoord(r)

Next ==
    \/ \E r \in Requests : Call(r) \/ Step(r) \/ Fail(r) \/ DeadlockVictim(r)
    \/ \E o \in Observations : Expire(o)
    \/ Purge

Spec == Init /\ [][Next]_vars

(***************************************************************************)
(* Properties.                                                             *)
(***************************************************************************)
\* "merged_into always points at a canonical POI", which is what lets every read resolve
\* a duplicate in one hop, however merges of overlapping pairs interleave.
NoChains == \A p \in Pois : redirect[p] # NoPoi =>
                redirect[p] \in Here \ {p} /\ redirect[redirect[p]] = NoPoi

\* Redirects and journal agree: a place is merged away exactly if one merge of it is
\* live, and into the place that merge kept.
JournalInStep ==
    \A p \in Pois :
        /\ redirect[p] = NoPoi => LiveMerges(p) = {}
        /\ redirect[p] # NoPoi => \E i \in LiveMerges(p) : /\ LiveMerges(p) = {i}
                                                         /\ journal[i].kept = redirect[p]

\* The live merges into a place, undone last first, peel off one duplicate at a time:
\* before its next merge, or now if there is none, the place held what the merge found
\* and the duplicate holds.  Places that ingestion has updated since are exempt: what it
\* learns is not in the snapshots.
UndoPeels ==
    \A i \in DOMAIN journal :
        LET m == journal[i]
            later == {j \in DOMAIN journal : j > i /\ journal[j].live /\ journal[j].kept = m.kept}
            united == Union(m.snapshot, Row(m.merged))
        IN  m.live /\ {m.kept, m.merged} \cap learned = {} =>
                /\ later = {} => Row(m.kept) = united
                /\ \A j \in later : (\A k \in later : j <= k) => journal[j].snapshot = united

\* Whatever merges, unmerges, ingestions and purges have done to its group, the coordinate
\* of a place is the consensus of the group's live observations, unless the transaction
\* that wrote it was overtaken between its reads and its write, or an observation has
\* expired since.
CoordSettled == \A p \in Canonical \ overtaken : coord[p] = Consensus(log, redirect, p)

=============================================================================
