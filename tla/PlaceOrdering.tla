--------------------------- MODULE PlaceOrdering ---------------------------
(***************************************************************************)
(* The ordered list of places of one city stay under concurrent requests:  *)
(* addPlaceHandler and patchPlaceHandler of backend/api/src/places/routes, *)
(* rebalanceTripCity of ordering/fractional, the two unique indexes of     *)
(* trip_places and the broadcast trigger of 0017.                          *)
(*                                                                         *)
(* A place is named by its point of interest, of which a list holds one    *)
(* row (0006); a row removed and added again has a new id, which requests  *)
(* in flight do not know.  As in TripMembership, a request is one          *)
(* transaction at READ COMMITTED: `pos' holds the committed positions, the *)
(* uncommitted ones are in the request, and its last statement and COMMIT  *)
(* are one step.  The state column and the votes are left out, as is the   *)
(* editor check: a caller who loses the role has the transaction fail.     *)
(***************************************************************************)
EXTENDS FractionalKeys

CONSTANTS
    Places,         \* points of interest that may be on the list
    Requests,       \* request slots: how many requests run at the same time
    NoPlace,        \* the null value of a place
    ClientKeys,     \* legal keys clients send
    InitialKeys,    \* the positions of the rows the list starts with
    MaxArrivals     \* bound on requests and row removals

ASSUME PlacesAssumption ==
    /\ IsFiniteSet(Places) /\ NoPlace \notin Places
    /\ \A k \in ClientKeys \cup InitialKeys : k \in Seq(Digits) /\ IsValidKey(k)
    /\ MaxArrivals \in Nat

VARIABLES
    pos,        \* committed trip_places.position, NoKey when the place has no row
    req,        \* the request in each slot
    client,     \* the positions a subscriber of the trip's channel has been sent
    since,      \* history: what other requests have committed since a request read
    arrivals    \* requests and removals so far

vars == <<pos, req, client, since, arrivals>>

NoKey == <<>>
\* '~' || id: '~' is the codepoint after the last digit.
Parked == <<Base>>

PCs == {"idle", "mint", "snapshot", "park", "claim", "settle"}

Idle == [pc |-> "idle", op |-> "add", place |-> NoPlace, asked |-> NoKey, key |-> NoKey,
         retried |-> FALSE, rebalanced |-> FALSE, ids |-> <<>>,
         mine |-> [p \in Places |-> NoKey], news |-> [p \in Places |-> NoKey]]

Strings == Seq(0 .. Base)

RequestRecord ==
    [pc : PCs,                      \* the statement it runs next
     op : {"add", "move"},
     place : Places \cup {NoPlace}, \* body.poi_id; the row of :placeId
     asked : Strings,               \* body.position, NoKey when omitted
     key : Strings,                 \* the key it tries
     retried : BOOLEAN,             \* its second, jittered attempt
     rebalanced : BOOLEAN,
     ids : Seq(Places \cup {NoPlace}),
     mine : [Places -> Strings],    \* positions written by its rebalance
     news : [Places -> Strings]]    \* positions announced by those writes

\* Type invariant; the positions are text, and only a row a request has found is written.
TypeOK ==
    /\ pos \in [Places -> Strings]
    /\ req \in [Requests -> RequestRecord]
    /\ client \in [Places -> Strings]
    /\ since \in [Requests -> [moved : SUBSET Places, rekeyed : BOOLEAN]]
    /\ arrivals \in 0 .. MaxArrivals
    /\ \A r \in Requests : req[r].pc = "settle" => req[r].place \in Places

\* A list that earlier requests have built, all of it announced.
Init ==
    /\ \E f \in [InitialKeys -> Places] :
          /\ \A k, l \in InitialKeys : f[k] = f[l] => k = l
          /\ pos = [p \in Places |-> IF \E k \in InitialKeys : f[k] = p
                                     THEN CHOOSE k \in InitialKeys : f[k] = p
                                     ELSE NoKey]
    /\ client = pos
    /\ req = [r \in Requests |-> Idle]
    /\ since = [r \in Requests |-> [moved |-> {}, rekeyed |-> FALSE]]
    /\ arrivals = 0

(***************************************************************************)
(* What a transaction sees, and whom it has to wait for.                   *)
(***************************************************************************)
\* The committed position, or the one its own rebalance wrote.
Seen(r, p) == IF req[r].mine[p] # NoKey THEN req[r].mine[p] ELSE pos[p]
SeenKeys(r) == {Seen(r, p) : p \in Places} \ {NoKey}

\* Mutant of LastSeen: ORDER BY position, without DESC.
LastSeenAscending(r) ==
    IF SeenKeys(r) = {} THEN NoKey
    ELSE CHOOSE k \in SeenKeys(r) : \A l \in SeenKeys(r) : l = k \/ Before(k, l)

\* lastPosition.
LastSeen(r) ==
    IF SeenKeys(r) = {} THEN NoKey
    ELSE CHOOSE k \in SeenKeys(r) : \A l \in SeenKeys(r) : l = k \/ Before(l, k)

\* The rows of its snapshot that a rebalance has yet to park.
Unparked(r) == {p \in Places : /\ \E i \in DOMAIN req[r].ids : req[r].ids[i] = p
                               /\ req[r].mine[p] = NoKey}

\* The key each row of the snapshot gets.
FinalKey(r) ==
    LET keys == RebalanceKeys(Len(req[r].ids))
    IN  [p \in {req[r].ids[i] : i \in DOMAIN req[r].ids} \ {NoPlace} |->
            keys[CHOOSE i \in DOMAIN req[r].ids : req[r].ids[i] = p]]

\* The rows a transaction has written, or inserts.
Holds(r) == {p \in Places : req[r].mine[p] # NoKey \/ (req[r].pc = "settle" /\ req[r].place = p)}

RowHolders(r, p) == {q \in Requests \ {r} : p \in Holds(q)}

\* Transactions that have given key k to a row or taken it from one: until they end,
\* the unique index cannot tell whether k is free.
KeyHolders(r, k) == {q \in Requests \ {r} :
                        \E p \in Holds(q) : pos[p] = k \/ req[q].mine[p] = k}

\* Mutant of Taken: trip_places without its index on (trip_city_id, position).
TakenNever(r, k, own) == FALSE

\* Another row holds k.
Taken(r, k, own) == \E p \in Places \ own : Seen(r, p) = k

\* The transactions the next step of r waits for.
Blockers(r) ==
    CASE req[r].pc = "park" ->
           IF Unparked(r) = {} THEN UNION {KeyHolders(r, FinalKey(r)[p]) : p \in DOMAIN FinalKey(r)}
           ELSE IF \E p \in Unparked(r) : RowHolders(r, p) = {} THEN {}
           ELSE UNION {RowHolders(r, p) : p \in Unparked(r)}
      [] req[r].pc = "claim" -> RowHolders(r, req[r].place)
      [] req[r].pc = "settle" -> KeyHolders(r, req[r].key)
      [] OTHER -> {}

(***************************************************************************)
(* How a request moves.                                                    *)
(***************************************************************************)
\* Mutant of Announcement: the trigger tests the row's old position.
AnnouncementOfOld(old, new) == IF old = Parked \/ old = new THEN NoKey ELSE new

\* broadcast_trip_place: the position of a row's message, NoKey when it carries none.
Announcement(old, new) == IF new = Parked \/ old = new THEN NoKey ELSE new

Keep == UNCHANGED <<pos, client, since, arrivals>>

Set(r, q) == req' = [req EXCEPT ![r] = q] /\ Keep

\* ROLLBACK: a row that vanished, a clash in the rebalance, a lost connection.
Rollback(r) == Set(r, Idle)

\* COMMIT, with the row `own' (a set, empty for a refusal) at the key tried.
Commit(r, own) ==
    LET q == req[r]
        news == [p \in Places |->
                   IF p \in own /\ Announcement(Seen(r, p), q.key) # NoKey THEN q.key
                   ELSE q.news[p]]
    IN  /\ pos' = [p \in Places |-> IF p \in own THEN q.key ELSE Seen(r, p)]
        /\ client' = [p \in Places |-> IF news[p] # NoKey THEN news[p] ELSE client[p]]
        /\ req' = [req EXCEPT ![r] = Idle]
        /\ since' = [s \in Requests |->
                       IF s = r THEN since[s]
                       ELSE [moved |-> since[s].moved \cup own \cup
                                       (IF q.rebalanced THEN since[r].moved ELSE {}),
                             rekeyed |-> since[s].rekeyed \/ q.rebalanced]]
        /\ UNCHANGED arrivals

\* The reads of r start afresh.
Reads(r, q) ==
    /\ req' = [req EXCEPT ![r] = q]
    /\ since' = [since EXCEPT ![r] = [moved |-> {}, rekeyed |-> FALSE]]
    /\ UNCHANGED <<pos, client, arrivals>>

(***************************************************************************)
(* addPlaceHandler and patchPlaceHandler.                                  *)
(***************************************************************************)
Arrive(r, op, p, k) ==
    /\ req[r].pc = "idle"
    /\ arrivals < MaxArrivals
    /\ arrivals' = arrivals + 1
    /\ req' = [req EXCEPT ![r] =
                 [Idle EXCEPT !.op = op, !.place = p, !.asked = k, !.key = k,
                              !.pc = CASE k = NoKey -> "mint"
                                       [] k # NoKey /\ NeedsRebalance(k) -> "snapshot"
                                       [] OTHER -> "claim"]]
    /\ since' = [since EXCEPT ![r] = [moved |-> {}, rekeyed |-> FALSE]]
    /\ UNCHANGED <<pos, client>>

RequestAdd(r, p, k) == k \in ClientKeys \cup {NoKey} /\ Arrive(r, "add", p, k)

RequestMove(r, p, k) == pos[p] # NoKey /\ k \in ClientKeys /\ Arrive(r, "move", p, k)

\* Append: read the last position, mint a key after it; rebalance first if it is
\* long, but only once.  (keyAfter refuses a position that is no key: by ListOrdered
\* there is none.)
Mint(r) ==
    /\ req[r].pc = "mint"
    /\ \E k \in Jitter(KeyAfter(LastSeen(r))) :
          IF req[r].rebalanced
          THEN Set(r, [req[r] EXCEPT !.pc = "claim", !.key = k])
          ELSE Reads(r, IF NeedsRebalance(k)
                        THEN [req[r] EXCEPT !.pc = "snapshot"]
                        ELSE [req[r] EXCEPT !.pc = "claim", !.key = k])

\* Claim without noticing that the row is gone.
ClaimUnchecked(r) ==
    /\ req[r].pc = "claim"
    /\ Blockers(r) = {}
    /\ Set(r, [req[r] EXCEPT !.pc = "settle"])

\* The attempt starts: an INSERT that meets the place's own row is a 409, an UPDATE
\* that meets no row returns none and the handler throws.
Claim(r) ==
    /\ req[r].pc = "claim"
    /\ Blockers(r) = {}
    /\ LET here == req[r].place # NoPlace /\ Seen(r, req[r].place) # NoKey IN
       CASE req[r].op = "add" /\ here -> Commit(r, {})
         [] req[r].op = "move" /\ ~here -> Rollback(r)
         [] OTHER -> Set(r, [req[r] EXCEPT !.pc = "settle"])

\* The unique index decides: done, or one more attempt with jitter, or a 409.
Settle(r) ==
    /\ req[r].pc = "settle"
    /\ Blockers(r) = {}
    /\ IF ~Taken(r, req[r].key, {req[r].place}) THEN Commit(r, {req[r].place})
       ELSE IF req[r].retried THEN Commit(r, {})
       ELSE \E k \in Jitter(req[r].key) :
               Set(r, [req[r] EXCEPT !.pc = "claim", !.key = k, !.retried = TRUE])

(***************************************************************************)
(* rebalanceTripCity.                                                      *)
(***************************************************************************)
\* Mutant of Snapshot: ORDER BY id.
SnapshotUnordered(r) ==
    /\ req[r].pc = "snapshot"
    /\ LET rows == {p \in Places : pos[p] # NoKey} IN
       \E ids \in {s \in [1 .. Cardinality(rows) -> rows] :
                      \A i, j \in DOMAIN s : i # j => s[i] # s[j]} :
          Reads(r, [req[r] EXCEPT !.ids = ids, !.rebalanced = TRUE,
                                     !.pc = IF rows = {} THEN "mint" ELSE "park"])

Snapshot(r) ==
    /\ req[r].pc = "snapshot"
    /\ LET rows == {p \in Places : pos[p] # NoKey} IN
       \E ids \in {s \in [1 .. Cardinality(rows) -> rows] :
                      \A i, j \in DOMAIN s : i < j => Before(pos[s[i]], pos[s[j]])} :
          Reads(r, [req[r] EXCEPT !.ids = ids, !.rebalanced = TRUE,
                                     !.pc = IF rows = {} THEN "mint" ELSE "park"])

\* The first UPDATE, row by row as the rows are free.
Park(r, p) ==
    /\ req[r].pc = "park"
    /\ p \in Unparked(r)
    /\ RowHolders(r, p) = {}
    /\ Set(r, [req[r] EXCEPT !.mine[p] = Parked, !.news[p] = Announcement(pos[p], Parked)])

\* The second UPDATE: a clash with a row outside the snapshot fails the request.
Rekey(r) ==
    /\ req[r].pc = "park"
    /\ Unparked(r) = {}
    /\ Blockers(r) = {}
    /\ LET final == FinalKey(r)
           rows == DOMAIN final
       IN  IF \E p \in rows : Taken(r, final[p], rows) THEN Rollback(r)
           ELSE Set(r, [req[r] EXCEPT
                   !.pc = "mint",
                   !.mine = [p \in Places |-> IF p \in rows THEN final[p] ELSE @[p]],
                   !.news = [p \in Places |-> IF p \in rows THEN Announcement(Parked, final[p])
                                              ELSE @[p]]])

(***************************************************************************)
(* The rest of the system.                                                 *)
(***************************************************************************)
\* The cascade of a deleted account, point of interest or city stay removes a row.
RemoveRow(p) ==
    /\ pos[p] # NoKey
    /\ \A q \in Requests : p \notin Holds(q)
    /\ arrivals < MaxArrivals
    /\ arrivals' = arrivals + 1
    /\ pos' = [pos EXCEPT ![p] = NoKey]
    /\ client' = [client EXCEPT ![p] = NoKey]
    /\ req' = [q \in Requests |->
                 [req[q] EXCEPT
                    !.ids = [i \in DOMAIN @ |-> IF @[i] = p THEN NoPlace ELSE @[i]],
                    !.place = IF @ = p /\ req[q].op = "move" THEN NoPlace ELSE @]]
    /\ UNCHANGED since

Fail(r) == req[r].pc # "idle" /\ Rollback(r)

\* PostgreSQL aborts a transaction of a set that waits only on itself.
DeadlockVictim(r) ==
    /\ \E S \in SUBSET Requests :
          r \in S /\ \A q \in S : req[q].pc # "idle" /\ Blockers(q) \cap S # {}
    /\ Rollback(r)

Step(r) == \/ Mint(r) \/ Claim(r) \/ Settle(r)
           \/ Snapshot(r) \/ Rekey(r) \/ \E p \in Places : Park(r, p)

Next ==
    \/ \E r \in Requests :
          \/ \E p \in Places, k \in ClientKeys \cup {NoKey} : RequestAdd(r, p, k) \/ RequestMove(r, p, k)
          \/ Step(r) \/ Fail(r) \/ DeadlockVictim(r)
    \/ \E p \in Places : RemoveRow(p)

Spec == Init /\ [][Next]_vars

(***************************************************************************)
(* Properties.                                                             *)
(***************************************************************************)
\* The list is a strict order of legal keys: no interleaving of inserts with a
\* rebalance strands a committed row on a '~' value, and no two rows share a slot.
ListOrdered ==
    \A p \in Places : pos[p] # NoKey =>
        /\ IsValidKey(pos[p])
        /\ \A q \in Places : pos[q] = pos[p] => q = p

\* Whoever follows the trip's channel holds the committed positions: parked values are
\* never announced, final ones always are, and nothing of a failed request is.
ChannelAgrees == client = pos

Ends(r) == req[r].pc # "idle" /\ req'[r].pc = "idle"

\* The rows outside `others' keep their order.
KeepsOrder(others) ==
    \A a, b \in Places \ others :
        Before(pos[a], pos[b]) /\ pos[a] # NoKey /\ pos'[a] # NoKey /\ pos'[b] # NoKey
            => Before(pos'[a], pos'[b])

\* A request reorders no rows but its own and those displaced since its rebalance read
\* the list: moved by another request, or put back by another rebalance that had
\* missed a move.  Rows may come and go, and requests fail, meanwhile.
QuietOrderKept ==
    [][\A r \in Requests : Ends(r) => KeepsOrder(since[r].moved \cup {req[r].place})]_pos

\* Server-minted keys append: unless another request has re-keyed the list since the
\* last position was read, the row lands behind every row nobody has moved meanwhile.
Appended(r) == /\ Ends(r)
               /\ req[r].asked = NoKey \/ req[r].rebalanced
               /\ req[r].place \in Places
               /\ pos'[req[r].place] = req[r].key
LandsLast(r) == \A a \in Places \ (since[r].moved \cup {req[r].place}) :
                    pos'[a] # NoKey => Before(pos'[a], pos'[req[r].place])
AppendIsLast == [][\A r \in Requests : Appended(r) /\ ~since[r].rekeyed => LandsLast(r)]_pos

=============================================================================
